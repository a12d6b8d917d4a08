--------------------------- MODULE YearCycleProofs ---------------------------
(***************************************************************************)
(* The accounts of module YearCycle, for every horizon, tax table,         *)
(* household, market and set of strategies.                                *)
(*                                                                         *)
(* That money is conserved over a year is not inductive: in the middle of  *)
(* the year the withdrawals are neither in the accounts nor spent.  YearInv*)
(* says at each step of the year what the accounts, the withdrawals of the *)
(* attempt, the health savings account and the income add up to, what the  *)
(* tax inputs report and how long the MAGI history is; the properties      *)
(* follow at the end of the year.                                          *)
(***************************************************************************)
EXTENDS YearCycle, TLAPS
-----------------------------------------------------------------------------
(***************************************************************************)
(* What the operators of module Withdrawal keep, for every tax table and   *)
(* every balance: each step of a withdrawal attempt takes no more than is  *)
(* there and no more than is needed, and books what it takes as a          *)
(* withdrawal and as income of its kind.                                   *)
(***************************************************************************)

(* What the balances and withdrawals of an attempt add up to.              *)
Held(a) == Total(a.bal) + Total(a.wd) - a.rmdCash

(* Attempt b is attempt a with more taken out of it.                       *)
Continues(a, b) ==
  /\ Held(b) = Held(a) /\ b.rmdCash = a.rmdCash
  /\ b.bal["roth"] + b.wd["roth"] = a.bal["roth"] + a.wd["roth"]
  /\ b.inputs.ordinary = a.inputs.ordinary
  /\ b.inputs.benefits = a.inputs.benefits
  /\ b.inputs.ira - b.wd["pretax"] = a.inputs.ira - a.wd["pretax"]
  /\ b.inputs.ltcg - b.wd["taxable"] = a.inputs.ltcg - a.wd["taxable"]
  /\ b.wd["pretax"] >= a.wd["pretax"] /\ b.bal["pretax"] <= a.bal["pretax"]

LEMMA TablesType ==
  /\ Deduction \in Nat /\ TaxDivisor \in Nat \ {0}
  /\ FirstBase \in Nat /\ SecondBase \in Nat /\ FirstBase <= SecondBase
  /\ AcaContribution \in Nat /\ AcaPremium \in Nat /\ Surcharge \in Nat
  /\ MedicarePremium \in Nat /\ IrmaaThreshold \in Nat /\ AcaCliff \in Nat
  /\ MagiBuffer \in Nat /\ MaxAnnualConversion \in Nat
  /\ MinAnnualConversion \in Nat /\ BracketFill \in Nat /\ HsaCap \in Nat
BY WithdrawalAssumption

LEMMA LesserType == \A m, n \in Nat : /\ Lesser(m, n) \in Nat
                                      /\ Lesser(m, n) <= m /\ Lesser(m, n) <= n
BY DEF Lesser

LEMMA ExcessType == \A m, n \in Int : Excess(m, n) \in Nat
BY DEF Excess

LEMMA TotalType == \A b \in Balance : Total(b) \in Nat
BY DEF Balance, Bucket, Total

LEMMA MagiType == ASSUME NEW i \in TaxInputs PROVE Magi(i) \in Nat
<1> DEFINE before == 4 * (i.ordinary + i.ira) + i.ltcg
           provisional == before + 2 * i.benefits
<1>1. before \in Nat /\ provisional \in Nat /\ i.benefits \in Nat
  BY DEF TaxInputs
<1>2. FirstBase \in Nat /\ SecondBase \in Nat /\ FirstBase <= SecondBase
  BY TablesType
<1>3. TaxableBenefits(i.benefits, provisional) \in Nat
  <2> HIDE DEF provisional
  <2>1. CASE provisional <= FirstBase
    BY <1>1, <1>2, <2>1 DEF TaxableBenefits
  <2>2. CASE provisional > FirstBase /\ provisional <= SecondBase
    BY <1>1, <1>2, <2>2 DEF TaxableBenefits, Lesser
  <2>3. CASE provisional > FirstBase /\ provisional > SecondBase
    BY <1>1, <1>2, <2>3 DEF TaxableBenefits, Lesser
  <2> QED
    BY <1>1, <1>2, <2>1, <2>2, <2>3
<1> QED
  BY <1>1, <1>3 DEF Magi

LEMMA FederalTaxType == ASSUME NEW i \in TaxInputs PROVE FederalTax(i) \in Nat
<1>1. Magi(i) \in Int /\ 4 * Deduction \in Int
  BY MagiType, TablesType
<1>2. Excess(Magi(i), 4 * Deduction) \in Nat
  BY <1>1, ExcessType
<1> QED
  BY <1>2, TablesType DEF FederalTax

LEMMA HealthcareType ==
  ASSUME NEW cover \in Cover, NEW magi \in Nat, NEW irmaaMagi \in Nat
  PROVE  Healthcare(cover, magi, irmaaMagi) \in Nat
<1> DEFINE each == IF magi <= 4 * AcaCliff THEN AcaContribution ELSE AcaPremium
           part == MedicarePremium + IF irmaaMagi > 4 * IrmaaThreshold THEN Surcharge ELSE 0
<1>1. each \in Nat /\ part \in Nat
  BY TablesType
<1>2. cover.uninsured \in Nat /\ cover.medicare \in Nat
  BY DEF Cover
<1>3. \A m, n \in Nat : m * n \in Nat
  OBVIOUS
<1>4. cover.uninsured * each \in Nat /\ cover.medicare * part \in Nat
  BY <1>1, <1>2, <1>3
<1>5. Healthcare(cover, magi, irmaaMagi)
        = (IF ~cover.retired THEN 0 ELSE cover.uninsured * each) + cover.medicare * part
  BY DEF Healthcare
<1> QED
  BY <1>4, <1>5

(* The health savings account pays no more than it holds.                  *)
LEMMA HsaOffsetType ==
  ASSUME NEW mode, NEW savings \in Nat, NEW magi \in Nat, NEW care \in Nat, NEW ltc \in Nat
  PROVE  HsaOffset(mode, savings, magi, care, ltc) \in 0 .. savings
BY TablesType DEF HsaOffset, Lesser
-----------------------------------------------------------------------------
LEMMA StartType ==
  ASSUME NEW b \in Balance, NEW n \in Nat, NEW i \in TaxInputs
  PROVE  Start(b, n, i) \in Attempt /\ Start(b, n, i).rmdCash = 0
BY DEF Start, Attempt, Balance, Empty, Bucket

(* A draw within the balance and the need.                                 *)
LEMMA DrawKeeps ==
  ASSUME NEW a \in Attempt, NEW k \in Bucket, NEW n \in Nat, n <= a.bal[k], n <= a.left
  PROVE  Draw(a, k, n) \in Attempt /\ Continues(a, Draw(a, k, n))
<1> DEFINE d == Draw(a, k, n)
           kept == [a.bal EXCEPT ![k] = @ - n]
           wd == [a.wd EXCEPT ![k] = @ + n]
           inputs == IF k = "pretax" THEN [a.inputs EXCEPT !.ira = @ + n]
                     ELSE IF k = "taxable" THEN [a.inputs EXCEPT !.ltcg = @ + n] ELSE a.inputs
<1>1. /\ a.bal \in [Bucket -> Nat] /\ a.wd \in [Bucket -> Nat] /\ a.left \in Nat
      /\ a.rmdCash \in Nat /\ a.inputs \in TaxInputs
  BY DEF Attempt, Balance
<1>2. d = [ bal |-> kept, wd |-> wd, left |-> a.left - n, rmdCash |-> a.rmdCash, inputs |-> inputs ]
  BY DEF Draw
<1>3. kept \in Balance /\ wd \in Balance /\ inputs \in TaxInputs /\ a.left - n \in Nat
  <2>1. kept \in Balance
    BY <1>1 DEF Balance
  <2>2. wd \in Balance
    BY <1>1 DEF Balance
  <2>3. inputs \in TaxInputs
    BY <1>1 DEF TaxInputs
  <2> QED
    BY <1>1, <2>1, <2>2, <2>3
<1>4. /\ d.bal = kept /\ d.wd = wd /\ d.left = a.left - n /\ d.rmdCash = a.rmdCash
      /\ d.inputs = inputs /\ d \in Attempt
  <2> HIDE DEF d, kept, wd, inputs
  <2> QED
    BY <1>1, <1>2, <1>3 DEF Attempt
<1>5. Total(kept) + Total(wd) = Total(a.bal) + Total(a.wd)
  BY <1>1 DEF Total, Bucket
<1>6. kept["roth"] + wd["roth"] = a.bal["roth"] + a.wd["roth"]
  BY <1>1 DEF Bucket
<1>7. wd["pretax"] >= a.wd["pretax"] /\ kept["pretax"] <= a.bal["pretax"]
  BY <1>1 DEF Bucket
<1>8. /\ inputs.ordinary = a.inputs.ordinary /\ inputs.benefits = a.inputs.benefits
      /\ inputs.ira - wd["pretax"] = a.inputs.ira - a.wd["pretax"]
      /\ inputs.ltcg - wd["taxable"] = a.inputs.ltcg - a.wd["taxable"]
  BY <1>1 DEF Bucket, TaxInputs
<1> QED
  BY <1>1, <1>4, <1>5, <1>6, <1>7, <1>8, TotalType DEF Continues, Held, Attempt

LEMMA ContinuesItself == ASSUME NEW a \in Attempt PROVE Continues(a, a)
BY TotalType DEF Continues, Attempt, Balance, Bucket

LEMMA ContinuesOn ==
  ASSUME NEW a \in Attempt, NEW b \in Attempt, NEW c \in Attempt,
         Continues(a, b), Continues(b, c)
  PROVE  Continues(a, c)
<1>1. \A x \in Attempt :
        /\ x.bal["roth"] \in Nat /\ x.wd["roth"] \in Nat /\ x.wd["pretax"] \in Nat
        /\ x.wd["taxable"] \in Nat /\ x.bal["pretax"] \in Nat
        /\ x.inputs.ira \in Nat /\ x.inputs.ltcg \in Nat
  BY DEF Attempt, Balance, Bucket, TaxInputs
<1> QED
  BY <1>1 DEF Continues

(* The forced distribution, from a fresh attempt: the whole of it or the   *)
(* whole pretax balance is withdrawn, and what the need does not ask for   *)
(* is back in cash.                                                        *)
LEMMA WithdrawRmdKeeps ==
  ASSUME NEW a \in Attempt, NEW required \in Nat, a.rmdCash = 0
  PROVE  LET b == WithdrawRmd(a, required)
         IN  /\ b \in Attempt /\ Held(b) = Held(a)
             /\ b.bal["roth"] + b.wd["roth"] = a.bal["roth"] + a.wd["roth"]
             /\ b.inputs.ordinary = a.inputs.ordinary
             /\ b.inputs.benefits = a.inputs.benefits
             /\ b.inputs.ira - b.wd["pretax"] = a.inputs.ira - a.wd["pretax"]
             /\ b.inputs.ltcg - b.wd["taxable"] = a.inputs.ltcg - a.wd["taxable"]
             /\ b.wd["pretax"] >= required \/ b.bal["pretax"] = 0
<1> DEFINE take == Lesser(required, a.bal["pretax"])
           applied == Lesser(a.left, take)
           kept == [a.bal EXCEPT !["pretax"] = @ - take]
           wd == [a.wd EXCEPT !["pretax"] = @ + take]
           inputs == [a.inputs EXCEPT !.ira = @ + take]
           end == [kept EXCEPT !["cash"] = @ + (take - applied)]
           b == [ bal |-> end, wd |-> wd, left |-> a.left - applied,
                  rmdCash |-> take - applied, inputs |-> inputs ]
<1>1. /\ a.bal \in [Bucket -> Nat] /\ a.wd \in [Bucket -> Nat] /\ a.left \in Nat
      /\ a.inputs \in TaxInputs
  BY DEF Attempt, Balance
<1>2. WithdrawRmd(a, required) = b
  BY DEF WithdrawRmd, Draw
<1>3. /\ take \in Nat /\ take <= a.bal["pretax"]
      /\ take = required \/ take = a.bal["pretax"]
      /\ applied \in Nat /\ applied <= take /\ applied <= a.left
  BY <1>1 DEF Lesser, Bucket
<1> HIDE DEF take, applied
<1>4. kept \in [Bucket -> Nat] /\ wd \in [Bucket -> Nat] /\ inputs \in TaxInputs
  <2>1. kept \in [Bucket -> Nat]
    BY <1>1, <1>3 DEF Bucket
  <2>2. wd \in [Bucket -> Nat]
    BY <1>1, <1>3 DEF Bucket
  <2>3. inputs \in TaxInputs
    BY <1>1, <1>3 DEF TaxInputs
  <2> QED
    BY <2>1, <2>2, <2>3
<1>5. end \in [Bucket -> Nat]
  <2> HIDE DEF kept
  <2> QED
    BY <1>3, <1>4 DEF Bucket
<1>6. b \in Attempt
  <2> HIDE DEF end, wd, inputs
  <2> QED
    BY <1>1, <1>3, <1>4, <1>5 DEF Attempt, Balance
<1>7. /\ kept["pretax"] = a.bal["pretax"] - take /\ wd["pretax"] = a.wd["pretax"] + take
      /\ kept["cash"] = a.bal["cash"] /\ wd["cash"] = a.wd["cash"]
      /\ kept["taxable"] = a.bal["taxable"] /\ wd["taxable"] = a.wd["taxable"]
      /\ kept["roth"] = a.bal["roth"] /\ wd["roth"] = a.wd["roth"]
      /\ inputs.ordinary = a.inputs.ordinary /\ inputs.benefits = a.inputs.benefits
      /\ inputs.ira = a.inputs.ira + take /\ inputs.ltcg = a.inputs.ltcg
  BY <1>1 DEF Bucket, TaxInputs
<1>8. /\ end["cash"] = kept["cash"] + (take - applied)
      /\ end["taxable"] = kept["taxable"] /\ end["pretax"] = kept["pretax"]
      /\ end["roth"] = kept["roth"]
  <2> HIDE DEF kept
  <2> QED
    BY <1>4 DEF Bucket
<1>9. /\ b.bal = end /\ b.wd = wd /\ b.rmdCash = take - applied /\ b.inputs = inputs
  OBVIOUS
<1>10. /\ a.bal["cash"] \in Nat /\ a.bal["taxable"] \in Nat
       /\ a.bal["pretax"] \in Nat /\ a.bal["roth"] \in Nat
       /\ a.wd["cash"] \in Nat /\ a.wd["taxable"] \in Nat
       /\ a.wd["pretax"] \in Nat /\ a.wd["roth"] \in Nat
       /\ a.inputs.ira \in Nat /\ a.inputs.ltcg \in Nat
  BY <1>1 DEF TaxInputs, Bucket
<1> HIDE DEF kept, wd, inputs, end, b
<1>11. Held(b) = Held(a)
  <2>1. a.rmdCash = 0
    OBVIOUS
  <2> QED
    BY <1>3, <1>7, <1>8, <1>9, <1>10, <2>1 DEF Held, Total
<1> QED
  BY <1>2, <1>3, <1>6, <1>7, <1>8, <1>9, <1>10, <1>11 DEF Bucket

-----------------------------------------------------------------------------
(* What a year gives to its withdrawals.                                   *)
YearGiven(y) ==
  /\ y.rmd \in Nat /\ y.aca \in Ceiling /\ y.irmaa \in Ceiling /\ y.inputs \in TaxInputs
  /\ y.strategy.first \in {"pretax", "taxable"}
  /\ y.strategy.defensive \in {"pretax", "taxable"}

LEMMA CappedType ==
  ASSUME NEW n \in Nat, NEW ceiling \in Ceiling, NEW magi \in Nat
  PROVE  Capped(n, ceiling, magi) \in 0 .. n
<1>1. CASE ceiling = NoCeiling
  BY <1>1 DEF Capped
<1>2. CASE ceiling # NoCeiling
  <2>1. Excess(ceiling, magi) \in Nat
    BY <1>2 DEF Ceiling, Excess
  <2>2. Excess(ceiling, magi) \div 4 \in Nat
    BY <2>1
  <2>3. /\ Lesser(n, Excess(ceiling, magi) \div 4) \in Nat
        /\ Lesser(n, Excess(ceiling, magi) \div 4) <= n
    BY <2>2, LesserType
  <2> QED
    BY <1>2, <2>3 DEF Capped
<1> QED
  BY <1>1, <1>2

LEMMA PretaxRoomType ==
  ASSUME NEW a \in Attempt, NEW y, YearGiven(y)
  PROVE  PretaxRoom(a, y) \in 0 .. a.bal["pretax"]
<1>1. a.bal["pretax"] \in Nat /\ a.inputs \in TaxInputs
  BY DEF Attempt, Balance, Bucket
<1>2. Magi(a.inputs) \in Nat
  BY <1>1, MagiType
<1>3. y.aca \in Ceiling /\ y.irmaa \in Ceiling
  BY DEF YearGiven
<1>4. Capped(a.bal["pretax"], y.aca, Magi(a.inputs)) \in 0 .. a.bal["pretax"]
  BY <1>1, <1>2, <1>3, CappedType
<1>5. Capped(a.bal["pretax"], y.aca, Magi(a.inputs)) \in Nat
  BY <1>1, <1>4
<1>6. PretaxRoom(a, y) \in 0 .. Capped(a.bal["pretax"], y.aca, Magi(a.inputs))
  BY <1>2, <1>3, <1>5, CappedType DEF PretaxRoom
<1> QED
  BY <1>1, <1>4, <1>6

LEMMA FromBucketKeeps ==
  ASSUME NEW a \in Attempt, NEW k \in Bucket, NEW y, YearGiven(y)
  PROVE  FromBucket(a, k, y) \in Attempt /\ Continues(a, FromBucket(a, k, y))
<1>1. /\ a.left \in Nat /\ a.bal[k] \in Nat /\ a.bal["roth"] \in Nat
      /\ "roth" \in Bucket /\ "pretax" \in Bucket
  BY DEF Attempt, Balance, Bucket
<1>2. ASSUME NEW j \in Bucket, NEW m \in Nat, m <= a.bal[j]
      PROVE  /\ Draw(a, j, Lesser(m, a.left)) \in Attempt
             /\ Continues(a, Draw(a, j, Lesser(m, a.left)))
  <2>1. /\ Lesser(m, a.left) \in Nat /\ Lesser(m, a.left) <= m /\ Lesser(m, a.left) <= a.left
    BY <1>1, LesserType
  <2>2. a.bal[j] \in Nat
    BY DEF Attempt, Balance
  <2>3. Lesser(m, a.left) <= a.bal[j]
    BY <1>2, <2>1, <2>2
  <2> QED
    BY <2>1, <2>3, DrawKeeps
<1>3. /\ PretaxRoom(a, y) \in Nat /\ PretaxRoom(a, y) <= a.bal["pretax"]
  <2>1. a.bal["pretax"] \in Nat
    BY DEF Attempt, Balance, Bucket
  <2> QED
    BY <2>1, PretaxRoomType
<1>4. \/ FromBucket(a, k, y) = a
      \/ FromBucket(a, k, y) = Draw(a, k, Lesser(a.bal[k], a.left))
      \/ k = "pretax" /\ FromBucket(a, k, y) = Draw(a, "pretax", Lesser(PretaxRoom(a, y), a.left))
      \/ FromBucket(a, k, y) = Draw(a, "roth", Lesser(a.bal["roth"], a.left))
  BY Zenon DEF FromBucket
<1>5. a.bal[k] <= a.bal[k] /\ a.bal["roth"] <= a.bal["roth"]
  BY <1>1
<1> QED
  BY <1>1, <1>2, <1>3, <1>4, <1>5, ContinuesItself, Zenon

LEMMA CascadeKeeps ==
  ASSUME NEW a \in Attempt, NEW y, YearGiven(y)
  PROVE  Cascade(a, y) \in Attempt /\ Continues(a, Cascade(a, y))
<1> DEFINE o == WithdrawalOrder(y.strategy, y.market)
           a1 == FromBucket(a, o[1], y)
           a2 == FromBucket(a1, o[2], y)
           a3 == FromBucket(a2, o[3], y)
           a4 == FromBucket(a3, o[4], y)
<1>1. o[1] \in Bucket /\ o[2] \in Bucket /\ o[3] \in Bucket /\ o[4] \in Bucket
  BY DEF WithdrawalOrder, YearGiven, Bucket
<1>2. Cascade(a, y) = a4
  BY DEF Cascade
<1> HIDE DEF o
<1>3. a1 \in Attempt /\ Continues(a, a1)
  BY <1>1, FromBucketKeeps
<1> HIDE DEF a1
<1>4. a2 \in Attempt /\ Continues(a1, a2)
  BY <1>1, <1>3, FromBucketKeeps
<1> HIDE DEF a2
<1>5. a3 \in Attempt /\ Continues(a2, a3)
  BY <1>1, <1>4, FromBucketKeeps
<1> HIDE DEF a3
<1>6. a4 \in Attempt /\ Continues(a3, a4)
  BY <1>1, <1>5, FromBucketKeeps
<1> HIDE DEF a4
<1>7. Continues(a, a2)
  BY <1>3, <1>4, ContinuesOn
<1>8. Continues(a, a3)
  BY <1>4, <1>5, <1>7, ContinuesOn
<1> QED
  BY <1>2, <1>5, <1>6, <1>8, ContinuesOn

(* Shares that stay within the balances and the need.                      *)
LEMMA DrawAllKeeps ==
  ASSUME NEW a \in Attempt, NEW t \in Balance,
         \A k \in Bucket : t[k] <= a.bal[k], Total(t) <= a.left
  PROVE  DrawAll(a, t) \in Attempt /\ Continues(a, DrawAll(a, t))
<1> DEFINE kept == [k \in Bucket |-> a.bal[k] - t[k]]
           wd == [k \in Bucket |-> a.wd[k] + t[k]]
           inputs == [a.inputs EXCEPT !.ira = @ + t["pretax"], !.ltcg = @ + t["taxable"]]
           d == [ bal |-> kept, wd |-> wd, left |-> a.left - Total(t),
                  rmdCash |-> a.rmdCash, inputs |-> inputs ]
<1>1. /\ a.bal \in [Bucket -> Nat] /\ a.wd \in [Bucket -> Nat] /\ t \in [Bucket -> Nat]
      /\ a.left \in Nat /\ a.rmdCash \in Nat /\ a.inputs \in TaxInputs /\ Total(t) \in Nat
  BY TotalType DEF Attempt, Balance
<1>2. DrawAll(a, t) = d
  BY Zenon DEF DrawAll
<1>3. \A k \in Bucket : /\ a.bal[k] \in Nat /\ a.wd[k] \in Nat /\ t[k] \in Nat
                        /\ a.bal[k] - t[k] \in Nat
  BY <1>1
<1>4. kept \in [Bucket -> Nat] /\ wd \in [Bucket -> Nat]
  BY <1>3
<1>5. /\ inputs.ordinary = a.inputs.ordinary /\ inputs.benefits = a.inputs.benefits
      /\ inputs.ira = a.inputs.ira + t["pretax"] /\ inputs.ltcg = a.inputs.ltcg + t["taxable"]
  BY <1>1, Zenon DEF TaxInputs
<1>6. inputs \in TaxInputs
  <2>1. /\ a.inputs.ira + t["pretax"] \in Nat /\ a.inputs.ltcg + t["taxable"] \in Nat
    BY <1>1, <1>3 DEF TaxInputs, Bucket
  <2> QED
    BY <1>1, <2>1, Zenon DEF TaxInputs
<1>7. a.left - Total(t) \in Nat
  BY <1>1
<1>8. d \in Attempt
  <2> HIDE DEF kept, wd, inputs
  <2> QED
    BY <1>1, <1>4, <1>6, <1>7 DEF Attempt, Balance
<1>9. d.bal = kept /\ d.wd = wd /\ d.rmdCash = a.rmdCash /\ d.inputs = inputs
  OBVIOUS
<1>10. \A k \in Bucket : kept[k] = a.bal[k] - t[k] /\ wd[k] = a.wd[k] + t[k]
  OBVIOUS
<1> HIDE DEF kept, wd, inputs, d
<1>11. Total(kept) + Total(wd) = Total(a.bal) + Total(a.wd)
  BY <1>3, <1>10 DEF Total, Bucket
<1>12. Total(kept) \in Nat /\ Total(wd) \in Nat /\ Total(a.bal) \in Nat /\ Total(a.wd) \in Nat
  BY <1>1, <1>4, TotalType DEF Balance
<1>13. Held(d) = Held(a)
  BY <1>1, <1>9, <1>11, <1>12 DEF Held
<1>14. a.inputs.ira \in Nat /\ a.inputs.ltcg \in Nat
  BY <1>1 DEF TaxInputs
<1> QED
  BY <1>2, <1>3, <1>5, <1>8, <1>9, <1>10, <1>13, <1>14 DEF Continues, Bucket

LEMMA ShareType ==
  ASSUME NEW n \in Nat, NEW due \in Nat, NEW live \in Nat \ {0}
  PROVE  (n * due) \div live \in Nat
<1>1. \A m \in Nat : m \div live \in Nat
  OBVIOUS
<1>2. n * due \in Nat
  OBVIOUS
<1> QED
  BY <1>1, <1>2

LEMMA ProRataKeeps ==
  ASSUME NEW a \in Attempt, NEW b \in ProRata(a)
  PROVE  b \in Attempt /\ Continues(a, b)
<1> DEFINE live == Total(a.bal)
           due == Lesser(a.left, live)
           share(up) == [k \in Bucket |-> (a.bal[k] * due) \div live + IF k \in up THEN 1 ELSE 0]
<1>1. /\ a.left \in Nat /\ a.bal \in Balance /\ live \in Nat
      /\ due \in Nat /\ due <= a.left
  BY TotalType, LesserType DEF Attempt
<1>2. CASE live = 0
  <2>1. b = a
    BY <1>2 DEF ProRata
  <2> QED
    BY <2>1, ContinuesItself
<1>3. CASE live # 0
  <2>1. PICK up \in SUBSET Bucket : /\ b = DrawAll(a, share(up)) /\ Total(share(up)) = due
                                    /\ \A k \in Bucket : share(up)[k] <= a.bal[k]
    BY <1>3 DEF ProRata
  <2>2. \A k \in Bucket : (a.bal[k] * due) \div live \in Nat
    <3> HIDE DEF live, due
    <3> QED
      BY <1>1, <1>3, ShareType DEF Balance
  <2>3. share(up) \in Balance
    <3> HIDE DEF live, due
    <3> QED
      BY <2>2 DEF Balance
  <2> HIDE DEF share, due
  <2> QED
    BY <1>1, <2>1, <2>3, DrawAllKeeps
<1> QED
  BY <1>2, <1>3

(* A withdrawal for a need, whatever the rule: the balances and the        *)
(* withdrawals add up to what was there, the tax inputs report them, and   *)
(* the required distribution has been taken.                               *)
LEMMA WithdrawForNeedKeeps ==
  ASSUME NEW kept \in Balance, NEW needed \in Nat, NEW y, YearGiven(y),
         NEW a \in WithdrawForNeed(kept, needed, y)
  PROVE  /\ a \in Attempt /\ Held(a) = Total(kept)
         /\ a.bal["roth"] + a.wd["roth"] = kept["roth"]
         /\ a.inputs.ordinary = y.inputs.ordinary
         /\ a.inputs.benefits = y.inputs.benefits
         /\ a.inputs.ira = y.inputs.ira + a.wd["pretax"]
         /\ a.inputs.ltcg = y.inputs.ltcg + a.wd["taxable"]
         /\ a.wd["pretax"] >= y.rmd \/ a.bal["pretax"] = 0
<1> DEFINE start == Start(kept, needed, y.inputs)
           b == WithdrawRmd(start, y.rmd)
<1>1. y.rmd \in Nat /\ y.inputs \in TaxInputs
  BY DEF YearGiven
<1>2. start \in Attempt /\ start.rmdCash = 0
  BY <1>1, StartType
<1>3. /\ start.bal = kept /\ start.wd = Empty /\ start.inputs = y.inputs
      /\ Empty["pretax"] = 0 /\ Empty["taxable"] = 0 /\ Empty["roth"] = 0 /\ Empty["cash"] = 0
  BY DEF Start, Empty, Bucket
<1>4. Held(start) = Total(kept)
  BY <1>2, <1>3, TotalType DEF Held, Total
<1> HIDE DEF start
<1>5. /\ b \in Attempt /\ Held(b) = Held(start)
      /\ b.bal["roth"] + b.wd["roth"] = start.bal["roth"] + start.wd["roth"]
      /\ b.inputs.ordinary = start.inputs.ordinary
      /\ b.inputs.benefits = start.inputs.benefits
      /\ b.inputs.ira - b.wd["pretax"] = start.inputs.ira - start.wd["pretax"]
      /\ b.inputs.ltcg - b.wd["taxable"] = start.inputs.ltcg - start.wd["taxable"]
      /\ b.wd["pretax"] >= y.rmd \/ b.bal["pretax"] = 0
  BY <1>1, <1>2, WithdrawRmdKeeps
<1>6. a \in ProRata(b) \/ a = Cascade(b, y)
  BY DEF WithdrawForNeed, start
<1> HIDE DEF b
<1>7. a \in Attempt /\ Continues(b, a)
  BY <1>5, <1>6, ProRataKeeps, CascadeKeeps
<1>8. \A x \in Attempt :
        /\ x.bal["roth"] \in Nat /\ x.wd["roth"] \in Nat /\ x.wd["pretax"] \in Nat
        /\ x.wd["taxable"] \in Nat /\ x.bal["pretax"] \in Nat
        /\ x.inputs.ira \in Nat /\ x.inputs.ltcg \in Nat
  BY DEF Attempt, Balance, Bucket, TaxInputs
<1>9. kept["roth"] \in Nat /\ y.inputs.ira \in Nat /\ y.inputs.ltcg \in Nat
  BY <1>1 DEF Balance, Bucket, TaxInputs
<1> QED
  BY <1>1, <1>2, <1>3, <1>4, <1>5, <1>7, <1>8, <1>9 DEF Continues
-----------------------------------------------------------------------------
LEMMA QuartersType ==
  ASSUME NEW m \in Nat, NEW n \in Quarters(m)
  PROVE  n \in Nat /\ n <= m
<1>1. PICK f \in 1 .. 4 : n = (m * f) \div 4
  BY DEF Quarters
<1>2. f = 1 \/ f = 2 \/ f = 3 \/ f = 4
  OBVIOUS
<1> QED
  BY <1>1, <1>2

(* A conversion never exceeds the cap of the year.                         *)
LEMMA ConversionsType ==
  ASSUME NEW a \in Attempt, NEW cap \in Nat, NEW fillOpen \in BOOLEAN, NEW y,
         NEW n \in Conversions(a, cap, fillOpen, y)
  PROVE  n \in Nat /\ n <= cap
<1>1. /\ Budget(cap) \in Nat /\ Budget(cap) <= cap
  BY TablesType, LesserType DEF Budget
<1>2. Headroom(a, cap) \in Nat
  <2>1. Magi(a.inputs) \in Nat
    BY MagiType DEF Attempt
  <2>2. Excess(4 * IrmaaThreshold, Magi(a.inputs) + 4 * MagiBuffer) \in Nat
    BY <2>1, TablesType DEF Excess
  <2>3. Excess(4 * IrmaaThreshold, Magi(a.inputs) + 4 * MagiBuffer) \div 4 \in Nat
    BY <2>2
  <2> QED
    BY <2>3, LesserType DEF Headroom
<1>3. \A m \in SafeAmounts(a, cap, fillOpen) : m \in Nat /\ m <= cap
  <2> SUFFICES ASSUME NEW m \in SafeAmounts(a, cap, fillOpen) PROVE m \in Nat /\ m <= cap
    OBVIOUS
  <2>1. PICK q \in Quarters(Headroom(a, cap)) \cup (IF fillOpen THEN {BracketFill} ELSE {}) :
          m = Lesser(q, Budget(cap))
    BY DEF SafeAmounts
  <2>2. q \in Nat
    BY <1>2, <2>1, QuartersType, TablesType
  <2>3. m \in Nat /\ m <= Budget(cap)
    BY <1>1, <2>1, <2>2, LesserType
  <2> QED
    BY <1>1, <2>3
<1>4. \A m \in DefensiveAmounts(a, cap, y) : m \in Nat /\ m <= cap
  <2> SUFFICES ASSUME NEW m \in DefensiveAmounts(a, cap, y) PROVE m \in Nat /\ m <= cap
    OBVIOUS
  <2>1. m \in Quarters(Budget(cap))
    BY DEF DefensiveAmounts
  <2>2. m \in Nat /\ m <= Budget(cap)
    BY <1>1, <2>1, QuartersType
  <2> QED
    BY <1>1, <2>2
<1>5. n = 0 \/ n \in SafeAmounts(a, cap, fillOpen) \/ n \in DefensiveAmounts(a, cap, y)
  BY Zenon DEF Conversions
<1> QED
  BY <1>3, <1>4, <1>5

LEMMA ConvertedKeeps ==
  ASSUME NEW a \in Attempt, NEW n \in Nat, n <= a.bal["pretax"]
  PROVE  LET b == Converted(a, n)
         IN  /\ b \in Attempt /\ Held(b) = Held(a) /\ b.wd = a.wd /\ b.rmdCash = a.rmdCash
             /\ b.bal["roth"] = a.bal["roth"] + n
             /\ b.bal["pretax"] = a.bal["pretax"] - n
             /\ b.inputs.ordinary = a.inputs.ordinary
             /\ b.inputs.benefits = a.inputs.benefits
             /\ b.inputs.ltcg = a.inputs.ltcg
             /\ b.inputs.ira = a.inputs.ira + n
<1> DEFINE kept == [a.bal EXCEPT !["pretax"] = @ - n, !["roth"] = @ + n]
           inputs == [a.inputs EXCEPT !.ira = @ + n]
           b == [ bal |-> kept, wd |-> a.wd, left |-> a.left, rmdCash |-> a.rmdCash,
                  inputs |-> inputs ]
<1>1. /\ a.bal \in [Bucket -> Nat] /\ a.wd \in [Bucket -> Nat] /\ a.left \in Nat
      /\ a.rmdCash \in Nat /\ a.inputs \in TaxInputs
  BY DEF Attempt, Balance
<1>2. Converted(a, n) = b
  BY Zenon DEF Converted
<1>3. /\ kept["cash"] = a.bal["cash"] /\ kept["taxable"] = a.bal["taxable"]
      /\ kept["pretax"] = a.bal["pretax"] - n /\ kept["roth"] = a.bal["roth"] + n
  BY <1>1, Zenon DEF Bucket
<1>4. /\ a.bal["cash"] \in Nat /\ a.bal["taxable"] \in Nat
      /\ a.bal["pretax"] \in Nat /\ a.bal["roth"] \in Nat
      /\ a.bal["pretax"] - n \in Nat /\ a.bal["roth"] + n \in Nat
  BY <1>1 DEF Bucket
<1>5. kept \in [Bucket -> Nat]
  BY <1>1, <1>4, Zenon DEF Bucket
<1>6. inputs \in TaxInputs
  BY <1>1 DEF TaxInputs
<1>7. /\ inputs.ordinary = a.inputs.ordinary /\ inputs.benefits = a.inputs.benefits
      /\ inputs.ltcg = a.inputs.ltcg /\ inputs.ira = a.inputs.ira + n
  BY <1>1 DEF TaxInputs
<1> HIDE DEF kept, inputs
<1>8. b \in Attempt
  BY <1>1, <1>5, <1>6 DEF Attempt, Balance
<1>9. Total(kept) = Total(a.bal)
  <2>1. Total(kept) = a.bal["cash"] + a.bal["taxable"] + (a.bal["pretax"] - n) + (a.bal["roth"] + n)
    BY <1>3, Zenon DEF Total
  <2>2. Total(a.bal) = a.bal["cash"] + a.bal["taxable"] + a.bal["pretax"] + a.bal["roth"]
    BY DEF Total
  <2> QED
    BY <1>4, <2>1, <2>2
<1> QED
  BY <1>2, <1>3, <1>7, <1>8, <1>9 DEF Held
-----------------------------------------------------------------------------
(* The state of a year. *)

(* All the year brings: the windfall comes as cash and as income.          *)
Brought ==
  book.opening + book.earned + book.matched + book.rothIn + book.gain + 2 * book.windfall
RothBrought == book.openingRoth + book.rothIn + book.rothGain

Reported ==
  /\ att.inputs.ordinary = book.given.inputs.ordinary
  /\ att.inputs.benefits = book.given.inputs.benefits
  /\ att.inputs.ira = att.wd["pretax"] + book.converted
  /\ att.inputs.ltcg = book.given.inputs.ltcg + att.wd["taxable"]
Distributed ==
  att.wd["pretax"] >= book.given.rmd \/ att.bal["pretax"] + book.converted = 0

HistoryInv == Len(history) = IF phase = "closed" THEN year ELSE year - 1

(* The accounts before the withdrawals of the year.                        *)
BeforeWithdrawal ==
  /\ Total(bal) + hsa + book.income = Brought
  /\ bal["roth"] = RothBrought /\ book.offset = 0

(* The attempt against the accounts it started from.                       *)
Attempted ==
  /\ Held(att) = Total(bal)
  /\ att.bal["roth"] + att.wd["roth"] = bal["roth"] + book.converted

(* The accounts with the attempt taken over.                               *)
Withdrawn ==
  /\ att.bal = bal
  /\ Held(att) + hsa + book.offset + book.income = Brought
  /\ bal["roth"] + att.wd["roth"] = RothBrought + book.converted

YearInv ==
  /\ phase # "open" => book.given.inputs.ira = 0
  /\ phase \in {"loop", "convert", "medical"} => BeforeWithdrawal
  /\ phase \in {"loop", "convert"} => book.converted = 0
  /\ phase \in {"convert", "medical"} => Attempted
  /\ phase \in {"convert", "medical", "fund", "closed"} => Reported
  /\ phase \in {"convert", "medical", "fund"} => Distributed
  /\ phase = "fund" => Withdrawn
  /\ phase \in {"fund", "closed"} => book.bill = Bill(att.inputs)
  /\ phase = "closed" => /\ Total(bal) + hsa = Explained + book.rothIn + book.windfall
                         /\ RothReconciles /\ RmdIsTaken

IInv == TypeOK /\ HistoryInv /\ YearInv
-----------------------------------------------------------------------------
(* Types of the year's helpers.                                            *)

LEMMA YearConstants ==
  /\ Horizon \in Nat \ {0} /\ MaxPasses \in Nat \ {0} /\ MaxFundingPasses \in Nat \ {0}
  /\ LookBack \in Nat \ {0} /\ Essential \in Nat /\ Optional \in Nat /\ CutOptional \in Nat
  /\ FloorYears \in Nat /\ CeilingYears \in Nat /\ AcaBuffer \in Nat
  /\ CutOptional <= Optional
BY YearAssumption

LEMMA ThisType ==
  ASSUME year \in 1 .. Horizon
  PROVE  /\ This.salary \in Nat /\ This.matchCap \in Nat /\ This.benefits \in Nat
         /\ This.divisor \in Nat /\ This.care \in Nat /\ This.cover \in Cover
         /\ This.rmdNear \in BOOLEAN
<1>1. This \in YearProfile
  BY YearAssumption DEF This
<1> QED
  BY <1>1 DEF YearProfile

LEMMA GrowType ==
  ASSUME NEW n \in Nat, NEW r \in Int, r >= -4
  PROVE  Grow(n, r) \in Nat
<1>1. n * r = n * (r + 4) - 4 * n
  OBVIOUS
<1>2. r + 4 \in Nat
  OBVIOUS
<1>3. \A p, q \in Nat : p * q \in Nat
  OBVIOUS
<1>4. n * (r + 4) \in Nat
  BY <1>2, <1>3
<1> DEFINE m == n * (r + 4)
<1>5. (n * r) \div 4 = m \div 4 - n
  <2>1. n * r = m - 4 * n
    BY <1>1
  <2>2. m \in Nat
    BY <1>4
  <2> HIDE DEF m
  <2> QED
    BY <2>1, <2>2
<1>6. m \div 4 \in Nat
  <2>1. m \in Nat
    BY <1>4
  <2> HIDE DEF m
  <2> QED
    BY <2>1
<1> HIDE DEF m
<1> QED
  BY <1>5, <1>6 DEF Grow

LEMMA IrmaaMagiType ==
  ASSUME history \in Seq(Nat), year \in Nat, NEW magi \in Nat
  PROVE  IrmaaMagi(magi) \in Nat
BY YearConstants DEF IrmaaMagi

LEMMA BillType ==
  ASSUME history \in Seq(Nat), year \in 1 .. Horizon, NEW i \in TaxInputs
  PROVE  Bill(i) \in Bills
<1>1. Magi(i) \in Nat /\ FederalTax(i) \in Nat
  BY MagiType, FederalTaxType
<1>2. year \in Nat
  BY YearConstants
<1>3. IrmaaMagi(Magi(i)) \in Nat
  BY <1>1, <1>2, IrmaaMagiType
<1>4. This.cover \in Cover
  BY ThisType
<1>5. Healthcare(This.cover, Magi(i), IrmaaMagi(Magi(i))) \in Nat
  BY <1>1, <1>3, <1>4, HealthcareType
<1> QED
  BY <1>1, <1>5 DEF Bill, Bills

LEMMA SpendingType ==
  ASSUME NEW c \in BOOLEAN, prices \in Nat
  PROVE  SpendingNow(c) \in Nat
<1> DEFINE s == Essential + IF c THEN Optional - CutOptional ELSE Optional
<1>1. s \in Nat
  BY YearConstants
<1>2. s * prices \in Nat
  <2> HIDE DEF s
  <2>1. \A m, n \in Nat : m * n \in Nat
    OBVIOUS
  <2> QED
    BY <1>1, <2>1
<1>3. \A m \in Nat : m \div 4 \in Nat
  OBVIOUS
<1>4. (s * prices) \div 4 \in Nat
  BY <1>2, <1>3
<1> QED
  BY <1>4 DEF SpendingNow

(* A supplemental pass only takes more out.                                *)
LEMMA FundingPassKeeps ==
  ASSUME NEW a \in Attempt
  PROVE  FundingPass(a) \in Attempt /\ Continues(a, FundingPass(a))
<1> DEFINE take(b, k) == Draw(b, k, Lesser(b.bal[k], b.left))
           a1 == take(a, "cash")
           a2 == take(a1, "taxable")
           a3 == take(a2, "roth")
           a4 == take(a3, "pretax")
<1>1. \A b \in Attempt, k \in Bucket : take(b, k) \in Attempt /\ Continues(b, take(b, k))
  <2> SUFFICES ASSUME NEW b \in Attempt, NEW k \in Bucket
               PROVE  take(b, k) \in Attempt /\ Continues(b, take(b, k))
    OBVIOUS
  <2>1. b.bal[k] \in Nat /\ b.left \in Nat
    BY DEF Attempt, Balance
  <2>2. /\ Lesser(b.bal[k], b.left) \in Nat /\ Lesser(b.bal[k], b.left) <= b.bal[k]
        /\ Lesser(b.bal[k], b.left) <= b.left
    BY <2>1, LesserType
  <2> QED
    BY <2>2, DrawKeeps
<1>2. "cash" \in Bucket /\ "taxable" \in Bucket /\ "roth" \in Bucket /\ "pretax" \in Bucket
  BY DEF Bucket
<1>3. FundingPass(a) = a4
  BY Zenon DEF FundingPass
<1> HIDE DEF take
<1>4. a1 \in Attempt /\ Continues(a, a1)
  BY <1>1, <1>2
<1> HIDE DEF a1
<1>5. a2 \in Attempt /\ Continues(a1, a2)
  BY <1>1, <1>2, <1>4
<1> HIDE DEF a2
<1>6. a3 \in Attempt /\ Continues(a2, a3)
  BY <1>1, <1>2, <1>5
<1> HIDE DEF a3
<1>7. a4 \in Attempt /\ Continues(a3, a4)
  BY <1>1, <1>2, <1>6
<1> HIDE DEF a4
<1>8. Continues(a, a2)
  BY <1>4, <1>5, ContinuesOn
<1>9. Continues(a, a3)
  BY <1>5, <1>6, <1>8, ContinuesOn
<1> QED
  BY <1>3, <1>6, <1>7, <1>9, ContinuesOn
-----------------------------------------------------------------------------
(* The initial states and each step of the year keep IInv.                 *)

LEMMA InitIInv == Init => IInv
<1> SUFFICES ASSUME Init PROVE IInv
  OBVIOUS
<1>1. bal \in Balance /\ hsa \in Nat /\ strategy \in Strategy
  BY YearAssumption DEF Init, Balance
<1>2. NoInputs \in TaxInputs
  BY DEF NoInputs, TaxInputs
<1>3. att \in Attempt
  BY <1>1, <1>2, StartType DEF Init
<1>4. loop \in LoopState
  BY DEF Init, IdleLoop, LoopState, NoState
<1>5. 1 \in 1 .. Horizon /\ 0 \in 0 .. Horizon
  BY YearConstants
<1>6. TypeOK
  <2>1. /\ history = <<>> /\ prices = 4 /\ cut = FALSE
        /\ phase = "open" /\ book = NoBook /\ year = 1 /\ failed = 0
    BY Zenon DEF Init
  <2>2. prices \in Nat
    BY <2>1
  <2>3. cut \in BOOLEAN
    BY <2>1, Zenon
  <2>4. history \in Seq(Nat)
    BY <2>1
  <2> QED
    BY <1>1, <1>3, <1>4, <1>5, <2>1, <2>2, <2>3, <2>4, Zenon DEF TypeOK
<1>7. HistoryInv
  BY DEF Init, HistoryInv
<1>8. YearInv
  BY Zenon DEF Init, YearInv
<1> QED
  BY <1>6, <1>7, <1>8 DEF IInv

(* The contributions and the growth of the accounts.                       *)
LEMMA ContributeType ==
  ASSUME NEW b \in Balance, NEW e \in [pretax : Nat, roth : Nat, hsa : Nat],
         This.matchCap \in Nat
  PROVE  /\ Contribute(b, e) \in Balance /\ Match(e) \in Nat
         /\ Total(Contribute(b, e)) = Total(b) + e.pretax + e.roth + Match(e)
         /\ Contribute(b, e)["roth"] = b["roth"] + e.roth
<1> DEFINE c == [b EXCEPT !["pretax"] = @ + e.pretax + Match(e), !["roth"] = @ + e.roth]
<1>1. /\ b["cash"] \in Nat /\ b["taxable"] \in Nat /\ b["pretax"] \in Nat /\ b["roth"] \in Nat
      /\ e.pretax \in Nat /\ e.roth \in Nat
  BY DEF Balance, Bucket
<1>2. Match(e) \in Nat
  BY <1>1 DEF Match, Lesser
<1>3. Contribute(b, e) = c
  BY DEF Contribute
<1>4. /\ c["cash"] = b["cash"] /\ c["taxable"] = b["taxable"]
      /\ c["pretax"] = b["pretax"] + e.pretax + Match(e) /\ c["roth"] = b["roth"] + e.roth
  BY Zenon DEF Balance, Bucket
<1>5. b["pretax"] + e.pretax + Match(e) \in Nat /\ b["roth"] + e.roth \in Nat
  BY <1>1, <1>2
<1>6. c \in Balance
  BY <1>5, Zenon DEF Balance, Bucket
<1> HIDE DEF c
<1>7. Total(c) = b["cash"] + b["taxable"] + (b["pretax"] + e.pretax + Match(e)) + (b["roth"] + e.roth)
  BY <1>4, Zenon DEF Total
<1>8. Total(b) = b["cash"] + b["taxable"] + b["pretax"] + b["roth"]
  BY DEF Total
<1> QED
  BY <1>1, <1>2, <1>3, <1>4, <1>6, <1>7, <1>8

LEMMA GivenType ==
  ASSUME TypeOK, NEW m \in Markets, NEW i \in TaxInputs
  PROVE  [ rmd |-> RequiredDistribution, market |-> m.state, strategy |-> strategy,
           cover |-> This.cover, rmdNear |-> This.rmdNear,
           aca |-> AcaCeiling, irmaa |-> IrmaaCeiling, inputs |-> i ] \in Given
<1>1. /\ year \in 1 .. Horizon /\ bal["pretax"] \in Nat /\ prices \in Nat /\ strategy \in Strategy
  BY DEF TypeOK, Balance, Bucket
<1>2. /\ This.divisor \in Nat /\ This.cover \in Cover /\ This.rmdNear \in BOOLEAN
  BY <1>1, ThisType
<1>3. RequiredDistribution \in Nat
  BY <1>1, <1>2 DEF RequiredDistribution
<1>4. AcaCeiling \in Ceiling
  <2>1. AcaCliff * prices \in Nat
    BY <1>1, TablesType
  <2>2. Excess(AcaCliff * prices, 4 * AcaBuffer) \in Nat
    BY <2>1, YearConstants DEF Excess
  <2> QED
    BY <2>2 DEF AcaCeiling, Ceiling
<1>5. IrmaaCeiling \in Ceiling
  BY TablesType DEF IrmaaCeiling, Ceiling
<1>6. m.state \in {"down", "normal", "up"}
  BY YearAssumption
<1> HIDE DEF This
<1> QED
  BY <1>1, <1>2, <1>3, <1>4, <1>5, <1>6 DEF Given

LEMMA OpenYearKeeps == ASSUME IInv, OpenYear PROVE IInv'
<1>1. /\ TypeOK /\ HistoryInv /\ phase = "open"
      /\ year \in 1 .. Horizon /\ bal \in Balance /\ hsa \in Nat /\ prices \in Nat
      /\ strategy \in Strategy
  BY DEF IInv, TypeOK, OpenYear
<1>2. PICK e \in Elections, m \in Markets, w \in Windfalls :
        /\ Feasible(e)
        /\ bal' = [Grown(Contribute(bal, e), m) EXCEPT !["cash"] = @ + w.cash]
        /\ hsa' = Grow(hsa + e.hsa, m.hsaReturn)
        /\ book' = [ opening |-> OwnedAtStart, openingRoth |-> bal["roth"],
                     earned |-> This.salary + (This.benefits * prices) \div 4,
                     matched |-> Match(e), rothIn |-> e.roth,
                     gain |-> Total(Grown(Contribute(bal, e), m)) - Total(Contribute(bal, e))
                                + Grow(hsa + e.hsa, m.hsaReturn) - (hsa + e.hsa),
                     rothGain |-> Grown(Contribute(bal, e), m)["roth"] - Contribute(bal, e)["roth"],
                     windfall |-> w.cash,
                     income |-> AdjustedWages(e) + (This.benefits * prices) \div 4 + w.cash,
                     spend |-> SpendingNow(CutAfter),
                     care |-> IF strategy.care THEN This.care ELSE 0,
                     converted |-> 0, offset |-> 0, bill |-> NoBill, funded |-> 0, gap |-> 0,
                     given |-> [ rmd |-> RequiredDistribution, market |-> m.state,
                                 strategy |-> strategy, cover |-> This.cover,
                                 rmdNear |-> This.rmdNear,
                                 aca |-> AcaCeiling, irmaa |-> IrmaaCeiling,
                                 inputs |-> [ ordinary |-> AdjustedWages(e) + w.ordinary,
                                              benefits |-> (This.benefits * prices) \div 4,
                                              ira |-> 0, ltcg |-> 4 * w.gain ] ] ]
        /\ loop' = [IdleLoop EXCEPT !.needed =
                      Excess(SpendingNow(CutAfter),
                             AdjustedWages(e) + (This.benefits * prices) \div 4 + w.cash)]
  BY Zenon DEF OpenYear
<1> DEFINE benefits == (This.benefits * prices) \div 4
           paid == Contribute(bal, e)
           grown == Grown(paid, m)
           income == AdjustedWages(e) + benefits + w.cash
           spend == SpendingNow(CutAfter)
           inputs == [ ordinary |-> AdjustedWages(e) + w.ordinary, benefits |-> benefits,
                       ira |-> 0, ltcg |-> 4 * w.gain ]
           given == [ rmd |-> RequiredDistribution, market |-> m.state,
                      strategy |-> strategy, cover |-> This.cover, rmdNear |-> This.rmdNear,
                      aca |-> AcaCeiling, irmaa |-> IrmaaCeiling, inputs |-> inputs ]
<1>3. /\ e \in [pretax : Nat, roth : Nat, hsa : Nat]
      /\ e.pretax \in Nat /\ e.roth \in Nat /\ e.hsa \in Nat
      /\ w.cash \in Nat /\ w.ordinary \in Nat /\ w.gain \in Nat
      /\ m.hsaReturn \in Int /\ m.hsaReturn >= -4
      /\ \A k \in Bucket : m.return[k] \in Int /\ m.return[k] >= -4
  BY YearAssumption
<1>4. /\ This.salary \in Nat /\ This.matchCap \in Nat /\ This.benefits \in Nat /\ This.care \in Nat
  BY <1>1, ThisType
<1>5. benefits \in Nat
  <2>1. This.benefits * prices \in Nat
    <3>1. \A p, q \in Nat : p * q \in Nat
      OBVIOUS
    <3> QED
      BY <1>1, <1>4, <3>1
  <2>2. \A p \in Nat : p \div 4 \in Nat
    OBVIOUS
  <2> QED
    BY <2>1, <2>2
<1>6. AdjustedWages(e) \in Nat /\ AdjustedWages(e) = This.salary - e.pretax - e.hsa
  BY <1>2, <1>3, <1>4 DEF Feasible, AdjustedWages
<1>7. income \in Nat
  <2> HIDE DEF benefits
  <2> QED
    BY <1>3, <1>5, <1>6
<1>8. /\ paid \in Balance /\ Match(e) \in Nat
      /\ Total(paid) = Total(bal) + e.pretax + e.roth + Match(e)
      /\ paid["roth"] = bal["roth"] + e.roth
  BY <1>1, <1>3, <1>4, ContributeType
<1>9. grown \in Balance
  <2>1. \A k \in Bucket : Grow(paid[k], m.return[k]) \in Nat
    BY <1>3, <1>8, GrowType DEF Balance
  <2> QED
    BY <2>1 DEF Grown, Balance
<1>10. hsa' \in Nat /\ Grow(hsa + e.hsa, m.hsaReturn) \in Nat
  BY <1>1, <1>2, <1>3, GrowType
<1>11. spend \in Nat
  <2>1. CutAfter \in BOOLEAN
    BY Zenon DEF CutAfter
  <2> QED
    BY <1>1, <2>1, SpendingType
<1>12. inputs \in TaxInputs /\ inputs.ira = 0
  <2> HIDE DEF benefits
  <2> QED
    BY <1>3, <1>5, <1>6 DEF TaxInputs
<1>13. given \in Given
  <2> HIDE DEF inputs
  <2> QED
    BY <1>1, <1>12, GivenType
<1> HIDE DEF benefits, paid, grown, income, spend, inputs, given
<1>14. book' = [ opening |-> OwnedAtStart, openingRoth |-> bal["roth"],
                 earned |-> This.salary + benefits, matched |-> Match(e), rothIn |-> e.roth,
                 gain |-> Total(grown) - Total(paid) + Grow(hsa + e.hsa, m.hsaReturn) - (hsa + e.hsa),
                 rothGain |-> grown["roth"] - paid["roth"], windfall |-> w.cash,
                 income |-> income, spend |-> spend,
                 care |-> IF strategy.care THEN This.care ELSE 0,
                 converted |-> 0, offset |-> 0, bill |-> NoBill, funded |-> 0, gap |-> 0,
                 given |-> given ]
  BY <1>2, Zenon DEF benefits, paid, grown, income, spend, inputs, given
<1>15. /\ Total(bal) \in Nat /\ Total(paid) \in Nat /\ Total(grown) \in Nat
       /\ OwnedAtStart = Total(bal) + hsa
       /\ bal["roth"] \in Nat /\ paid["roth"] \in Nat /\ grown["roth"] \in Nat
       /\ NoBill \in Bills
  BY <1>1, <1>8, <1>9, TotalType DEF OwnedAtStart, Balance, Bucket, NoBill, Bills
<1>16. /\ bal' \in Balance /\ Total(bal') = Total(grown) + w.cash
       /\ bal'["roth"] = grown["roth"]
  <2>1. bal' = [grown EXCEPT !["cash"] = @ + w.cash]
    BY <1>2 DEF grown, paid
  <2>2. /\ grown["cash"] \in Nat /\ grown["taxable"] \in Nat
        /\ grown["pretax"] \in Nat /\ grown["roth"] \in Nat
    BY <1>9 DEF Balance, Bucket
  <2>3. bal' \in Balance
    BY <1>3, <1>9, <2>1, <2>2 DEF Balance, Bucket
  <2>4. /\ bal'["cash"] = grown["cash"] + w.cash /\ bal'["taxable"] = grown["taxable"]
        /\ bal'["pretax"] = grown["pretax"] /\ bal'["roth"] = grown["roth"]
    BY <1>9, <2>1 DEF Balance, Bucket
  <2> QED
    BY <1>3, <2>2, <2>3, <2>4 DEF Total
<1>17. /\ book'.opening = Total(bal) + hsa /\ book'.openingRoth = bal["roth"]
       /\ book'.earned = This.salary + benefits
       /\ book'.matched = Match(e) /\ book'.rothIn = e.roth /\ book'.windfall = w.cash
       /\ book'.gain = Total(grown) - Total(paid) + hsa' - (hsa + e.hsa)
       /\ book'.rothGain = grown["roth"] - paid["roth"]
       /\ book'.income = income /\ book'.converted = 0 /\ book'.offset = 0
       /\ book'.given = given /\ given.inputs = inputs
  <2>1. given.inputs = inputs
    BY DEF given
  <2>2. hsa' = Grow(hsa + e.hsa, m.hsaReturn)
    BY <1>2
  <2> QED
    BY <1>14, <1>15, <2>1, <2>2
<1>18. income = This.salary - e.pretax - e.hsa + benefits + w.cash
  BY <1>6 DEF income
<1>19. BeforeWithdrawal'
  <2>1. Total(bal') + hsa' + book'.income
          = book'.opening + book'.earned + book'.matched + book'.rothIn + book'.gain + 2 * book'.windfall
    BY <1>1, <1>3, <1>4, <1>5, <1>7, <1>8, <1>10, <1>15, <1>16, <1>17, <1>18
  <2>2. bal'["roth"] = book'.openingRoth + book'.rothIn + book'.rothGain
    BY <1>3, <1>8, <1>15, <1>16, <1>17
  <2> QED
    BY <1>17, <2>1, <2>2 DEF BeforeWithdrawal, Brought, RothBrought
<1>20. book' \in YearBook
  <2>1. /\ OwnedAtStart \in Nat /\ This.salary + benefits \in Nat
        /\ Total(grown) - Total(paid) + Grow(hsa + e.hsa, m.hsaReturn) - (hsa + e.hsa) \in Int
        /\ grown["roth"] - paid["roth"] \in Int
        /\ (IF strategy.care THEN This.care ELSE 0) \in Nat
    BY <1>1, <1>3, <1>4, <1>5, <1>10, <1>15
  <2> QED
    BY <1>3, <1>7, <1>8, <1>11, <1>13, <1>14, <1>15, <2>1 DEF YearBook
<1>21. loop' \in LoopState
  <2>1. Excess(spend, income) \in Nat
    BY <1>7, <1>11 DEF Excess
  <2>2. loop' = [IdleLoop EXCEPT !.needed = Excess(spend, income)]
    BY <1>2, Zenon DEF benefits, income, spend
  <2> QED
    BY <2>1, <2>2 DEF IdleLoop, LoopState, NoState
<1>22. /\ phase' = "loop" /\ year' = year /\ strategy' = strategy /\ prices' = prices
       /\ history' = history /\ failed' = failed /\ att' = att /\ cut' = CutAfter
  BY Zenon DEF OpenYear
<1>23. TypeOK'
  <2>1. cut' \in BOOLEAN
    BY <1>22, Zenon DEF CutAfter
  <2> QED
    BY <1>1, <1>10, <1>16, <1>20, <1>21, <1>22, <2>1 DEF TypeOK
<1>24. HistoryInv'
  BY <1>1, <1>22 DEF HistoryInv
<1>25. YearInv'
  BY <1>12, <1>17, <1>19, <1>22 DEF YearInv
<1> QED
  BY <1>23, <1>24, <1>25 DEF IInv

LEMMA GivenYear == ASSUME NEW y \in Given PROVE YearGiven(y)
BY DEF Given, YearGiven, Strategy

LEMMA StateType ==
  ASSUME TypeOK, phase # "open", NEW a \in Attempt
  PROVE  State(a) \in States
<1> DEFINE magi == Magi(a.inputs)
           care == Healthcare(This.cover, magi, IrmaaMagi(magi))
           offset == HsaOffset(strategy.hsaMode, hsa, magi, care, book.care)
           due == book.spend + care + FederalTax(a.inputs) + book.care - offset
<1>1. /\ year \in 1 .. Horizon /\ year \in Nat /\ history \in Seq(Nat) /\ hsa \in Nat
      /\ book \in YearBook
  BY YearConstants DEF TypeOK
<1>2. a.inputs \in TaxInputs
  BY DEF Attempt
<1>3. magi \in Nat /\ FederalTax(a.inputs) \in Nat
  BY <1>2, MagiType, FederalTaxType
<1>4. IrmaaMagi(magi) \in Nat
  BY <1>1, <1>3, IrmaaMagiType
<1>5. care \in Nat
  BY <1>1, <1>3, <1>4, HealthcareType, ThisType
<1>6. book.care \in Nat /\ book.spend \in Nat /\ book.income \in Nat
  BY <1>1 DEF YearBook
<1> HIDE DEF magi, care
<1>7. offset \in 0 .. hsa
  BY <1>1, <1>3, <1>5, <1>6, HsaOffsetType
<1> HIDE DEF offset
<1>8. due \in Int
  BY <1>1, <1>3, <1>5, <1>6, <1>7
<1>9. Excess(due, book.income) \in Nat
  <2> HIDE DEF due
  <2> QED
    BY <1>6, <1>8 DEF Excess
<1>10. State(a) = [magi |-> magi, tax |-> FederalTax(a.inputs), healthcare |-> care,
                   next |-> Excess(due, book.income)]
  BY Zenon DEF State, magi, care, offset, due
<1> QED
  BY <1>3, <1>5, <1>9, <1>10 DEF States

LEMMA DampedType ==
  ASSUME NEW needed \in Nat, NEW next \in Nat, NEW flips, NEW stable,
         NEW n \in Damped(needed, next, flips, stable)
  PROVE  n \in Nat
<1> DEFINE d == next - needed
           part == IF flips >= 1 THEN (3 * d) \div 10 ELSE d \div 2
<1>1. d \in Int /\ d >= 0 - needed
  OBVIOUS
<1>2. /\ (3 * d) \div 10 \in Int /\ (3 * d) \div 10 >= 0 - needed
      /\ d \div 2 \in Int /\ d \div 2 >= 0 - needed
  <2> HIDE DEF d
  <2> QED
    BY <1>1
<1>3. part \in Int /\ needed + part >= 0
  <2> HIDE DEF d
  <2>1. part = (3 * d) \div 10 \/ part = d \div 2
    OBVIOUS
  <2> HIDE DEF part
  <2> QED
    BY <1>2, <2>1
<1>4. n = next \/ n = needed + part \/ n = needed + part + 1
  BY DEF Damped
<1> HIDE DEF part
<1> QED
  BY <1>3, <1>4

LEMMA ClosedLoopPassKeeps == ASSUME IInv, ClosedLoopPass PROVE IInv'
<1>1. /\ TypeOK /\ HistoryInv /\ phase = "loop" /\ bal \in Balance /\ book \in YearBook
      /\ loop \in LoopState /\ BeforeWithdrawal /\ book.converted = 0
      /\ book.given.inputs.ira = 0
  BY DEF IInv, TypeOK, YearInv, ClosedLoopPass
<1>2. loop.needed \in Nat /\ loop.pass \in Nat /\ loop.flips \in Nat /\ loop.sign \in {-1, 0, 1}
      /\ loop.stable \in BOOLEAN
  BY <1>1 DEF LoopState
<1>3. book.given \in Given
  BY <1>1 DEF YearBook
<1>4. YearGiven(book.given)
  BY <1>3, GivenYear
<1>5. PICK a \in WithdrawForNeed(bal, loop.needed, book.given) :
        /\ att' = a
        /\ \/ phase' = "convert" /\ loop' = IdleLoop
           \/ /\ phase' = "loop"
              /\ \E stable \in BOOLEAN, flips \in Nat, sign \in {-1, 0, 1} :
                   \E n \in Damped(loop.needed, State(a).next, flips, stable) :
                     loop' = [ pass |-> loop.pass + 1, needed |-> n, last |-> State(a),
                               stable |-> stable, flips |-> flips, sign |-> sign ]
  <2>1. PICK a \in WithdrawForNeed(bal, loop.needed, book.given) :
          LET s      == State(a)
              again  == loop.last # NoState
              stable == IF again THEN SameBill(s, loop.last) ELSE loop.stable
              sign   == Sign(s.next - loop.needed)
              flips  == loop.flips + IF loop.sign # 0 /\ sign # 0 /\ sign # loop.sign THEN 1 ELSE 0
              done   == \/ again /\ s.next = loop.needed
                        \/ loop.pass + 1 = MaxPasses
                        \/ flips >= 2
          IN  /\ att' = a
              /\ IF done
                   THEN phase' = "convert" /\ loop' = IdleLoop
                   ELSE /\ phase' = "loop"
                        /\ \E n \in Damped(loop.needed, s.next, flips, stable) :
                             loop' = [ pass |-> loop.pass + 1, needed |-> n, last |-> s, stable |-> stable,
                                       flips |-> flips, sign |-> IF sign # 0 THEN sign ELSE loop.sign ]
    BY Zenon DEF ClosedLoopPass
  <2> DEFINE s      == State(a)
             again  == loop.last # NoState
             stable == IF again THEN SameBill(s, loop.last) ELSE loop.stable
             sign   == Sign(s.next - loop.needed)
             flips  == loop.flips + IF loop.sign # 0 /\ sign # 0 /\ sign # loop.sign THEN 1 ELSE 0
  <2>2. stable \in BOOLEAN
    BY <1>2, Zenon DEF SameBill
  <2>3. sign \in {-1, 0, 1}
    BY DEF Sign
  <2>4. (IF sign # 0 THEN sign ELSE loop.sign) \in {-1, 0, 1}
    BY <1>2, <2>3
  <2> HIDE DEF sign
  <2>5. flips \in Nat
    BY <1>2
  <2> HIDE DEF s, stable, flips
  <2> QED
    BY <2>1, <2>2, <2>4, <2>5, Zenon DEF s, stable, flips, sign
<1>6. /\ a \in Attempt /\ Held(a) = Total(bal)
      /\ a.bal["roth"] + a.wd["roth"] = bal["roth"]
      /\ a.inputs.ordinary = book.given.inputs.ordinary
      /\ a.inputs.benefits = book.given.inputs.benefits
      /\ a.inputs.ira = book.given.inputs.ira + a.wd["pretax"]
      /\ a.inputs.ltcg = book.given.inputs.ltcg + a.wd["taxable"]
      /\ a.wd["pretax"] >= book.given.rmd \/ a.bal["pretax"] = 0
  BY <1>1, <1>2, <1>4, WithdrawForNeedKeeps
<1>7. /\ year' = year /\ strategy' = strategy /\ bal' = bal /\ hsa' = hsa /\ cut' = cut
      /\ prices' = prices /\ history' = history /\ failed' = failed /\ book' = book
  BY Zenon DEF ClosedLoopPass
<1>8. a.wd["pretax"] \in Nat /\ a.bal["pretax"] \in Nat /\ bal["roth"] \in Nat
  BY <1>1, <1>6 DEF Attempt, Balance, Bucket
<1>9. loop' \in LoopState
  <2>1. IdleLoop \in LoopState
    BY DEF IdleLoop, LoopState, NoState
  <2>2. State(a) \in States
    BY <1>1, <1>6, StateType
  <2>3. State(a).next \in Nat
    BY <2>2 DEF States
  <2>4. ASSUME NEW stable \in BOOLEAN, NEW flips \in Nat, NEW sign \in {-1, 0, 1},
               NEW n \in Damped(loop.needed, State(a).next, flips, stable),
               loop' = [ pass |-> loop.pass + 1, needed |-> n, last |-> State(a),
                         stable |-> stable, flips |-> flips, sign |-> sign ]
        PROVE  loop' \in LoopState
    <3>1. n \in Nat
      BY <1>2, <2>3, <2>4, DampedType
    <3> QED
      BY <1>2, <2>2, <2>4, <3>1 DEF LoopState
  <2> QED
    BY <1>5, <2>1, <2>4
<1>10. phase' \in {"loop", "convert"}
  BY <1>5
<1>11. TypeOK'
  BY <1>1, <1>5, <1>6, <1>7, <1>9, <1>10, Zenon DEF TypeOK
<1>12. HistoryInv'
  BY <1>1, <1>7, <1>10, Zenon DEF HistoryInv
<1>13. att' = a
  BY <1>5
<1>14. BeforeWithdrawal'
  BY <1>1, <1>7 DEF BeforeWithdrawal, Brought, RothBrought
<1>15. Attempted'
  BY <1>1, <1>6, <1>7, <1>8, <1>13 DEF Attempted
<1>16. Reported'
  BY <1>1, <1>6, <1>7, <1>8, <1>13 DEF Reported
<1>17. Distributed'
  BY <1>1, <1>6, <1>7, <1>8, <1>13 DEF Distributed
<1>18. YearInv'
  BY <1>1, <1>7, <1>10, <1>14, <1>15, <1>16, <1>17 DEF YearInv
<1> QED
  BY <1>11, <1>12, <1>18 DEF IInv

LEMMA ConvertKeeps == ASSUME IInv, Convert PROVE IInv'
<1>1. /\ TypeOK /\ HistoryInv /\ phase = "convert" /\ bal \in Balance /\ book \in YearBook
      /\ att \in Attempt /\ BeforeWithdrawal /\ Attempted /\ Reported /\ Distributed
      /\ book.converted = 0 /\ book.given.inputs.ira = 0
  BY DEF IInv, TypeOK, YearInv, Convert
<1>2. PICK cap \in ConversionCaps, fillOpen \in BOOLEAN :
        \E n \in Conversions(att, Lesser(cap, att.bal["pretax"]), fillOpen, book.given) :
          att' = Converted(att, n) /\ book' = [book EXCEPT !.converted = n]
  BY Zenon DEF Convert
<1>3. PICK n \in Conversions(att, Lesser(cap, att.bal["pretax"]), fillOpen, book.given) :
        att' = Converted(att, n) /\ book' = [book EXCEPT !.converted = n]
  BY <1>2
<1>4. /\ att.bal["pretax"] \in Nat /\ att.wd["pretax"] \in Nat /\ att.bal["roth"] \in Nat
      /\ att.wd["roth"] \in Nat
  BY <1>1 DEF Attempt, Balance, Bucket
<1>5. n \in Nat /\ n <= att.bal["pretax"]
  <2>1. cap \in Nat
    BY YearAssumption
  <2>2. /\ Lesser(cap, att.bal["pretax"]) \in Nat
        /\ Lesser(cap, att.bal["pretax"]) <= att.bal["pretax"]
    BY <1>4, <2>1, LesserType
  <2>3. n \in Nat /\ n <= Lesser(cap, att.bal["pretax"])
    BY <1>1, <2>2, ConversionsType
  <2> QED
    BY <1>4, <2>2, <2>3
<1>6. /\ att' \in Attempt /\ Held(att') = Held(att) /\ att'.wd = att.wd
      /\ att'.bal["roth"] = att.bal["roth"] + n
      /\ att'.bal["pretax"] = att.bal["pretax"] - n
      /\ att'.inputs.ordinary = att.inputs.ordinary
      /\ att'.inputs.benefits = att.inputs.benefits
      /\ att'.inputs.ltcg = att.inputs.ltcg
      /\ att'.inputs.ira = att.inputs.ira + n
  BY <1>1, <1>3, <1>5, ConvertedKeeps
<1>7. /\ book' \in YearBook /\ book'.converted = n /\ book'.given = book.given
      /\ book'.income = book.income /\ book'.offset = book.offset
      /\ book'.opening = book.opening /\ book'.openingRoth = book.openingRoth
      /\ book'.earned = book.earned /\ book'.matched = book.matched
      /\ book'.rothIn = book.rothIn /\ book'.gain = book.gain /\ book'.rothGain = book.rothGain
      /\ book'.windfall = book.windfall
  BY <1>1, <1>3, <1>5 DEF YearBook
<1>8. /\ phase' = "medical" /\ year' = year /\ strategy' = strategy /\ bal' = bal /\ hsa' = hsa
      /\ cut' = cut /\ prices' = prices /\ history' = history /\ failed' = failed /\ loop' = loop
  BY Zenon DEF Convert
<1>9. TypeOK'
  BY <1>1, <1>6, <1>7, <1>8, Zenon DEF TypeOK
<1>10. HistoryInv'
  BY <1>1, <1>8, Zenon DEF HistoryInv
<1>11. BeforeWithdrawal'
  BY <1>1, <1>7, <1>8 DEF BeforeWithdrawal, Brought, RothBrought
<1>12. Attempted'
  <2>1. bal["roth"] \in Nat
    BY <1>1 DEF Balance, Bucket
  <2> QED
    BY <1>1, <1>4, <1>5, <1>6, <1>7, <1>8, <2>1 DEF Attempted
<1>13. Reported'
  BY <1>1, <1>4, <1>5, <1>6, <1>7 DEF Reported
<1>14. Distributed'
  BY <1>1, <1>4, <1>5, <1>6, <1>7 DEF Distributed
<1>15. YearInv'
  BY <1>1, <1>7, <1>8, <1>11, <1>12, <1>13, <1>14 DEF YearInv
<1> QED
  BY <1>9, <1>10, <1>15 DEF IInv

LEMMA PayFromHsaKeeps == ASSUME IInv, PayFromHsa PROVE IInv'
<1>1. /\ TypeOK /\ HistoryInv /\ phase = "medical" /\ bal \in Balance /\ book \in YearBook
      /\ att \in Attempt /\ hsa \in Nat /\ year \in 1 .. Horizon /\ history \in Seq(Nat)
      /\ BeforeWithdrawal /\ Attempted /\ Reported /\ Distributed
      /\ book.given.inputs.ira = 0
  BY DEF IInv, TypeOK, YearInv, PayFromHsa
<1> DEFINE bill == Bill(att.inputs)
           offset == HsaOffset(strategy.hsaMode, hsa, bill.magi, bill.healthcare, book.care)
<1>2. bill \in Bills
  BY <1>1, BillType DEF Attempt
<1>3. bill.magi \in Nat /\ bill.healthcare \in Nat
  BY <1>2 DEF Bills
<1>4. book.care \in Nat /\ book.income \in Nat
  BY <1>1 DEF YearBook
<1> HIDE DEF bill
<1>5. offset \in 0 .. hsa
  BY <1>1, <1>3, <1>4, HsaOffsetType
<1>6. /\ hsa' = hsa - offset /\ book' = [book EXCEPT !.offset = offset, !.bill = bill]
      /\ bal' = att.bal /\ phase' = "fund" /\ year' = year /\ strategy' = strategy
      /\ cut' = cut /\ prices' = prices /\ history' = history /\ failed' = failed
      /\ loop' = loop /\ att' = att
  BY Zenon DEF PayFromHsa, bill
<1> HIDE DEF offset
<1>7. /\ book'.offset = offset /\ book'.bill = bill
      /\ book'.converted = book.converted /\ book'.given = book.given
      /\ book'.income = book.income
      /\ book'.opening = book.opening /\ book'.openingRoth = book.openingRoth
      /\ book'.earned = book.earned /\ book'.matched = book.matched
      /\ book'.rothIn = book.rothIn /\ book'.gain = book.gain /\ book'.rothGain = book.rothGain
      /\ book'.windfall = book.windfall
  BY <1>1, <1>6, Zenon DEF YearBook
<1>8. book' \in YearBook
  <2>1. offset \in Nat
    BY <1>1, <1>5
  <2> QED
    BY <1>1, <1>2, <1>6, <2>1, Zenon DEF YearBook
<1>9. bal' \in Balance /\ hsa' \in Nat
  BY <1>1, <1>5, <1>6 DEF Attempt
<1>10. TypeOK'
  BY <1>1, <1>6, <1>8, <1>9, Zenon DEF TypeOK
<1>11. HistoryInv'
  BY <1>1, <1>6, Zenon DEF HistoryInv
<1>12. Withdrawn'
  <2>1. Total(bal) \in Nat /\ bal["roth"] \in Nat
    BY <1>1, TotalType DEF Balance, Bucket
  <2>2. Brought' = Brought /\ RothBrought' = RothBrought
    BY <1>7 DEF Brought, RothBrought
  <2>3. Held(att') + hsa' + book'.offset + book'.income = Brought
    BY <1>1, <1>4, <1>5, <1>6, <1>7, <2>1 DEF BeforeWithdrawal, Attempted
  <2>4. bal'["roth"] + att'.wd["roth"] = RothBrought + book'.converted
    BY <1>1, <1>6, <1>7 DEF BeforeWithdrawal, Attempted
  <2> QED
    BY <1>6, <2>2, <2>3, <2>4 DEF Withdrawn
<1>13. Reported' /\ Distributed'
  BY <1>1, <1>6, <1>7 DEF Reported, Distributed
<1>14. Bill(att.inputs)' = Bill(att.inputs)
  BY <1>6 DEF Bill, This, IrmaaMagi
<1>15. book'.bill = Bill(att.inputs)'
  BY <1>7, <1>14 DEF bill
<1>16. YearInv'
  BY <1>1, <1>6, <1>7, <1>12, <1>13, <1>15 DEF YearInv
<1> QED
  BY <1>10, <1>11, <1>16 DEF IInv

LEMMA FundGapKeeps == ASSUME IInv, FundGap PROVE IInv'
<1>1. /\ TypeOK /\ HistoryInv /\ phase = "fund" /\ bal \in Balance /\ book \in YearBook
      /\ att \in Attempt /\ hsa \in Nat /\ year \in 1 .. Horizon /\ history \in Seq(Nat)
      /\ Withdrawn /\ Reported /\ Distributed /\ book.given.inputs.ira = 0
  BY DEF IInv, TypeOK, YearInv, FundGap
<1> DEFINE needing == [att EXCEPT !.left = Gap]
           a == FundingPass(needing)
<1>2. needing \in Attempt
  <2>1. /\ book.spend \in Nat /\ book.bill.healthcare \in Nat /\ book.care \in Nat
        /\ book.offset \in Nat /\ book.bill.tax \in Nat /\ book.income \in Nat
    BY <1>1 DEF YearBook, Bills
  <2>2. Total(att.wd) \in Nat /\ att.rmdCash \in Nat
    BY <1>1, TotalType DEF Attempt
  <2>3. Gap \in Nat
    BY <2>1, <2>2 DEF Gap, Excess, Outflow, Applied
  <2> QED
    BY <1>1, <2>3 DEF Attempt
<1>3. /\ needing.bal = att.bal /\ needing.wd = att.wd /\ needing.rmdCash = att.rmdCash
      /\ needing.inputs = att.inputs
  BY <1>1 DEF Attempt
<1>4. Held(needing) = Held(att)
  BY <1>3 DEF Held
<1> HIDE DEF needing
<1>5. a \in Attempt /\ Continues(needing, a)
  BY <1>2, FundingPassKeeps
<1>6. /\ bal' = a.bal /\ att' = a
      /\ book' = [book EXCEPT !.bill = Bill(a.inputs), !.funded = @ + 1]
      /\ phase' = phase /\ year' = year /\ strategy' = strategy /\ hsa' = hsa
      /\ cut' = cut /\ prices' = prices /\ history' = history /\ failed' = failed
      /\ loop' = loop
  BY Zenon DEF FundGap, RefreshedBill, needing
<1> HIDE DEF a
<1>7. Bill(a.inputs) \in Bills
  BY <1>1, <1>5, BillType DEF Attempt
<1>8. /\ book'.bill = Bill(a.inputs) /\ book'.offset = book.offset
      /\ book'.converted = book.converted /\ book'.given = book.given
      /\ book'.income = book.income
      /\ book'.opening = book.opening /\ book'.openingRoth = book.openingRoth
      /\ book'.earned = book.earned /\ book'.matched = book.matched
      /\ book'.rothIn = book.rothIn /\ book'.gain = book.gain /\ book'.rothGain = book.rothGain
      /\ book'.windfall = book.windfall
  BY <1>1, <1>6, Zenon DEF YearBook
<1>9. book' \in YearBook
  <2>1. book.funded + 1 \in Nat
    BY <1>1 DEF YearBook
  <2> QED
    BY <1>1, <1>6, <1>7, <2>1, Zenon DEF YearBook
<1>10. bal' \in Balance
  BY <1>5, <1>6 DEF Attempt
<1>11. TypeOK'
  BY <1>1, <1>5, <1>6, <1>9, <1>10, Zenon DEF TypeOK
<1>12. HistoryInv'
  BY <1>1, <1>6, Zenon DEF HistoryInv
<1>13. /\ a.wd["pretax"] \in Nat /\ a.wd["taxable"] \in Nat /\ a.bal["pretax"] \in Nat
       /\ a.inputs.ira \in Nat /\ a.inputs.ltcg \in Nat
       /\ att.wd["pretax"] \in Nat /\ att.wd["taxable"] \in Nat /\ att.bal["pretax"] \in Nat
       /\ att.inputs.ira \in Nat /\ att.inputs.ltcg \in Nat
  BY <1>1, <1>5 DEF Attempt, Balance, Bucket, TaxInputs
<1>14. /\ book.converted \in Nat /\ book.given.rmd \in Nat /\ book.given.inputs.ltcg \in Nat
  BY <1>1 DEF YearBook, Given, TaxInputs
<1>15. Withdrawn'
  <2>1. Brought' = Brought /\ RothBrought' = RothBrought
    BY <1>8 DEF Brought, RothBrought
  <2>2. Held(att') = Held(att)
    BY <1>4, <1>5, <1>6 DEF Continues
  <2>3. Held(att') + hsa' + book'.offset + book'.income = Brought
    BY <1>1, <1>6, <1>8, <2>2 DEF Withdrawn
  <2>4. att'.bal["roth"] + att'.wd["roth"] = att.bal["roth"] + att.wd["roth"]
    BY <1>3, <1>5, <1>6 DEF Continues
  <2>5. bal'["roth"] + att'.wd["roth"] = RothBrought + book'.converted
    BY <1>1, <1>6, <1>8, <2>4 DEF Withdrawn
  <2> QED
    BY <1>6, <2>1, <2>3, <2>5 DEF Withdrawn
<1>16. Reported'
  <2>1. /\ a.inputs.ordinary = att.inputs.ordinary
        /\ a.inputs.benefits = att.inputs.benefits
        /\ a.inputs.ira - a.wd["pretax"] = att.inputs.ira - att.wd["pretax"]
        /\ a.inputs.ltcg - a.wd["taxable"] = att.inputs.ltcg - att.wd["taxable"]
    BY <1>3, <1>5 DEF Continues
  <2>2. /\ att.inputs.ordinary = book.given.inputs.ordinary
        /\ att.inputs.benefits = book.given.inputs.benefits
        /\ att.inputs.ira = att.wd["pretax"] + book.converted
        /\ att.inputs.ltcg = book.given.inputs.ltcg + att.wd["taxable"]
    BY <1>1 DEF Reported
  <2>3. /\ a.inputs.ira = a.wd["pretax"] + book.converted
        /\ a.inputs.ltcg = book.given.inputs.ltcg + a.wd["taxable"]
    BY <1>13, <1>14, <2>1, <2>2
  <2> QED
    BY <1>6, <1>8, <2>1, <2>2, <2>3 DEF Reported
<1>17. Distributed'
  <2>1. a.wd["pretax"] >= att.wd["pretax"] /\ a.bal["pretax"] <= att.bal["pretax"]
    BY <1>3, <1>5 DEF Continues
  <2>2. att.wd["pretax"] >= book.given.rmd \/ att.bal["pretax"] + book.converted = 0
    BY <1>1 DEF Distributed
  <2>3. a.wd["pretax"] >= book.given.rmd \/ a.bal["pretax"] + book.converted = 0
    BY <1>13, <1>14, <2>1, <2>2
  <2> QED
    BY <1>6, <1>8, <2>3 DEF Distributed
<1>18. Bill(att.inputs)' = Bill(a.inputs)
  BY <1>6 DEF Bill, This, IrmaaMagi
<1>19. YearInv'
  BY <1>1, <1>6, <1>8, <1>15, <1>16, <1>17, <1>18 DEF YearInv
<1> QED
  BY <1>11, <1>12, <1>19 DEF IInv

LEMMA CloseYearKeeps == ASSUME IInv, CloseYear PROVE IInv'
<1>1. /\ TypeOK /\ HistoryInv /\ phase = "fund" /\ bal \in Balance /\ book \in YearBook
      /\ att \in Attempt /\ hsa \in Nat /\ year \in 1 .. Horizon /\ history \in Seq(Nat)
      /\ Withdrawn /\ Reported /\ Distributed /\ book.given.inputs.ira = 0
      /\ book.bill = Bill(att.inputs)
  BY DEF IInv, TypeOK, YearInv, CloseYear
<1>2. /\ book.spend \in Nat /\ book.bill.healthcare \in Nat /\ book.care \in Nat
      /\ book.offset \in Nat /\ book.bill.tax \in Nat /\ book.income \in Nat
      /\ book.bill.magi \in Nat /\ book.converted \in Nat /\ book.given.rmd \in Nat
      /\ book.opening \in Nat /\ book.earned \in Nat /\ book.matched \in Nat
      /\ book.rothIn \in Nat /\ book.gain \in Int /\ book.windfall \in Nat
      /\ book.openingRoth \in Nat /\ book.rothGain \in Int
  BY <1>1 DEF YearBook, Bills, Given
<1>3. Total(att.wd) \in Nat /\ att.rmdCash \in Nat /\ Total(bal) \in Nat
  BY <1>1, TotalType DEF Attempt
<1>4. /\ Applied \in Int /\ Outflow \in Int /\ Gap \in Nat /\ Surplus \in Nat
      /\ Surplus - Gap = book.income + Applied - Outflow
  BY <1>2, <1>3 DEF Applied, Outflow, Gap, Surplus, Excess
<1>5. /\ bal' = [bal EXCEPT !["cash"] = @ + Surplus] /\ history' = Append(history, book.bill.magi)
      /\ book' = [book EXCEPT !.gap = Gap] /\ phase' = "closed"
      /\ failed' = (IF Gap > 0 \/ Total(bal) + Surplus + hsa = 0 THEN year ELSE 0)
      /\ year' = year /\ strategy' = strategy /\ hsa' = hsa /\ cut' = cut /\ prices' = prices
      /\ loop' = loop /\ att' = att
  BY Zenon DEF CloseYear
<1>6. /\ book'.gap = Gap /\ book'.bill = book.bill /\ book'.offset = book.offset
      /\ book'.converted = book.converted /\ book'.given = book.given
      /\ book'.income = book.income /\ book'.spend = book.spend /\ book'.care = book.care
      /\ book'.opening = book.opening /\ book'.openingRoth = book.openingRoth
      /\ book'.earned = book.earned /\ book'.matched = book.matched
      /\ book'.rothIn = book.rothIn /\ book'.gain = book.gain /\ book'.rothGain = book.rothGain
      /\ book'.windfall = book.windfall /\ book' \in YearBook
  BY <1>1, <1>4, <1>5 DEF YearBook
<1>7. /\ bal' \in Balance /\ Total(bal') = Total(bal) + Surplus
      /\ bal'["roth"] = bal["roth"] /\ bal'["pretax"] = bal["pretax"]
      /\ bal["roth"] \in Nat /\ bal["pretax"] \in Nat
  <2>1. /\ bal["cash"] \in Nat /\ bal["taxable"] \in Nat /\ bal["pretax"] \in Nat /\ bal["roth"] \in Nat
    BY <1>1 DEF Balance, Bucket
  <2>2. bal' \in Balance
    BY <1>1, <1>4, <1>5, <2>1 DEF Balance, Bucket
  <2>3. /\ bal'["cash"] = bal["cash"] + Surplus /\ bal'["taxable"] = bal["taxable"]
        /\ bal'["pretax"] = bal["pretax"] /\ bal'["roth"] = bal["roth"]
    BY <1>1, <1>5 DEF Balance, Bucket
  <2> QED
    BY <1>4, <2>1, <2>2, <2>3 DEF Total
<1>8. /\ history' \in Seq(Nat) /\ Len(history') = year
      /\ \A i \in 1 .. Len(history) : history'[i] = history[i]
      /\ Len(history) = year - 1
  <2>1. Len(history) = year - 1
    <3>1. Len(history) = IF phase = "closed" THEN year ELSE year - 1
      BY <1>1 DEF HistoryInv
    <3> QED
      BY <1>1, <3>1
  <2>2. /\ history' \in Seq(Nat) /\ Len(history') = Len(history) + 1
        /\ \A i \in 1 .. Len(history) : history'[i] = history[i]
    BY <1>1, <1>2, <1>5
  <2> QED
    BY <1>1, <2>1, <2>2
<1>9. TypeOK'
  <2>1. failed' \in 0 .. Horizon
    BY <1>1, <1>5, YearConstants
  <2> QED
    BY <1>1, <1>5, <1>6, <1>7, <1>8, <2>1, Zenon DEF TypeOK
<1>10. HistoryInv'
  BY <1>5, <1>8 DEF HistoryInv
<1>11. Bill(att.inputs)' = Bill(att.inputs)
  <2>1. \A magi : IrmaaMagi(magi)' = IrmaaMagi(magi)
    <3>1. (year - LookBack \in DOMAIN history') <=> (year - LookBack \in DOMAIN history)
      BY <1>1, <1>8, YearConstants
    <3>2. year - LookBack \in DOMAIN history => history'[year - LookBack] = history[year - LookBack]
      BY <1>1, <1>8
    <3> QED
      BY <1>5, <3>1, <3>2, Zenon DEF IrmaaMagi
  <2> QED
    BY <1>5, <2>1, Zenon DEF Bill, This
<1>12. Total(bal') + hsa' = Explained' + book'.rothIn + book'.windfall
  <2>1. Held(att) + hsa + book.offset + book.income = Brought /\ att.bal = bal
    BY <1>1 DEF Withdrawn
  <2>2. Explained' = book.opening + book.earned + book.matched + book.gain + book.windfall
          - (book.spend + book.bill.healthcare + book.care + book.bill.tax) + Gap
    BY <1>6 DEF Explained
  <2>3. Surplus - Gap = book.income + (Total(att.wd) - att.rmdCash)
          - (book.spend + book.bill.healthcare + book.care - book.offset + book.bill.tax)
    BY <1>4 DEF Applied, Outflow
  <2>4. Total(bal') + hsa' = Total(bal) + Surplus + hsa
    BY <1>5, <1>7
  <2>5. hsa \in Nat
    BY <1>1
  <2> DEFINE taken == Total(att.wd) - att.rmdCash
             charged == book.spend + book.bill.healthcare + book.care + book.bill.tax
             brought == book.opening + book.earned + book.matched + book.gain
  <2>6. taken \in Int /\ charged \in Int /\ brought \in Int
    BY <1>2, <1>3, Z3
  <2>7. Total(bal) + hsa = brought + book.rothIn + 2 * book.windfall
                             - taken - book.offset - book.income
    <3>1. Held(att) = Total(bal) + taken
      BY <1>3, <2>1 DEF Held
    <3>2. Brought = brought + book.rothIn + 2 * book.windfall
      BY <1>2, Z3 DEF Brought
    <3>3. /\ Total(bal) \in Int /\ book.offset \in Int /\ book.income \in Int
          /\ book.rothIn \in Int /\ 2 * book.windfall \in Int /\ hsa \in Int
      BY <1>2, <1>3, <2>5
    <3> HIDE DEF taken, brought
    <3>4. Held(att) + hsa + book.offset + book.income = brought + book.rothIn + 2 * book.windfall
      BY <2>1, <3>2
    <3>5. Total(bal) + taken + hsa + book.offset + book.income
            = brought + book.rothIn + 2 * book.windfall
      BY <3>1, <3>4
    <3>6. PICK t \in Int, k \in Int, b \in Int : t = Total(bal) /\ k = taken /\ b = brought
      BY <2>6, <3>3
    <3>7. PICK h \in Int, f \in Int, i \in Int : h = hsa /\ f = book.offset /\ i = book.income
      BY <3>3
    <3>8. PICK r \in Int, w \in Int : r = book.rothIn /\ w = 2 * book.windfall
      BY <3>3
    <3>9. t + k + h + f + i = b + r + w
      BY <3>5, <3>6, <3>7, <3>8
    <3>10. t + h = b + r + w - k - f - i
      BY <3>9
    <3> QED
      BY <3>6, <3>7, <3>8, <3>10
  <2>8. Surplus = Gap + book.income + taken - charged + book.offset
    BY <1>2, <1>3, <1>4, <2>3, Z3
  <2>9. Explained' = brought + book.windfall - charged + Gap
    BY <2>2
  <2> HIDE DEF taken, charged, brought
  <2>10. book'.rothIn = book.rothIn /\ book'.windfall = book.windfall
    BY <1>6
  <2>11. Total(bal) + Surplus + hsa
           = brought + book.windfall - charged + Gap + book.rothIn + book.windfall
    BY <1>2, <1>3, <1>4, <2>5, <2>6, <2>7, <2>8, Z3
  <2> QED
    BY <2>4, <2>9, <2>10, <2>11
<1>13. RothReconciles'
  <2>1. att.wd["roth"] \in Nat
    BY <1>1 DEF Attempt, Balance, Bucket
  <2>2. bal["roth"] + att.wd["roth"] = book.openingRoth + book.rothIn + book.rothGain + book.converted
    BY <1>1 DEF Withdrawn, RothBrought
  <2>3. bal["roth"] = book.openingRoth + book.rothIn + book.rothGain - att.wd["roth"] + book.converted
    BY <1>2, <1>7, <2>1, <2>2, Z3
  <2>4. /\ bal'["roth"] = bal["roth"] /\ att'.wd["roth"] = att.wd["roth"]
        /\ book'.openingRoth = book.openingRoth /\ book'.rothIn = book.rothIn
        /\ book'.rothGain = book.rothGain /\ book'.converted = book.converted
    BY <1>5, <1>6, <1>7
  <2> QED
    BY <2>3, <2>4 DEF RothReconciles
<1>14. RmdIsTaken'
  BY <1>1, <1>5, <1>6, <1>7 DEF RmdIsTaken, Distributed, Withdrawn
<1>15. Reported'
  BY <1>1, <1>5, <1>6 DEF Reported
<1>16. YearInv'
  BY <1>1, <1>5, <1>6, <1>11, <1>12, <1>13, <1>14, <1>15 DEF YearInv
<1> QED
  BY <1>9, <1>10, <1>16 DEF IInv

LEMMA NextYearKeeps == ASSUME IInv, NextYear PROVE IInv'
<1>1. /\ TypeOK /\ HistoryInv /\ phase = "closed" /\ year < Horizon
  BY DEF IInv, NextYear
<1>2. /\ year' = year + 1 /\ phase' = "open" /\ book' = NoBook /\ att' = Start(bal, 0, NoInputs)
      /\ strategy' = strategy /\ bal' = bal /\ hsa' = hsa /\ cut' = cut /\ history' = history
      /\ failed' = failed /\ loop' = loop
      /\ \E i \in Inflations : prices' = prices + i
  BY Zenon DEF NextYear
<1>3. prices' \in Nat
  BY <1>1, <1>2, YearAssumption DEF TypeOK
<1>4. year' \in 1 .. Horizon /\ year \in Nat
  BY <1>1, <1>2, YearConstants DEF TypeOK
<1>5. NoInputs \in TaxInputs
  BY DEF NoInputs, TaxInputs
<1>6. att' \in Attempt
  BY <1>1, <1>2, <1>5, StartType DEF TypeOK
<1>7. TypeOK'
  BY <1>1, <1>2, <1>3, <1>4, <1>6, Zenon DEF TypeOK
<1>8. HistoryInv'
  BY <1>1, <1>2, <1>4 DEF HistoryInv
<1>9. YearInv'
  BY <1>2, Zenon DEF YearInv
<1> QED
  BY <1>7, <1>8, <1>9 DEF IInv

LEMMA NextIInv == IInv /\ [Next]_yearVars => IInv'
<1> SUFFICES ASSUME IInv, [Next]_yearVars PROVE IInv'
  OBVIOUS
<1>1. CASE OpenYear
  BY <1>1, OpenYearKeeps
<1>2. CASE ClosedLoopPass
  BY <1>2, ClosedLoopPassKeeps
<1>3. CASE Convert
  BY <1>3, ConvertKeeps
<1>4. CASE PayFromHsa
  BY <1>4, PayFromHsaKeeps
<1>5. CASE FundGap
  BY <1>5, FundGapKeeps
<1>6. CASE CloseYear
  BY <1>6, CloseYearKeeps
<1>7. CASE NextYear
  BY <1>7, NextYearKeeps
<1>8. CASE UNCHANGED yearVars
  <2>1. /\ year' = year /\ phase' = phase /\ strategy' = strategy /\ bal' = bal /\ hsa' = hsa
        /\ cut' = cut /\ prices' = prices /\ history' = history /\ failed' = failed
        /\ book' = book /\ loop' = loop /\ att' = att
    BY <1>8 DEF yearVars
  <2>2. TypeOK'
    BY <2>1, Zenon DEF IInv, TypeOK
  <2>3. HistoryInv'
    BY <2>1, Zenon DEF IInv, HistoryInv
  <2>4. \A i : Bill(i)' = Bill(i)
    BY <2>1, Zenon DEF Bill, This, IrmaaMagi
  <2>5. YearInv'
    BY <2>1, <2>4, Zenon DEF IInv, YearInv, BeforeWithdrawal, Brought, RothBrought, Attempted,
      Reported, Distributed, Withdrawn, Explained, RothReconciles, RmdIsTaken, Closed
  <2> QED
    BY <2>2, <2>3, <2>5 DEF IInv
<1> QED
  BY <1>1, <1>2, <1>3, <1>4, <1>5, <1>6, <1>7, <1>8 DEF Next

LEMMA SpecIInv == Spec => []IInv
BY InitIInv, NextIInv, PTL DEF Spec
-----------------------------------------------------------------------------
(* Balances, withdrawals, bills and needs stay non-negative whole amounts  *)
(* through withdrawForNeed, the conversion and the extra funding passes.   *)
THEOREM TypeCorrect == Spec => []TypeOK
<1>1. IInv => TypeOK
  BY DEF IInv
<1> QED
  BY <1>1, SpecIInv, PTL

(* What the year of simulatePath really adds up to: what the household     *)
(* owns at the end exceeds what its accounts explain by the windfall,      *)
(* which is credited both as cash and as income, and by the Roth deferral, *)
(* which the wages never lose.                                             *)
Accounted == Closed => Total(bal) + hsa = Explained + book.rothIn + book.windfall

THEOREM EveryYearIsAccounted == Spec => []Accounted
<1>1. IInv => Accounted
  BY DEF IInv, YearInv, Accounted, Closed
<1> QED
  BY <1>1, SpecIInv, PTL

(* In a year without windfall and Roth deferral money is neither created   *)
(* nor lost.                                                               *)
THEOREM MoneyIsConserved == Spec => []MoneyConserved
<1>1. IInv => MoneyConserved
  <2> SUFFICES ASSUME IInv, Closed, book.windfall = 0, book.rothIn = 0
               PROVE  Total(bal) + hsa = Explained
    BY DEF MoneyConserved
  <2>1. Total(bal) + hsa = Explained + 0 + 0
    BY DEF IInv, YearInv, Closed
  <2>2. Explained \in Int
    <3>1. book \in YearBook
      BY DEF IInv, TypeOK, Closed
    <3> QED
      BY <3>1, Z3 DEF Explained, YearBook, Bills
  <2> QED
    BY <2>1, <2>2
<1> QED
  BY <1>1, SpecIInv, PTL

(* The Roth balance of a closed year reconciles.                           *)
THEOREM RothIsReconciled == Spec => []RothReconciles
<1>1. IInv => RothReconciles
  BY DEF IInv, YearInv, RothReconciles, Closed
<1> QED
  BY <1>1, SpecIInv, PTL

(* The required distribution of every year is withdrawn.                   *)
THEOREM RmdIsAlwaysTaken == Spec => []RmdIsTaken
<1>1. IInv => RmdIsTaken
  BY DEF IInv, YearInv, RmdIsTaken, Closed
<1> QED
  BY <1>1, SpecIInv, PTL

(* The tax and premiums charged are those of what the year took out.       *)
THEOREM BillIsOfTheYear == Spec => []BillMatchesYear
<1>1. IInv => BillMatchesYear
  <2> SUFFICES ASSUME IInv, phase \in {"fund", "closed"}
               PROVE  book.bill = Bill([book.given.inputs EXCEPT
                                          !.ira = att.wd["pretax"] + book.converted,
                                          !.ltcg = @ + att.wd["taxable"]])
    BY DEF BillMatchesYear
  <2>1. /\ att \in Attempt /\ book \in YearBook /\ Reported /\ book.bill = Bill(att.inputs)
    BY DEF IInv, TypeOK, YearInv
  <2>2. att.inputs \in TaxInputs /\ book.given.inputs \in TaxInputs
    BY <2>1 DEF Attempt, YearBook, Given
  <2>3. att.inputs = [book.given.inputs EXCEPT !.ira = att.wd["pretax"] + book.converted,
                                               !.ltcg = @ + att.wd["taxable"]]
    BY <2>1, <2>2, Zenon DEF TaxInputs, Reported
  <2> QED
    BY <2>1, <2>3, Zenon
<1> QED
  BY <1>1, SpecIInv, PTL
-----------------------------------------------------------------------------
(* The funding passes converge. *)

(* Taxable benefits grow by no more than three quarters of the income that *)
(* makes them taxable, but for rounding.                                   *)
LEMMA BenefitsGrow ==
  ASSUME NEW b \in Nat, NEW x \in Nat, NEW y \in Nat, x <= y
  PROVE  /\ TaxableBenefits(b, x) <= TaxableBenefits(b, y)
         /\ 4 * (TaxableBenefits(b, y) - TaxableBenefits(b, x)) <= 3 * (y - x) + 4
<1>1. FirstBase \in Nat /\ SecondBase \in Nat /\ FirstBase <= SecondBase
  BY TablesType
<1>2. PICK F, S \in Nat : F = FirstBase /\ S = SecondBase /\ F <= S
  BY <1>1
<1>3. \A p \in Nat : TaxableBenefits(b, p) =
        IF p <= F THEN 0
        ELSE IF p <= S THEN Lesser(2 * b, (p - F) \div 2)
        ELSE Lesser(3 * b, Lesser(2 * b, (S - F) \div 2) + (3 * (p - S)) \div 4)
  BY <1>2 DEF TaxableBenefits
<1>4. CASE y <= F
  BY <1>2, <1>3, <1>4
<1>5. CASE x <= F /\ F < y /\ y <= S
  BY <1>2, <1>3, <1>5 DEF Lesser
<1>6. CASE x <= F /\ S < y
  BY <1>2, <1>3, <1>6 DEF Lesser
<1>7. CASE F < x /\ y <= S
  BY <1>2, <1>3, <1>7 DEF Lesser
<1>8. CASE F < x /\ x <= S /\ S < y
  BY <1>2, <1>3, <1>8 DEF Lesser
<1>9. CASE S < x
  BY <1>2, <1>3, <1>9 DEF Lesser
<1> QED
  BY <1>2, <1>4, <1>5, <1>6, <1>7, <1>8, <1>9

Taxed(i) == 4 * (i.ordinary + i.ira) + i.ltcg

(* MAGI and tax after n units more were taken out.                         *)
LEMMA MagiGrows ==
  ASSUME NEW i \in TaxInputs, NEW j \in TaxInputs, NEW n \in Nat,
         i.benefits = j.benefits, Taxed(i) <= Taxed(j), Taxed(j) <= Taxed(i) + 4 * n
  PROVE  Magi(i) <= Magi(j) /\ Magi(j) <= Magi(i) + 7 * n + 1
<1>1. PICK x, y, b \in Nat : x = Taxed(i) /\ y = Taxed(j) /\ b = i.benefits
  BY DEF TaxInputs, Taxed
<1>2. PICK p, q \in Int : p = TaxableBenefits(b, x + 2 * b) /\ q = TaxableBenefits(b, y + 2 * b)
  <2>1. \A z \in Nat : TaxableBenefits(b, z + 2 * b) \in Int
    <3> SUFFICES ASSUME NEW z \in Nat PROVE TaxableBenefits(b, z + 2 * b) \in Int
      OBVIOUS
    <3>1. FirstBase \in Nat /\ SecondBase \in Nat
      BY TablesType
    <3> QED
      BY <3>1, <1>1 DEF TaxableBenefits, Lesser
  <2> QED
    BY <1>1, <2>1
<1>3. p <= q /\ 4 * (q - p) <= 3 * ((y + 2 * b) - (x + 2 * b)) + 4
  <2>1. x + 2 * b \in Nat /\ y + 2 * b \in Nat /\ x + 2 * b <= y + 2 * b
    BY <1>1
  <2> QED
    BY <1>1, <1>2, <2>1, BenefitsGrow
<1>4. Magi(i) = x + p /\ Magi(j) = y + q
  BY <1>1, <1>2 DEF Magi, Taxed
<1>5. x <= y /\ y <= x + 4 * n
  BY <1>1
<1>6. x + p <= y + q /\ y + q <= x + p + 7 * n + 1
  BY ONLY <1>1, <1>2, <1>3, <1>5, n \in Nat, x \in Nat, y \in Nat, b \in Nat, p \in Int, q \in Int
<1> QED
  BY <1>4, <1>6

LEMMA DivisionGrows ==
  ASSUME NEW d \in Nat \ {0}, NEW m \in Nat, NEW k \in Nat, m <= k
  PROVE  m \div d <= k \div d /\ d * ((k \div d) - (m \div d)) <= (k - m) + d - 1
<1>1. PICK s, t, u, v \in Nat :
        s = m \div d /\ t = k \div d /\ u = m % d /\ v = k % d /\ u < d /\ v < d
  OBVIOUS
<1>2. m = d * s + u /\ k = d * t + v
  BY <1>1
<1>3. s <= t
  <2> SUFFICES ASSUME t < s PROVE FALSE
    BY <1>1
  <2>1. PICK r \in Nat : s = t + 1 + r
    <3>1. s - t - 1 \in Nat /\ s = t + 1 + (s - t - 1)
      BY <1>1
    <3> QED
      BY <3>1
  <2>2. d * s = d * t + d + d * r
    BY <1>1, <2>1
  <2>3. d * r \in Nat
    OBVIOUS
  <2>4. d * s \in Nat /\ d * t \in Nat
    BY <1>1
  <2> QED
    BY <1>1, <1>2, <2>2, <2>3, <2>4
<1>4. d * (t - s) = d * t - d * s /\ d * t \in Int /\ d * s \in Int
  BY <1>1
<1> QED
  BY <1>1, <1>2, <1>3, <1>4

LEMMA TaxGrows ==
  ASSUME NEW i \in TaxInputs, NEW j \in TaxInputs, NEW n \in Nat,
         i.benefits = j.benefits, Taxed(i) <= Taxed(j), Taxed(j) <= Taxed(i) + 4 * n
  PROVE  /\ FederalTax(i) <= FederalTax(j)
         /\ TaxDivisor * (FederalTax(j) - FederalTax(i)) <= 7 * n + TaxDivisor
<1>1. Magi(i) \in Nat /\ Magi(j) \in Nat /\ Deduction \in Nat /\ TaxDivisor \in Nat \ {0}
  BY MagiType, TablesType
<1>2. Magi(i) <= Magi(j) /\ Magi(j) <= Magi(i) + 7 * n + 1
  BY MagiGrows
<1>3. PICK m, k \in Nat : m = Excess(Magi(i), 4 * Deduction) /\ k = Excess(Magi(j), 4 * Deduction)
  BY <1>1 DEF Excess
<1>4. m <= k /\ k - m <= 7 * n + 1
  BY <1>1, <1>2, <1>3 DEF Excess
<1>5. PICK D \in Nat \ {0} : D = TaxDivisor
  BY <1>1
<1>6. FederalTax(i) = m \div D /\ FederalTax(j) = k \div D
  BY <1>3, <1>5 DEF FederalTax
<1>7. m \div D <= k \div D /\ D * ((k \div D) - (m \div D)) <= (k - m) + D - 1
  BY <1>4, DivisionGrows
<1>8. PICK s, t, g \in Int : s = m \div D /\ t = k \div D /\ g = D * (t - s)
  OBVIOUS
<1>9. s <= t /\ g <= 7 * n + D
  BY <1>3, <1>4, <1>5, <1>7, <1>8
<1> QED
  BY <1>5, <1>6, <1>8, <1>9

(* Premiums do not fall while MAGI grows.                                  *)
LEMMA PremiumsGrow ==
  ASSUME NEW cover \in Cover, NEW m \in Nat, NEW k \in Nat, m <= k,
         NEW p \in Nat, NEW q \in Nat, p <= q
  PROVE  Healthcare(cover, m, p) <= Healthcare(cover, k, q)
<1> DEFINE each(x) == IF x <= 4 * AcaCliff THEN AcaContribution ELSE AcaPremium
           part(x) == MedicarePremium + IF x > 4 * IrmaaThreshold THEN Surcharge ELSE 0
<1>1. /\ AcaContribution \in Nat /\ AcaPremium \in Nat /\ AcaContribution <= AcaPremium
      /\ MedicarePremium \in Nat /\ Surcharge \in Nat /\ AcaCliff \in Nat
      /\ IrmaaThreshold \in Nat
  BY WithdrawalAssumption
<1>2. PICK e, f, g, h \in Nat : e = each(m) /\ f = each(k) /\ g = part(p) /\ h = part(q)
  BY <1>1
<1>3. e <= f /\ g <= h
  BY <1>1, <1>2
<1>4. cover.uninsured \in Nat /\ cover.medicare \in Nat
  BY DEF Cover
<1>5. \A c, x, y \in Nat : x <= y => c * x <= c * y /\ c * x \in Nat /\ c * y \in Nat
  <2> SUFFICES ASSUME NEW c \in Nat, NEW x \in Nat, NEW y \in Nat, x <= y
               PROVE  c * x <= c * y /\ c * x \in Nat /\ c * y \in Nat
    OBVIOUS
  <2>1. PICK z \in Nat : y = x + z
    <3>1. y - x \in Nat /\ y = x + (y - x)
      OBVIOUS
    <3> QED
      BY <3>1
  <2>2. c * y = c * x + c * z
    BY <2>1
  <2>3. c * z \in Nat /\ c * x \in Nat /\ c * y \in Nat
    BY <2>1
  <2> QED
    BY <2>2, <2>3
<1>6. PICK r, s, t, u \in Nat :
        /\ r = cover.uninsured * e /\ s = cover.uninsured * f /\ r <= s
        /\ t = cover.medicare * g /\ u = cover.medicare * h /\ t <= u
  <2>1. /\ cover.uninsured * e \in Nat /\ cover.uninsured * f \in Nat
        /\ cover.uninsured * e <= cover.uninsured * f
    BY <1>3, <1>4, <1>5
  <2>2. /\ cover.medicare * g \in Nat /\ cover.medicare * h \in Nat
        /\ cover.medicare * g <= cover.medicare * h
    BY <1>3, <1>4, <1>5
  <2> QED
    BY <2>1, <2>2, Zenon
<1>7. Healthcare(cover, m, p) = (IF ~cover.retired THEN 0 ELSE r) + t
  BY <1>2, <1>6 DEF Healthcare
<1>8. Healthcare(cover, k, q) = (IF ~cover.retired THEN 0 ELSE s) + u
  BY <1>2, <1>6 DEF Healthcare
<1> QED
  BY <1>6, <1>7, <1>8

(* Attempt b is attempt a with what its need lost taken out, and reported. *)
Takes(a, b) ==
  /\ b.left <= a.left /\ Total(b.wd) + b.left = Total(a.wd) + a.left
  /\ b.rmdCash = a.rmdCash /\ b.inputs.benefits = a.inputs.benefits
  /\ Taxed(a.inputs) <= Taxed(b.inputs)
  /\ Taxed(b.inputs) <= Taxed(a.inputs) + 4 * (a.left - b.left)

LEMMA DrawTakes ==
  ASSUME NEW a \in Attempt, NEW k \in Bucket, NEW n \in Nat,
         n = Lesser(a.bal[k], a.left)
  PROVE  /\ Draw(a, k, n) \in Attempt /\ Takes(a, Draw(a, k, n))
         /\ Draw(a, k, n).left > 0 => Draw(a, k, n).bal[k] = 0
         /\ \A j \in Bucket \ {k} : Draw(a, k, n).bal[j] = a.bal[j]
<1> DEFINE d == Draw(a, k, n)
<1>1. a.bal[k] \in Nat /\ a.left \in Nat
  BY DEF Attempt, Balance
<1>2. n <= a.bal[k] /\ n <= a.left /\ (n = a.bal[k] \/ n = a.left)
  BY <1>1 DEF Lesser
<1>3. d \in Attempt /\ Continues(a, d)
  BY <1>2, DrawKeeps
<1>4. /\ d.bal = [a.bal EXCEPT ![k] = @ - n] /\ d.wd = [a.wd EXCEPT ![k] = @ + n]
      /\ d.left = a.left - n /\ d.rmdCash = a.rmdCash
      /\ d.inputs = IF k = "pretax" THEN [a.inputs EXCEPT !.ira = @ + n]
                    ELSE IF k = "taxable" THEN [a.inputs EXCEPT !.ltcg = @ + n] ELSE a.inputs
  BY DEF Draw
<1>5. /\ a.bal \in [Bucket -> Nat] /\ a.wd \in [Bucket -> Nat] /\ a.inputs \in TaxInputs
  BY DEF Attempt, Balance
<1>6. d.bal[k] = a.bal[k] - n /\ \A j \in Bucket \ {k} : d.bal[j] = a.bal[j]
  BY <1>4, <1>5, Zenon
<1>7. Total(d.wd) = Total(a.wd) + n
  <2>1. d.wd[k] = a.wd[k] + n /\ \A j \in Bucket \ {k} : d.wd[j] = a.wd[j]
    BY <1>4, <1>5, Zenon
  <2>2. \A j \in Bucket : a.wd[j] \in Nat
    BY <1>5
  <2> HIDE DEF d
  <2> QED
    BY <2>1, <2>2 DEF Total, Bucket
<1>8. /\ d.inputs.benefits = a.inputs.benefits
      /\ Taxed(a.inputs) <= Taxed(d.inputs) /\ Taxed(d.inputs) <= Taxed(a.inputs) + 4 * n
  <2>1. /\ a.inputs.ordinary \in Nat /\ a.inputs.ira \in Nat /\ a.inputs.ltcg \in Nat
    BY <1>5 DEF TaxInputs
  <2>2. CASE k = "pretax"
    <3>1. /\ d.inputs.ordinary = a.inputs.ordinary /\ d.inputs.ltcg = a.inputs.ltcg
          /\ d.inputs.ira = a.inputs.ira + n /\ d.inputs.benefits = a.inputs.benefits
      BY <1>4, <1>5, <2>2 DEF TaxInputs
    <3> HIDE DEF d
    <3> QED
      BY <2>1, <3>1 DEF Taxed
  <2>3. CASE k = "taxable"
    <3>1. /\ d.inputs.ordinary = a.inputs.ordinary /\ d.inputs.ltcg = a.inputs.ltcg + n
          /\ d.inputs.ira = a.inputs.ira /\ d.inputs.benefits = a.inputs.benefits
      BY <1>4, <1>5, <2>3 DEF TaxInputs
    <3> HIDE DEF d
    <3> QED
      BY <2>1, <3>1 DEF Taxed
  <2>4. CASE k # "pretax" /\ k # "taxable"
    <3>1. d.inputs = a.inputs
      BY <1>4, <2>4
    <3> HIDE DEF d
    <3> QED
      BY <2>1, <3>1 DEF Taxed
  <2> QED
    BY <2>2, <2>3, <2>4
<1> HIDE DEF d
<1>9. Total(a.wd) \in Nat
  BY <1>5, TotalType DEF Balance
<1>10. a.left - d.left = n
  BY <1>1, <1>4
<1>11. Takes(a, d)
  BY <1>1, <1>2, <1>4, <1>7, <1>8, <1>9, <1>10 DEF Takes
<1>12. d.left > 0 => d.bal[k] = 0
  BY <1>1, <1>2, <1>4, <1>6
<1> QED
  BY <1>3, <1>6, <1>11, <1>12 DEF d

LEMMA TakesOn ==
  ASSUME NEW a \in Attempt, NEW b \in Attempt, NEW c \in Attempt, Takes(a, b), Takes(b, c)
  PROVE  Takes(a, c)
<1>1. /\ a.left \in Nat /\ b.left \in Nat /\ c.left \in Nat
      /\ Total(a.wd) \in Nat /\ Total(b.wd) \in Nat /\ Total(c.wd) \in Nat
  BY TotalType DEF Attempt
<1>2. Taxed(a.inputs) \in Nat /\ Taxed(b.inputs) \in Nat /\ Taxed(c.inputs) \in Nat
  BY DEF Attempt, TaxInputs, Taxed
<1> QED
  BY <1>1, <1>2 DEF Takes

(* A pass over the four accounts; what it leaves unpaid, it leaves with    *)
(* nothing in them.                                                        *)
LEMMA FundingPassTakes ==
  ASSUME NEW a \in Attempt
  PROVE  /\ FundingPass(a) \in Attempt /\ Takes(a, FundingPass(a))
         /\ FundingPass(a).left > 0 => Total(FundingPass(a).bal) = 0
<1> DEFINE take(b, k) == Draw(b, k, Lesser(b.bal[k], b.left))
           a1 == take(a, "cash")
           a2 == take(a1, "taxable")
           a3 == take(a2, "roth")
           a4 == take(a3, "pretax")
<1>1. ASSUME NEW b \in Attempt, NEW k \in Bucket
      PROVE  /\ take(b, k) \in Attempt /\ Takes(b, take(b, k))
             /\ take(b, k).left > 0 => take(b, k).bal[k] = 0
             /\ \A j \in Bucket \ {k} : take(b, k).bal[j] = b.bal[j]
  <2>1. b.bal[k] \in Nat /\ b.left \in Nat
    BY DEF Attempt, Balance
  <2>2. Lesser(b.bal[k], b.left) \in Nat
    BY <2>1, LesserType
  <2> QED
    BY <2>2, DrawTakes
<1>2. "cash" \in Bucket /\ "taxable" \in Bucket /\ "roth" \in Bucket /\ "pretax" \in Bucket
  BY DEF Bucket
<1>2a. /\ {"cash", "taxable"} \subseteq Bucket \ {"roth"}
       /\ {"cash", "taxable", "roth"} \subseteq Bucket \ {"pretax"}
  BY DEF Bucket
<1>3. FundingPass(a) = a4
  BY Zenon DEF FundingPass
<1> HIDE DEF take
<1>4. a1 \in Attempt /\ Takes(a, a1) /\ (a1.left > 0 => a1.bal["cash"] = 0)
  BY <1>1, <1>2
<1> HIDE DEF a1
<1>5. /\ a2 \in Attempt /\ Takes(a1, a2) /\ (a2.left > 0 => a2.bal["taxable"] = 0)
      /\ a2.bal["cash"] = a1.bal["cash"]
  BY <1>1, <1>2, <1>4
<1> HIDE DEF a2
<1>6. /\ a3 \in Attempt /\ Takes(a2, a3) /\ (a3.left > 0 => a3.bal["roth"] = 0)
      /\ a3.bal["cash"] = a2.bal["cash"] /\ a3.bal["taxable"] = a2.bal["taxable"]
  <2>1. /\ a3 \in Attempt /\ Takes(a2, a3) /\ (a3.left > 0 => a3.bal["roth"] = 0)
        /\ \A j \in Bucket \ {"roth"} : a3.bal[j] = a2.bal[j]
    BY <1>1, <1>2, <1>5
  <2> QED
    BY <2>1, <1>2a
<1> HIDE DEF a3
<1>7. /\ a4 \in Attempt /\ Takes(a3, a4) /\ (a4.left > 0 => a4.bal["pretax"] = 0)
      /\ a4.bal["cash"] = a3.bal["cash"] /\ a4.bal["taxable"] = a3.bal["taxable"]
      /\ a4.bal["roth"] = a3.bal["roth"]
  <2>1. /\ a4 \in Attempt /\ Takes(a3, a4) /\ (a4.left > 0 => a4.bal["pretax"] = 0)
        /\ \A j \in Bucket \ {"pretax"} : a4.bal[j] = a3.bal[j]
    BY <1>1, <1>2, <1>6
  <2> QED
    BY <2>1, <1>2a
<1> HIDE DEF a4
<1>8. Takes(a, a4)
  BY <1>4, <1>5, <1>6, <1>7, TakesOn
<1>9. a4.left > 0 => Total(a4.bal) = 0
  <2> SUFFICES ASSUME a4.left > 0 PROVE Total(a4.bal) = 0
    OBVIOUS
  <2>1. a4.left \in Nat /\ a3.left \in Nat /\ a2.left \in Nat /\ a1.left \in Nat
    BY <1>4, <1>5, <1>6, <1>7 DEF Attempt
  <2>2. a4.left <= a3.left /\ a3.left <= a2.left /\ a2.left <= a1.left
    BY <1>5, <1>6, <1>7 DEF Takes
  <2>3. a3.left > 0 /\ a2.left > 0 /\ a1.left > 0
    BY <2>1, <2>2
  <2>4. /\ a4.bal["cash"] = 0 /\ a4.bal["taxable"] = 0
        /\ a4.bal["roth"] = 0 /\ a4.bal["pretax"] = 0
    BY <1>4, <1>5, <1>6, <1>7, <2>3
  <2> QED
    BY <2>4 DEF Total
<1> QED
  BY <1>3, <1>7, <1>8, <1>9

LEMMA FundGapConverges ==
  ASSUME IInv, FundGap
  PROVE  /\ att'.left > 0 => Total(bal') = 0
         /\ TaxDivisor * (Gap' - att'.left - NewPremiums) <= 7 * (Gap - att'.left) + TaxDivisor
<1>1. /\ phase = "fund" /\ book \in YearBook /\ att \in Attempt /\ hsa \in Nat
      /\ year \in 1 .. Horizon /\ history \in Seq(Nat) /\ book.bill = Bill(att.inputs)
  BY DEF IInv, TypeOK, YearInv, FundGap
<1> DEFINE needing == [att EXCEPT !.left = Gap]
           a == FundingPass(needing)
           T == Total(att.wd)
           U == Total(a.wd)
<1>2. /\ book.spend \in Nat /\ book.bill.healthcare \in Nat /\ book.care \in Nat
      /\ book.offset \in Nat /\ book.bill.tax \in Nat /\ book.income \in Nat
  BY <1>1 DEF YearBook, Bills
<1>3. T \in Nat /\ att.rmdCash \in Nat
  BY <1>1, TotalType DEF Attempt
<1>4. Gap \in Nat /\ Gap # 0
  BY <1>2, <1>3 DEF Gap, Excess, Outflow, Applied, FundGap, Funded
<1>5. /\ needing \in Attempt /\ needing.wd = att.wd /\ needing.rmdCash = att.rmdCash
      /\ needing.inputs = att.inputs /\ needing.left = Gap
  BY <1>1, <1>4 DEF Attempt
<1> HIDE DEF needing
<1>6. a \in Attempt /\ Takes(needing, a) /\ (a.left > 0 => Total(a.bal) = 0)
  BY <1>5, FundingPassTakes
<1>7. /\ bal' = a.bal /\ att' = a
      /\ book' = [book EXCEPT !.bill = Bill(a.inputs), !.funded = @ + 1]
      /\ year' = year /\ history' = history
  BY Zenon DEF FundGap, RefreshedBill, needing
<1> HIDE DEF a
<1>8. /\ book'.bill = Bill(a.inputs) /\ book'.offset = book.offset /\ book'.income = book.income
      /\ book'.spend = book.spend /\ book'.care = book.care
  BY <1>1, <1>7, Zenon DEF YearBook
<1>9. /\ a.left \in Nat /\ U \in Nat /\ a.inputs \in TaxInputs /\ att.inputs \in TaxInputs
      /\ a.left <= Gap /\ U + a.left = T + Gap /\ a.rmdCash = att.rmdCash
      /\ a.inputs.benefits = att.inputs.benefits
      /\ Taxed(att.inputs) <= Taxed(a.inputs)
      /\ Taxed(a.inputs) <= Taxed(att.inputs) + 4 * (Gap - a.left)
  BY <1>1, <1>5, <1>6, TotalType DEF Attempt, Takes
<1>10. PICK n \in Nat : n = Gap - a.left
  BY <1>4, <1>9
<1>11. /\ FederalTax(att.inputs) <= FederalTax(a.inputs)
       /\ TaxDivisor * (FederalTax(a.inputs) - FederalTax(att.inputs)) <= 7 * n + TaxDivisor
  BY <1>9, <1>10, TaxGrows
<1>12. Bill(a.inputs) \in Bills /\ Bill(att.inputs) \in Bills
  BY <1>1, <1>9, BillType
<1>13. Bill(att.inputs).healthcare <= Bill(a.inputs).healthcare
  <2>1. Magi(att.inputs) \in Nat /\ Magi(a.inputs) \in Nat
    BY <1>9, MagiType
  <2>2. Magi(att.inputs) <= Magi(a.inputs)
    BY <1>9, <1>10, MagiGrows
  <2>3. year \in Nat
    BY <1>1, YearConstants
  <2>4. /\ IrmaaMagi(Magi(att.inputs)) \in Nat /\ IrmaaMagi(Magi(a.inputs)) \in Nat
        /\ IrmaaMagi(Magi(att.inputs)) <= IrmaaMagi(Magi(a.inputs))
    <3>1. IrmaaMagi(Magi(att.inputs)) \in Nat /\ IrmaaMagi(Magi(a.inputs)) \in Nat
      BY <1>1, <2>1, <2>3, IrmaaMagiType
    <3> QED
      BY <2>1, <2>2, <3>1 DEF IrmaaMagi
  <2>5. This.cover \in Cover
    BY <1>1, ThisType
  <2>6. Healthcare(This.cover, Magi(att.inputs), IrmaaMagi(Magi(att.inputs)))
          <= Healthcare(This.cover, Magi(a.inputs), IrmaaMagi(Magi(a.inputs)))
    BY <2>1, <2>2, <2>4, <2>5, PremiumsGrow
  <2> QED
    BY <2>6, Zenon DEF Bill
<1>14. PICK t, u, h, k, g, left \in Nat :
         /\ t = FederalTax(att.inputs) /\ u = FederalTax(a.inputs)
         /\ h = Bill(att.inputs).healthcare /\ k = Bill(a.inputs).healthcare
         /\ g = Gap /\ left = a.left
  BY <1>4, <1>9, <1>12, FederalTaxType DEF Bills
<1>15. /\ book.bill.tax = t /\ book.bill.healthcare = h
       /\ book'.bill.tax = u /\ book'.bill.healthcare = k
  BY <1>1, <1>8, <1>14 DEF Bill
<1>16. PICK f \in Int : f = book.spend + book.care - book.offset - book.income + att.rmdCash
  BY <1>2, <1>3
<1>17. Gap = Excess(f + h + t - T, 0)
  BY <1>2, <1>3, <1>14, <1>15, <1>16 DEF Gap, Excess, Outflow, Applied
<1>18. Gap' = Excess(f + k + u - U, 0)
  <2>1. Gap' = Excess(book'.spend + book'.bill.healthcare + book'.care - book'.offset
                        + book'.bill.tax, book'.income + (Total(att'.wd) - att'.rmdCash))
    BY DEF Gap, Outflow, Applied
  <2>2. Gap' = Excess(book.spend + k + book.care - book.offset + u,
                        book.income + (U - att.rmdCash))
    BY <1>7, <1>8, <1>9, <1>15, <2>1
  <2> HIDE DEF U
  <2> QED
    BY <1>2, <1>3, <1>9, <1>14, <1>16, <2>2 DEF Excess
<1>19. t <= u /\ h <= k
  BY <1>11, <1>13, <1>14
<1>20. Gap' = left + (k - h) + (u - t)
  <2>1. g = Excess(f + h + t - T, 0) /\ g # 0 /\ U + left = T + g
    BY <1>4, <1>9, <1>14, <1>17
  <2>2. PICK x, y \in Nat : x = T /\ y = U
    BY <1>3, <1>9
  <2>3. g = f + h + t - x /\ y + left = x + g
    BY <2>1, <2>2, <1>14, <1>16 DEF Excess
  <2>4. f + k + u - y = left + (k - h) + (u - t)
    BY <2>2, <2>3, <1>14, <1>16
  <2>5. left + (k - h) + (u - t) >= 0
    BY <1>14, <1>19
  <2>6. Gap' = Excess(f + k + u - y, 0)
    BY <1>18, <2>2
  <2> QED
    BY <2>4, <2>5, <2>6, <1>14 DEF Excess
<1>21. Gap' - att'.left - NewPremiums = u - t
  BY <1>7, <1>14, <1>15, <1>20 DEF NewPremiums
<1>22. TaxDivisor * (u - t) <= 7 * (Gap - att'.left) + TaxDivisor
  BY <1>7, <1>10, <1>11, <1>14
<1>23. att'.left > 0 => Total(bal') = 0
  BY <1>6, <1>7
<1> QED
  BY <1>21, <1>22, <1>23

(* A funding pass leaves unpaid only what empty accounts cannot pay and    *)
(* what its own withdrawals add to the bill: at most 7 / TaxDivisor of     *)
(* what it took, a unit, and the premiums of a cliff it crossed.           *)
THEOREM FundingPassesConverge == Spec => PassesConverge
<1>1. IInv /\ [Next]_yearVars =>
        [FundGap => /\ att'.left > 0 => Total(bal') = 0
                    /\ TaxDivisor * (Gap' - att'.left - NewPremiums)
                         <= 7 * (Gap - att'.left) + TaxDivisor]_yearVars
  BY FundGapConverges
<1> QED
  BY <1>1, SpecIInv, PTL DEF Spec, PassesConverge
=============================================================================
