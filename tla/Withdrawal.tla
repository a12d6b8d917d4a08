----------------------------- MODULE Withdrawal -----------------------------
(***************************************************************************)
(* What the retirement engine (src/utils.ts) computes inside one simulated *)
(* year: the year's tax and healthcare bill, the withdrawal of a need from *)
(* the four accounts (withdrawForNeed), the Roth conversions the planner   *)
(* may add, and the health savings account's share of the medical bill.    *)
(*                                                                         *)
(* Money is counted in whole units.  Income for tax purposes (MAGI) and    *)
(* the lines it is compared with are counted in QUARTERS of a unit: a      *)
(* withdrawal from the taxable account realises a gain of a quarter of it  *)
(* (DEFAULT_TAXABLE_WITHDRAWAL_LTCG_RATIO), so every sum below is exact.   *)
(* The tax tables are reduced to one rate above a deduction and to one     *)
(* cliff per healthcare rule; Social Security keeps its two tiers.         *)
(***************************************************************************)
EXTENDS Integers, Sequences, FiniteSets

CONSTANTS
  Deduction, TaxDivisor,        \* tax: (MAGI - deduction) \div TaxDivisor
  FirstBase, SecondBase,        \* provisional-income tiers of the benefits
  AcaCliff, AcaContribution, AcaPremium,    \* marketplace cover, per person
  IrmaaThreshold, Surcharge, MedicarePremium, \* Medicare cover, per person
  MagiBuffer, MaxAnnualConversion, MinAnnualConversion, BracketFill,
  HsaCap, HsaMagiThreshold

ASSUME WithdrawalAssumption ==
  /\ {Deduction, FirstBase, SecondBase, AcaCliff, AcaContribution, AcaPremium,
      IrmaaThreshold, Surcharge, MedicarePremium, MagiBuffer, MaxAnnualConversion,
      MinAnnualConversion, BracketFill, HsaCap, HsaMagiThreshold} \subseteq Nat
  /\ TaxDivisor \in Nat \ {0}
  /\ FirstBase <= SecondBase /\ AcaContribution <= AcaPremium

Bucket == {"cash", "taxable", "pretax", "roth"}
Empty == [k \in Bucket |-> 0]
Total(b) == b["cash"] + b["taxable"] + b["pretax"] + b["roth"]

Balance == [Bucket -> Nat]
TaxInputs == [ordinary : Nat, benefits : Nat, ira : Nat, ltcg : Nat]
Attempt == [bal : Balance, wd : Balance, left : Nat, rmdCash : Nat, inputs : TaxInputs]
Cover == [retired : BOOLEAN, uninsured : Nat, medicare : Nat]

Lesser(a, b) == IF a < b THEN a ELSE b
Excess(a, b) == IF a > b THEN a - b ELSE 0
-----------------------------------------------------------------------------
(* The year's bill. *)

(* calculateTaxableSocialSecurity, in quarters: nothing, a half, or most   *)
(* of the benefits counts, by provisional income.                          *)
TaxableBenefits(benefits, provisional) ==
  IF provisional <= FirstBase THEN 0
  ELSE IF provisional <= SecondBase
    THEN Lesser(2 * benefits, (provisional - FirstBase) \div 2)
  ELSE Lesser(3 * benefits, Lesser(2 * benefits, (SecondBase - FirstBase) \div 2)
                              + (3 * (provisional - SecondBase)) \div 4)

(* The tax inputs of a year: income from work and windfalls, benefits,     *)
(* withdrawals and conversions from pretax, realised gains in quarters.    *)
Magi(i) ==
  LET before == 4 * (i.ordinary + i.ira) + i.ltcg
  IN  before + TaxableBenefits(i.benefits, before + 2 * i.benefits)

FederalTax(i) == Excess(Magi(i), 4 * Deduction) \div TaxDivisor

(* calculateHealthcarePremiums: marketplace cover for those not yet on     *)
(* Medicare once retired, subsidised up to the cliff; Medicare with a      *)
(* surcharge by the MAGI it looks back to.                                 *)
Healthcare(cover, magi, irmaaMagi) ==
  (IF ~cover.retired THEN 0
   ELSE cover.uninsured * (IF magi <= 4 * AcaCliff THEN AcaContribution ELSE AcaPremium))
  + cover.medicare * (MedicarePremium + IF irmaaMagi > 4 * IrmaaThreshold THEN Surcharge ELSE 0)

(* calculateHsaOffsetForYear.                                              *)
HsaOffset(mode, hsa, magi, healthcare, ltc) ==
  LET eligible == IF mode = "ltc_reserve" THEN ltc ELSE healthcare + ltc
  IN  IF mode = "off" \/ (mode = "high_magi_years" /\ magi < 4 * HsaMagiThreshold)
        THEN 0 ELSE Lesser(hsa, Lesser(eligible, HsaCap))
-----------------------------------------------------------------------------
(* withdrawForNeed.  A withdrawal attempt: the balances it leaves, what it *)
(* took, what is left of the need, the forced distribution and the part of *)
(* it that the need did not ask for, and the tax inputs.                   *)

Start(bal, needed, inputs) ==
  [bal |-> bal, wd |-> Empty, left |-> needed, rmdCash |-> 0, inputs |-> inputs]

Draw(a, k, n) ==
  [ bal |-> [a.bal EXCEPT ![k] = @ - n], wd |-> [a.wd EXCEPT ![k] = @ + n],
    left |-> a.left - n, rmdCash |-> a.rmdCash,
    inputs |-> IF k = "pretax" THEN [a.inputs EXCEPT !.ira = @ + n]
               ELSE IF k = "taxable" THEN [a.inputs EXCEPT !.ltcg = @ + n] ELSE a.inputs ]

(* Mutant: no more than the need asks for. *)
WithdrawRmdForNeed(a, required) ==
  Draw(a, "pretax", Lesser(a.left, Lesser(required, a.bal["pretax"])))

(* The required distribution comes first; what the need does not ask for   *)
(* lands in cash.                                                          *)
WithdrawRmd(a, required) ==
  LET take    == Lesser(required, a.bal["pretax"])
      applied == Lesser(a.left, take)
      paid    == Draw(a, "pretax", take)
  IN  [ bal |-> [paid.bal EXCEPT !["cash"] = @ + (take - applied)], wd |-> paid.wd,
        left |-> a.left - applied, rmdCash |-> take - applied, inputs |-> paid.inputs ]

(* buildWithdrawalOrder.  Empty buckets are skipped when their turn comes. *)
WithdrawalOrder(s, market) ==
  IF s.rule = "reverse_waterfall" THEN <<"cash", "roth", "pretax", "taxable">>
  ELSE IF ~s.planner THEN <<"cash", "taxable", "pretax", "roth">>
  ELSE LET first == IF market = "down" THEN s.defensive ELSE s.first
       IN  <<"cash", first, IF first = "pretax" THEN "taxable" ELSE "pretax", "roth">>

(* The ceilings a pretax withdrawal stays under, in quarters.              *)
NoCeiling == -1
Ceiling == Nat \cup {NoCeiling}
Capped(available, ceiling, magi) ==
  IF ceiling = NoCeiling THEN available ELSE Lesser(available, Excess(ceiling, magi) \div 4)
PretaxRoom(a, y) ==
  Capped(Capped(a.bal["pretax"], y.aca, Magi(a.inputs)), y.irmaa, Magi(a.inputs))

FromBucket(a, k, y) ==
  IF a.left <= 0 \/ a.bal[k] <= 0 THEN a
  ELSE IF k # "pretax" THEN Draw(a, k, Lesser(a.bal[k], a.left))
  ELSE IF PretaxRoom(a, y) > 0 THEN Draw(a, k, Lesser(PretaxRoom(a, y), a.left))
  ELSE IF y.strategy.preserveRoth THEN Draw(a, "roth", Lesser(a.bal["roth"], a.left))
  ELSE a

Cascade(a, y) ==
  LET o == WithdrawalOrder(y.strategy, y.market)
  IN  FromBucket(FromBucket(FromBucket(FromBucket(a, o[1], y), o[2], y), o[3], y), o[4], y)

(* The proportional rule: every bucket gives its share of the need, here   *)
(* rounded down or up by less than a unit.                                 *)
DrawAll(a, t) ==
  [ bal |-> [k \in Bucket |-> a.bal[k] - t[k]], wd |-> [k \in Bucket |-> a.wd[k] + t[k]],
    left |-> a.left - Total(t), rmdCash |-> a.rmdCash,
    inputs |-> [a.inputs EXCEPT !.ira = @ + t["pretax"], !.ltcg = @ + t["taxable"]] ]
ProRata(a) ==
  LET live   == Total(a.bal)
      due    == Lesser(a.left, live)
      shares == { [k \in Bucket |-> (a.bal[k] * due) \div live + IF k \in up THEN 1 ELSE 0] :
                    up \in SUBSET Bucket }
  IN  IF live = 0 THEN {a}
      ELSE {DrawAll(a, t) : t \in {s \in shares : /\ Total(s) = due
                                                  /\ \A k \in Bucket : s[k] <= a.bal[k]}}

WithdrawForNeed(bal, needed, y) ==
  LET a == WithdrawRmd(Start(bal, needed, y.inputs), y.rmd)
  IN  IF y.strategy.rule = "proportional" /\ a.left > 0 THEN ProRata(a) ELSE {Cascade(a, y)}
-----------------------------------------------------------------------------
(* applyProactiveRothConversion.  The score that picks one candidate or    *)
(* none is left open; the candidates and what disqualifies them are not.   *)

(* cap is the share of the pretax balance the policy allows this year.     *)
Headroom(a, cap) == Lesser(Excess(4 * IrmaaThreshold, Magi(a.inputs) + 4 * MagiBuffer) \div 4, cap)
Budget(cap) == Lesser(MaxAnnualConversion, cap)

Quarters(n) == {(n * f) \div 4 : f \in 1 .. 4} \ {0}
SafeAmounts(a, cap, fillOpen) ==
  { Lesser(n, Budget(cap)) :
      n \in Quarters(Headroom(a, cap)) \cup (IF fillOpen THEN {BracketFill} ELSE {}) } \ {0}
DefensiveAmounts(a, cap, y) ==
  IF Budget(cap) > Headroom(a, cap) /\ y.rmdNear THEN Quarters(Budget(cap)) ELSE {}

Converted(a, n) ==
  [ bal |-> [a.bal EXCEPT !["pretax"] = @ - n, !["roth"] = @ + n], wd |-> a.wd,
    left |-> a.left, rmdCash |-> a.rmdCash, inputs |-> [a.inputs EXCEPT !.ira = @ + n] ]

Allowed(a, n, y, safe) ==
  LET before == Magi(a.inputs)
      after  == Magi(Converted(a, n).inputs)
      above  == before > 4 * IrmaaThreshold
  IN  /\ n >= MinAnnualConversion
      /\ y.aca # NoCeiling /\ after > y.aca => before > y.aca
      /\ n \in safe /\ ~above => after <= Excess(4 * IrmaaThreshold, 4 * MagiBuffer)

(* The amounts that may be converted this year, zero among them.           *)
Conversions(a, cap, fillOpen, y) ==
  LET safe      == SafeAmounts(a, cap, fillOpen)
      defensive == DefensiveAmounts(a, cap, y)
      eligible  == /\ y.strategy.planner /\ y.cover.retired /\ a.bal["pretax"] > 0
                   /\ Headroom(a, cap) > 0 \/ defensive # {}
  IN  {0} \cup {n \in safe \cup defensive : eligible /\ Allowed(a, n, y, safe)}
=============================================================================
