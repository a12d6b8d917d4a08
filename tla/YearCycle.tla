----------------------------- MODULE YearCycle ------------------------------
(***************************************************************************)
(* One trial of the retirement engine (simulatePath in src/utils.ts): the  *)
(* loop over the years, from the guardrail decision and the payroll        *)
(* contributions through the withdrawal loop, the Roth conversion, the     *)
(* health savings account and the extra funding passes to the surplus or   *)
(* the gap that ends the year.  One action per step of the loop's body;    *)
(* nothing runs beside it, the choices are the inputs of the year (the     *)
(* household's schedule, the market, windfalls, inflation) and what module *)
(* Withdrawal leaves open.                                                 *)
(***************************************************************************)
EXTENDS Withdrawal

CONSTANTS
  Horizon,           \* years from startYear to planningEndYear
  Profile,           \* per year: work, cover, benefits, distribution, care
  Strategies,        \* strategies and withdrawal rules to run
  Balances, HsaBalances, \* balances to start from
  Markets, Windfalls, Elections, Inflations,  \* inputs of a year
  Essential, Optional, CutOptional,           \* spending, in today's money
  FloorYears, CeilingYears,                   \* guardrails
  AcaBuffer, ConversionCaps,
  MaxPasses,         \* DEFAULT_MAX_CLOSED_LOOP_PASSES, 10 in the code
  MaxFundingPasses,  \* 12 in the code
  LookBack           \* years Medicare looks back, 2 in the code

YearProfile ==
  [ salary : Nat, matchCap : Nat, benefits : Nat, divisor : Nat, care : Nat,
    cover : Cover, lowIncome : BOOLEAN, rmdNear : BOOLEAN ]
Strategy ==
  [ planner : BOOLEAN, irmaaAware : BOOLEAN, preserveRoth : BOOLEAN, care : BOOLEAN,
    rule : {"tax_bracket_waterfall", "proportional", "reverse_waterfall", "guyton_klinger"},
    first : {"pretax", "taxable"}, defensive : {"pretax", "taxable"},
    hsaMode : {"off", "high_magi_years", "ongoing_qualified_expenses", "ltc_reserve"} ]

(* Returns are in quarters; nothing loses more than all of it.             *)
ASSUME YearAssumption ==
  /\ {Horizon, MaxPasses, MaxFundingPasses, LookBack} \subseteq Nat \ {0}
  /\ {Essential, Optional, CutOptional, FloorYears, CeilingYears, AcaBuffer} \subseteq Nat
  /\ CutOptional <= Optional
  /\ Balances \subseteq [Bucket -> Nat] /\ HsaBalances \subseteq Nat
  /\ Inflations \subseteq Nat /\ ConversionCaps \subseteq Nat
  /\ Profile \in [1 .. Horizon -> YearProfile] /\ Strategies \subseteq Strategy
  /\ Markets \subseteq [ state : {"down", "normal", "up"}, hsaReturn : {r \in Int : r >= -4},
                         return : [Bucket -> {r \in Int : r >= -4}] ]
  /\ Windfalls \subseteq [cash : Nat, ordinary : Nat, gain : Nat]
  /\ Elections \subseteq [pretax : Nat, roth : Nat, hsa : Nat]

VARIABLES
  year, phase,  \* the year of the loop and the step it is at
  strategy,     \* the strategy of the trial, and whether care will be needed
  bal, hsa,     \* the four accounts and the health savings account
  cut,          \* optionalCutActive
  prices,       \* inflationIndex, in quarters
  history,      \* magiHistory
  failed,       \* the failure year, zero while there is none
  book,         \* what the year's steps have established so far
  loop,         \* the closed loop: its need, its last state, its sign flips
  att           \* the withdrawal attempt the year goes with

yearVars == <<year, phase, strategy, bal, hsa, cut, prices, history, failed, book, loop, att>>

This == Profile[year]
NoState == [magi |-> -1]
IdleLoop == [pass |-> 0, needed |-> 0, last |-> NoState, stable |-> FALSE, flips |-> 0, sign |-> 0]
NoBill == [magi |-> 0, tax |-> 0, healthcare |-> 0]
NoInputs == [ordinary |-> 0, benefits |-> 0, ira |-> 0, ltcg |-> 0]
NoBook == [opening |-> 0]

Bills == [magi : Nat, tax : Nat, healthcare : Nat]
States == [magi : Nat, tax : Nat, healthcare : Nat, next : Nat]
LoopState ==
  [ pass : Nat, needed : Nat, last : {NoState} \cup States, stable : BOOLEAN,
    flips : Nat, sign : {-1, 0, 1} ]
Given ==
  [ rmd : Nat, market : {"down", "normal", "up"}, strategy : Strategy, cover : Cover,
    rmdNear : BOOLEAN, aca : Ceiling, irmaa : Ceiling, inputs : TaxInputs ]
YearBook ==
  [ opening : Nat, openingRoth : Nat, earned : Nat, matched : Nat, rothIn : Nat,
    gain : Int, rothGain : Int, windfall : Nat, income : Nat, spend : Nat, care : Nat,
    converted : Nat, offset : Nat, bill : Bills, funded : Nat, gap : Nat, given : Given ]

Init ==
  /\ year = 1 /\ phase = "open" /\ failed = 0
  /\ strategy \in Strategies
  /\ bal \in Balances /\ hsa \in HsaBalances
  /\ cut = FALSE /\ prices = 4 /\ history = <<>>
  /\ book = NoBook /\ loop = IdleLoop /\ att = Start(bal, 0, NoInputs)
-----------------------------------------------------------------------------
(* Opening the year. *)

(* Spending in today's money, and what the guardrail compares it with: the *)
(* balances are nominal.                                                   *)
BaseSpending == Essential + Optional
OwnedAtStart == Total(bal) + hsa
Guardrails == strategy.planner \/ strategy.rule = "guyton_klinger"
CutAfter ==
  LET years(n) == n * (IF BaseSpending > 1 THEN BaseSpending ELSE 1)
  IN  \/ ~Guardrails /\ cut
      \/ Guardrails /\ ~cut /\ OwnedAtStart < years(FloorYears)
      \/ Guardrails /\ cut /\ OwnedAtStart <= years(CeilingYears)
SpendingNow(cutNow) ==
  ((Essential + IF cutNow THEN Optional - CutOptional ELSE Optional) * prices) \div 4

(* calculatePreRetirementContributions: an election of deferrals within    *)
(* the salary.  Wages lose the pretax deferral and the HSA contribution,   *)
(* not the Roth deferral.                                                  *)
Feasible(e) == e.pretax + e.roth <= This.salary /\ e.hsa <= This.salary - e.pretax
AdjustedWages(e) == This.salary - e.pretax - e.hsa
Match(e) == Lesser(e.pretax + e.roth, This.matchCap)

(* Mutant: every deferral goes to pretax. *)
ContributePretax(b, e) == [b EXCEPT !["pretax"] = @ + e.pretax + e.roth + Match(e)]

Contribute(b, e) ==
  [b EXCEPT !["pretax"] = @ + e.pretax + Match(e), !["roth"] = @ + e.roth]

(* calculateRequiredMinimumDistribution, on the balance before this year's *)
(* contributions and returns.                                              *)
RequiredDistribution ==
  IF This.divisor = 0 THEN 0 ELSE bal["pretax"] \div This.divisor

Grow(n, return) == n + (n * return) \div 4
Grown(b, market) == [k \in Bucket |-> Grow(b[k], market.return[k])]

(* The ceilings the planner keeps pretax withdrawals under.  The ACA one   *)
(* grows with prices (resolveAcaFriendlyMagiCeiling).                      *)
AcaCeiling ==
  IF strategy.planner /\ This.cover.uninsured > 0 /\ (This.cover.retired \/ This.lowIncome)
    THEN Excess(AcaCliff * prices, 4 * AcaBuffer) ELSE NoCeiling
IrmaaCeiling ==
  IF strategy.planner /\ strategy.irmaaAware THEN 4 * IrmaaThreshold ELSE NoCeiling

(* The body of the loop up to balancesBeforeWithdrawal.                    *)
OpenYear ==
  /\ phase = "open"
  /\ \E e \in Elections, m \in Markets, w \in Windfalls :
       /\ Feasible(e)
       /\ LET benefits == (This.benefits * prices) \div 4
              paid     == Contribute(bal, e)
              grown    == Grown(paid, m)
              hsaPaid  == hsa + e.hsa
              hsaGrown == Grow(hsaPaid, m.hsaReturn)
              income   == AdjustedWages(e) + benefits + w.cash
              spend    == SpendingNow(CutAfter)
          IN  /\ bal' = [grown EXCEPT !["cash"] = @ + w.cash]
              /\ hsa' = hsaGrown
              /\ book' = [ opening |-> OwnedAtStart, openingRoth |-> bal["roth"],
                           earned |-> This.salary + benefits, matched |-> Match(e), rothIn |-> e.roth,
                           gain |-> Total(grown) - Total(paid) + hsaGrown - hsaPaid,
                           rothGain |-> grown["roth"] - paid["roth"],
                           windfall |-> w.cash, income |-> income, spend |-> spend,
                           care |-> IF strategy.care THEN This.care ELSE 0,
                           converted |-> 0, offset |-> 0, bill |-> NoBill, funded |-> 0, gap |-> 0,
                           given |-> [ rmd |-> RequiredDistribution, market |-> m.state, strategy |-> strategy,
                                       cover |-> This.cover, rmdNear |-> This.rmdNear,
                                       aca |-> AcaCeiling, irmaa |-> IrmaaCeiling,
                                       inputs |-> [ ordinary |-> AdjustedWages(e) + w.ordinary, benefits |-> benefits,
                                                    ira |-> 0, ltcg |-> 4 * w.gain ] ] ]
              /\ loop' = [IdleLoop EXCEPT !.needed = Excess(spend, income)]
  /\ cut' = CutAfter
  /\ phase' = "loop"
  /\ UNCHANGED <<year, strategy, prices, history, failed, att>>
-----------------------------------------------------------------------------
(* The closed loop: withdraw, look at the bill, adjust the need. *)

(* Medicare looks back; the first years have nothing to look back to.      *)
IrmaaMagi(magi) ==
  IF year - LookBack \in DOMAIN history THEN history[year - LookBack] ELSE magi

State(a) ==
  LET magi == Magi(a.inputs)
      care == Healthcare(This.cover, magi, IrmaaMagi(magi))
  IN  [ magi |-> magi, tax |-> FederalTax(a.inputs), healthcare |-> care,
        next |-> Excess(book.spend + care + FederalTax(a.inputs) + book.care
                          - HsaOffset(strategy.hsaMode, hsa, magi, care, book.care), book.income) ]

Sign(n) == IF n > 0 THEN 1 ELSE IF n < 0 THEN -1 ELSE 0
SameBill(s, t) == s.magi = t.magi /\ s.tax = t.tax /\ s.healthcare = t.healthcare

(* Half the way to the next need, a third of it after a flip, all of it    *)
(* once the bill is stable; a fraction of a unit goes either way.          *)
Damped(needed, next, flips, stable) ==
  LET d    == next - needed
      part == IF flips >= 1 THEN (3 * d) \div 10 ELSE d \div 2
  IN  IF stable THEN {next}
      ELSE {needed + part} \cup {n \in {needed + part + 1} : n <= (IF next > needed THEN next ELSE needed)}

(* A pass that ends the loop leaves its own attempt as the year's, also    *)
(* where the need has been moved since.                                    *)
ClosedLoopPass ==
  /\ phase = "loop"
  /\ \E a \in WithdrawForNeed(bal, loop.needed, book.given) :
       LET s      == State(a)
           again  == loop.last # NoState
           stable == IF again THEN SameBill(s, loop.last) ELSE loop.stable
           sign   == Sign(s.next - loop.needed)
           flips  == loop.flips + IF loop.sign # 0 /\ sign # 0 /\ sign # loop.sign THEN 1 ELSE 0
           done   == \/ again /\ s.next = loop.needed
                     \/ loop.pass + 1 = MaxPasses
                     \/ flips >= 2
       IN  /\ att' = a
           /\ IF done
                THEN phase' = "convert" /\ loop' = IdleLoop
                ELSE /\ phase' = "loop"
                     /\ \E n \in Damped(loop.needed, s.next, flips, stable) :
                          loop' = [ pass |-> loop.pass + 1, needed |-> n, last |-> s, stable |-> stable,
                                    flips |-> flips, sign |-> IF sign # 0 THEN sign ELSE loop.sign ]
  /\ UNCHANGED <<year, strategy, bal, hsa, cut, prices, history, failed, book>>
-----------------------------------------------------------------------------
(* From the attempt to the end of the year. *)

(* applyProactiveRothConversion on the attempt's balances and tax inputs.  *)
Convert ==
  /\ phase = "convert"
  /\ \E cap \in ConversionCaps, fillOpen \in BOOLEAN :
       \E n \in Conversions(att, Lesser(cap, att.bal["pretax"]), fillOpen, book.given) :
         /\ att' = Converted(att, n)
         /\ book' = [book EXCEPT !.converted = n]
  /\ phase' = "medical"
  /\ UNCHANGED <<year, strategy, bal, hsa, cut, prices, history, failed, loop>>

Bill(inputs) ==
  LET magi == Magi(inputs)
  IN  [magi |-> magi, tax |-> FederalTax(inputs), healthcare |-> Healthcare(This.cover, magi, IrmaaMagi(magi))]

(* The health savings account pays its part of the year's medical bill.    *)
PayFromHsa ==
  /\ phase = "medical"
  /\ LET bill   == Bill(att.inputs)
         offset == HsaOffset(strategy.hsaMode, hsa, bill.magi, bill.healthcare, book.care)
     IN  /\ hsa' = hsa - offset
         /\ book' = [book EXCEPT !.offset = offset, !.bill = bill]
  /\ bal' = att.bal
  /\ phase' = "fund"
  /\ UNCHANGED <<year, strategy, cut, prices, history, failed, loop, att>>

Outflow == book.spend + book.bill.healthcare + book.care - book.offset + book.bill.tax
(* Mutant: the distribution that went to cash is spent as well. *)
AppliedWithSurplus == Total(att.wd)

Applied == Total(att.wd) - att.rmdCash
Gap == Excess(Outflow, book.income + Applied)
Surplus == Excess(book.income + Applied, Outflow)

Funded == Gap = 0 \/ book.funded = MaxFundingPasses \/ Total(bal) = 0

(* Mutant: pretax money, which raises the bill, is left alone. *)
FundingPassSparesPretax(a) ==
  LET take(b, k) == Draw(b, k, Lesser(b.bal[k], b.left))
  IN  take(take(take(a, "cash"), "taxable"), "roth")

(* One supplemental pass over the buckets.                                 *)
FundingPass(a) ==
  LET take(b, k) == Draw(b, k, Lesser(b.bal[k], b.left))
  IN  take(take(take(take(a, "cash"), "taxable"), "roth"), "pretax")

(* Mutant: the bill is not looked at again. *)
StaleBill(inputs) == book.bill

(* refreshTaxAndHealthcareAfterSupplementalWithdrawal.                     *)
RefreshedBill(inputs) == Bill(inputs)

(* The bill changes with the withdrawals, the need of the pass does not.   *)
FundGap ==
  /\ phase = "fund" /\ ~Funded
  /\ LET a == FundingPass([att EXCEPT !.left = Gap])
     IN  /\ bal' = a.bal /\ att' = a
         /\ book' = [book EXCEPT !.bill = RefreshedBill(a.inputs), !.funded = @ + 1]
  /\ UNCHANGED <<year, phase, strategy, hsa, cut, prices, history, failed, loop>>

(* The surplus goes to cash; an unfunded gap or nothing left ends the      *)
(* trial.                                                                  *)
CloseYear ==
  /\ phase = "fund" /\ Funded
  /\ bal' = [bal EXCEPT !["cash"] = @ + Surplus]
  /\ history' = Append(history, book.bill.magi)
  /\ book' = [book EXCEPT !.gap = Gap]
  /\ failed' = IF Gap > 0 \/ Total(bal) + Surplus + hsa = 0 THEN year ELSE 0
  /\ phase' = "closed"
  /\ UNCHANGED <<year, strategy, hsa, cut, prices, loop, att>>

NextYear ==
  /\ phase = "closed" /\ failed = 0 /\ year < Horizon
  /\ year' = year + 1 /\ phase' = "open"
  /\ \E i \in Inflations : prices' = prices + i
  /\ book' = NoBook /\ att' = Start(bal, 0, NoInputs)
  /\ UNCHANGED <<strategy, bal, hsa, cut, history, failed, loop>>

Next == OpenYear \/ ClosedLoopPass \/ Convert \/ PayFromHsa \/ FundGap \/ CloseYear \/ NextYear

Spec == Init /\ [][Next]_yearVars
-----------------------------------------------------------------------------
(* Properties. *)

(* Every step leaves whole, non-negative balances, bills and a need that   *)
(* is not negative, in every account, year and strategy.                   *)
TypeOK ==
  /\ year \in 1 .. Horizon /\ failed \in 0 .. Horizon
  /\ phase \in {"open", "loop", "convert", "medical", "fund", "closed"}
  /\ strategy \in Strategy /\ cut \in BOOLEAN /\ prices \in Nat
  /\ bal \in Balance /\ hsa \in Nat /\ history \in Seq(Nat)
  /\ book \in IF phase = "open" THEN {NoBook} ELSE YearBook
  /\ loop \in LoopState /\ att \in Attempt

Closed == phase = "closed"

(* What the household owns at the end of a year whose accounts explain it. *)
Explained ==
  book.opening + book.earned + book.matched + book.gain + book.windfall
    - (book.spend + book.bill.healthcare + book.care + book.bill.tax) + book.gap

(* Money is neither created nor lost.  In a year without windfall and Roth *)
(* deferral, what the household owns at the end is what it owned before,   *)
(* plus pay, benefits, match and market gains, less spending, care, tax    *)
(* and premiums, plus the gap it could not pay, through every forced       *)
(* distribution, conversion, reimbursement and extra funding pass.         *)
MoneyConserved ==
  Closed /\ book.windfall = 0 /\ book.rothIn = 0 => Total(bal) + hsa = Explained

(* The same for years with a windfall: CALIBRATION_WORKPLAN.md, phase      *)
(* 2.3b, says of the cash deposit and the income line that the windfall is *)
(* not counted twice.                                                      *)
WindfallCountedOnce ==
  Closed /\ book.rothIn = 0 => Total(bal) + hsa = Explained

(* The funding passes close in on a bill that grows as it is paid.  A pass *)
(* leaves a part of the gap it found only with all four accounts empty,    *)
(* and its own withdrawals, from whatever account, raise the bill by no    *)
(* more than the marginal rate of what it took (7 / TaxDivisor: 4 quarters *)
(* of MAGI per unit, and 3 of benefits that become taxable), a unit for    *)
(* rounding, and the premiums of a cliff it crosses.  The gap need not be  *)
(* closed by the last pass: then the trial fails with money left.          *)
NewPremiums == book'.bill.healthcare - book.bill.healthcare
PassesConverge ==
  [][FundGap =>
       /\ att'.left > 0 => Total(bal') = 0
       /\ TaxDivisor * (Gap' - att'.left - NewPremiums)
            <= 7 * (Gap - att'.left) + TaxDivisor]_yearVars

(* The Roth balance is explained by deferrals, gains, withdrawals and the  *)
(* conversion of the year (rothBalanceReconciliationDelta is zero), also   *)
(* when a later funding pass spends what was just converted.               *)
RothReconciles ==
  Closed => bal["roth"] = book.openingRoth + book.rothIn + book.rothGain
                            - att.wd["roth"] + book.converted

(* The tax and the premiums charged are those of everything the year took  *)
(* out: of the withdrawals of the loop, the conversion and every extra     *)
(* funding pass, with the MAGI of the look-back year for the surcharge.    *)
BillMatchesYear ==
  phase \in {"fund", "closed"} =>
    book.bill = Bill([book.given.inputs EXCEPT !.ira = att.wd["pretax"] + book.converted,
                                               !.ltcg = @ + att.wd["taxable"]])

(* The required distribution is withdrawn, whatever the need, the order of *)
(* buckets and the ceilings; a conversion does not stand in for it.        *)
RmdIsTaken ==
  Closed => \/ att.wd["pretax"] >= book.given.rmd
            \/ bal["pretax"] + book.converted = 0
=============================================================================
