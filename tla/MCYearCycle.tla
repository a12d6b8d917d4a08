----------------------------- MODULE MCYearCycle -----------------------------
(* Three years: the last of work, one of marketplace cover, one of forced   *)
(* distributions, Medicare and care; small balances and a market that       *)
(* halves or grows them.                                                    *)
EXTENDS YearCycle

CoverOf(retired, uninsured, medicare) ==
  [retired |-> retired, uninsured |-> uninsured, medicare |-> medicare]
MCProfile ==
  << [ salary |-> 3, matchCap |-> 1, benefits |-> 0, divisor |-> 0, care |-> 0,
       cover |-> CoverOf(FALSE, 2, 0), lowIncome |-> FALSE, rmdNear |-> FALSE ],
     [ salary |-> 0, matchCap |-> 0, benefits |-> 1, divisor |-> 0, care |-> 0,
       cover |-> CoverOf(TRUE, 1, 1), lowIncome |-> TRUE, rmdNear |-> FALSE ],
     [ salary |-> 0, matchCap |-> 0, benefits |-> 1, divisor |-> 2, care |-> 2,
       cover |-> CoverOf(TRUE, 0, 2), lowIncome |-> TRUE, rmdNear |-> TRUE ] >>

Accounts(c, t, p, r) == [k \in Bucket |-> CASE k = "cash" -> c [] k = "taxable" -> t
                                            [] k = "pretax" -> p [] k = "roth" -> r]
MCBalances == {Accounts(1, 3, 8, 2), Accounts(0, 0, 16, 1), Accounts(2, 4, 3, 0)}

Strat(planner, rule, aware, first, mode, care) ==
  [ planner |-> planner, rule |-> rule, irmaaAware |-> aware, preserveRoth |-> aware,
    first |-> first, defensive |-> "pretax", hsaMode |-> mode, care |-> care ]
MCStrategies ==
  { Strat(TRUE, "tax_bracket_waterfall", TRUE, "pretax", "ltc_reserve", TRUE),
    Strat(TRUE, "tax_bracket_waterfall", FALSE, "taxable", "high_magi_years", TRUE),
    Strat(TRUE, "reverse_waterfall", TRUE, "taxable", "ongoing_qualified_expenses", FALSE),
    Strat(FALSE, "proportional", FALSE, "taxable", "off", FALSE),
    Strat(FALSE, "guyton_klinger", FALSE, "taxable", "off", TRUE) }

Market(state, r) == [state |-> state, return |-> Accounts(0, r, r, r), hsaReturn |-> r]
MCMarkets == {Market("down", -2), Market("up", 1)}
MCWindfalls == {[cash |-> 0, ordinary |-> 0, gain |-> 0], [cash |-> 4, ordinary |-> 3, gain |-> 1]}
MCElections == { [pretax |-> 0, roth |-> 0, hsa |-> 0], [pretax |-> 1, roth |-> 1, hsa |-> 1] }
=============================================================================
