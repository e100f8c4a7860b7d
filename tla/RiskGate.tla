------------------------------ MODULE RiskGate ------------------------------
(***************************************************************************)
(* The pure per-track risk gate of stockripper.risk: portfolio exposures   *)
(* (risk/portfolio.py) and RiskGate.evaluate (risk/gate.py).               *)
(*                                                                         *)
(* Money is an integer number of dollars and every policy fraction an      *)
(* integer percentage, so "target > pct * equity" becomes                  *)
(* "100 * target > pct * equity" and no rounding is involved.  An action   *)
(* item is a record                                                        *)
(*   [track, symbol, side, instrument, sizing, amount]                     *)
(* where sizing says which of target_notional_usd ("usd") and              *)
(* target_pct_equity ("pct") the judge filled in: the schema admits        *)
(* exactly one of them.  A portfolio is [equity, positions] with positions *)
(* a function from held positions, keys [symbol, option], to their signed  *)
(* market value.                                                           *)
(***************************************************************************)
EXTENDS Integers, FiniteSets, FiniteSetsExt

Sides == {"buy", "sell", "sell_short", "buy_to_cover", "multi_leg"}

\* The two sides the gate subjects to the short permissions.
ShortSides == {"sell_short", "buy_to_cover"}

Instruments == {"equity", "leveraged_etf", "option"}

Codes == {"rt_position_pct_equity", "rt_short_disallowed",
          "rt_short_exposure_pct_equity", "rt_options_disallowed",
          "rt_options_notional_pct_equity", "rt_leveraged_etf_disallowed",
          "rt_gross_exposure_pct_equity", "rt_max_holdings",
          "rt_sizing_missing_price"}

Magnitude(x) == IF x < 0 THEN -x ELSE x

GrossExposure(positions) ==
  MapThenSumSet(LAMBDA k : Magnitude(positions[k]), DOMAIN positions)

ShortExposure(positions) ==
  MapThenSumSet(LAMBDA k : -positions[k], {k \in DOMAIN positions : positions[k] < 0})

OptionsNotional(positions) ==
  MapThenSumSet(LAMBDA k : Magnitude(positions[k]), {k \in DOMAIN positions : k.option})

\* PortfolioState.position looks a symbol up whatever kind of position it is.
Holds(positions, symbol) == \E k \in DOMAIN positions : k.symbol = symbol

\* No target: a percentage of an equity that is not positive.
Unsized(item, equity) == item.sizing = "pct" /\ equity <= 0

TargetNotional(item, equity) ==
  IF item.sizing = "usd" THEN item.amount ELSE (item.amount * equity) \div 100

Over(value, pct, equity) == 100 * value > pct * equity

-----------------------------------------------------------------------------
(***************************************************************************)
(* RiskGate.evaluate: the set of rejection codes, empty for "approved".    *)
(***************************************************************************)

\* Mutant: the cap on the new short alone.
ShortCodes_IgnoresHeld(item, target, pf, policy) ==
  IF item.side \notin ShortSides THEN {}
  ELSE IF policy.shortPct <= 0 THEN {"rt_short_disallowed"}
  ELSE IF Over(target, policy.shortPct, pf.equity)
       THEN {"rt_short_exposure_pct_equity"} ELSE {}

ShortCodes(item, target, pf, policy) ==
  IF item.side \notin ShortSides THEN {}
  ELSE IF policy.shortPct <= 0 THEN {"rt_short_disallowed"}
  ELSE IF Over(ShortExposure(pf.positions) + target, policy.shortPct, pf.equity)
       THEN {"rt_short_exposure_pct_equity"} ELSE {}

\* Mutant: the cap on the new option alone.
OptionCodes_IgnoresHeld(item, target, pf, policy) ==
  IF item.instrument # "option" THEN {}
  ELSE IF policy.optionsPct <= 0 THEN {"rt_options_disallowed"}
  ELSE IF Over(target, policy.optionsPct, pf.equity)
       THEN {"rt_options_notional_pct_equity"} ELSE {}

OptionCodes(item, target, pf, policy) ==
  IF item.instrument # "option" THEN {}
  ELSE IF policy.optionsPct <= 0 THEN {"rt_options_disallowed"}
  ELSE IF Over(OptionsNotional(pf.positions) + target, policy.optionsPct, pf.equity)
       THEN {"rt_options_notional_pct_equity"} ELSE {}

PositionCodes(target, pf, policy) ==
  IF Over(target, policy.positionPct, pf.equity)
  THEN {"rt_position_pct_equity"} ELSE {}

LeverageCodes(item, policy) ==
  IF item.instrument = "leveraged_etf" /\ ~policy.leveraged
  THEN {"rt_leveraged_etf_disallowed"} ELSE {}

\* Mutant: the cap on what is held, without the new order.
GrossCodes_IgnoresTarget(target, pf, policy) ==
  IF Over(GrossExposure(pf.positions), policy.grossPct, pf.equity)
  THEN {"rt_gross_exposure_pct_equity"} ELSE {}

GrossCodes(target, pf, policy) ==
  IF Over(GrossExposure(pf.positions) + target, policy.grossPct, pf.equity)
  THEN {"rt_gross_exposure_pct_equity"} ELSE {}

\* Mutant: the new symbol is not counted.
HoldingCodes_OffByOne(item, pf, policy) ==
  IF /\ ~Holds(pf.positions, item.symbol)
     /\ item.side \in {"buy", "sell_short"}
     /\ Cardinality(DOMAIN pf.positions) > policy.maxHoldings
  THEN {"rt_max_holdings"} ELSE {}
HoldingCodes(item, pf, policy) ==
  IF /\ ~Holds(pf.positions, item.symbol)
     /\ item.side \in {"buy", "sell_short"}
     /\ Cardinality(DOMAIN pf.positions) + 1 > policy.maxHoldings
  THEN {"rt_max_holdings"} ELSE {}

Evaluate(item, pf, policy) ==
  IF Unsized(item, pf.equity) THEN {"rt_sizing_missing_price"}
  ELSE LET target == TargetNotional(item, pf.equity) IN
       UNION {PositionCodes(target, pf, policy),
              ShortCodes(item, target, pf, policy),
              OptionCodes(item, target, pf, policy),
              LeverageCodes(item, policy),
              GrossCodes(target, pf, policy),
              HoldingCodes(item, pf, policy)}

\* The flat portfolio the execution adapter always hands to the gate.
NoPositions == [k \in {} |-> 0]

=============================================================================
