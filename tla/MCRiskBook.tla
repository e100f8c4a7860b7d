----------------------------- MODULE MCRiskBook -----------------------------
(***************************************************************************)
(* Instances of RiskBook for TLC: three symbols under a limit of two,      *)
(* every side, three kinds of instrument and both ways of sizing.          *)
(***************************************************************************)
EXTENDS RiskBook

Item(s, side, kind, sizing, n) ==
  [track |-> "t", symbol |-> s, side |-> side, instrument |-> kind,
   sizing |-> sizing, amount |-> n]

MCItems ==
  {Item("X", side, "equity", "usd", 40) : side \in Sides}
    \cup {Item("X", "buy", kind, "usd", 20) : kind \in {"option", "leveraged_etf"}}
    \cup {Item("X", "multi_leg", "option", "usd", 20)}
    \cup {Item("Y", side, "equity", "pct", 40) : side \in {"buy", "sell_short"}}
    \cup {Item("Z", side, "equity", "usd", 40) : side \in {"buy", "sell"}}

MCCredits == {Item("X", "multi_leg", "option", "usd", 20)}

\* Shorts and options allowed up to a cap.
LongShort == [positionPct |-> 50, grossPct |-> 150, shortPct |-> 90,
              optionsPct |-> 40, leveraged |-> FALSE, maxHoldings |-> 2]

=============================================================================
