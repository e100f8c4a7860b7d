---------------------------- MODULE AgentSchemas ----------------------------
(***************************************************************************)
(* What the agents exchange (agents/schemas.py): the validators a model's  *)
(* answer has to pass before anybody downstream sees it, and the rows the  *)
(* ledger keeps of it.  An answer is a record of the fields the validators *)
(* and the later stages look at; None is Python's None.                    *)
(***************************************************************************)
EXTENDS Integers, Sequences, FiniteSets, SequencesExt

CONSTANT None

Tradable == {"equity", "etf", "leveraged_etf"}
Instruments == Tradable \cup {"option_single", "multi_leg_option", "pair"}
NonTrading == {"hold", "avoid"}
Actions == NonTrading \cup {"buy", "sell", "short", "cover", "buy_to_open_option",
                            "sell_to_open_option", "multi_leg"}
Sides == {"buy", "sell", "sell_short", "buy_to_cover", "multi_leg"}
OrderTypes == {"market", "limit", "stop", "stop_limit"}

\* AgentRecommendation._sizing_xor and ActionItem._sizing_xor
SizedOnce(r) == (r.notional = None) # (r.pct = None)

\* Mutant: the second validator is not called.
RecommendationValid_Unsupported(r) ==
  /\ r.action \notin NonTrading => SizedOnce(r)
  /\ (r.instrument = "multi_leg_option") = (r.legs # None)
  /\ r.instrument = "multi_leg_option" => r.action = "multi_leg"
  /\ IF r.instrument = "pair" THEN r.pairLegs = 2 ELSE r.pairLegs = None

\* AgentRecommendation: a trade is sized one way and cites evidence; legs and
\* pair legs go with their instruments, and the legs share an underlying.
RecommendationValid(r) ==
  /\ r.action \notin NonTrading => SizedOnce(r) /\ r.evidence # {}
  /\ (r.instrument = "multi_leg_option") = (r.legs # None)
  /\ r.instrument = "multi_leg_option" => r.action = "multi_leg"
  /\ r.legs # None => Len(r.legs) \in 2..6 /\ Cardinality(ToSet(r.legs)) = 1
  /\ IF r.instrument = "pair" THEN r.pairLegs = 2 ELSE r.pairLegs = None

\* ActionItem: exactly one size; the prices its order type needs; legs for a
\* multi-leg order.
ItemValid(i) ==
  /\ SizedOnce(i)
  /\ i.orderType \in {"limit", "stop_limit"} => i.limit # None
  /\ i.orderType \in {"stop", "stop_limit"} => i.stop # None
  /\ i.side = "multi_leg" => i.legs # None

PlanValid(plan) == \A i \in DOMAIN plan.items : ItemValid(plan.items[i])

-----------------------------------------------------------------------------
\* recommendation_to_ledger_row, with the run_id persist_track_run adds; the
\* pair stands for the run.
RecommendationRow(pair, r) ==
  [run |-> pair, track |-> r.track, agent |-> r.agent, symbol |-> r.symbol,
   instrument |-> r.instrument, action |-> r.action, conviction |-> r.conviction,
   notional |-> r.notional, pct |-> r.pct]

\* action_item_to_ledger_row: the decision is the plan's, the track the item's own.
ActionRow(plan, i) ==
  [decision |-> plan.id, track |-> i.track, symbol |-> i.symbol,
   instrument |-> i.instrument, side |-> i.side, notional |-> i.notional,
   pct |-> i.pct, orderType |-> i.orderType]

\* The row _persist_judge_decision writes of the plan itself.
DecisionRow(pair, plan) ==
  [run |-> pair, track |-> plan.track, judge |-> plan.judge, posture |-> plan.posture]

=============================================================================
