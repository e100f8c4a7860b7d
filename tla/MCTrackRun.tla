----------------------------- MODULE MCTrackRun -----------------------------
(***************************************************************************)
(* An LLM track and baselines in one window, about the same symbol or      *)
(* about two.                                                              *)
(***************************************************************************)
EXTENDS TrackRun

CONSTANTS c1, c2

Council == <<c1, c2>>
ExcludedOn == [t \in LLMTracks |-> {c2}]

Rec(action, conviction) ==
  [id |-> None, agent |-> None, track |-> None, symbol |-> None, instrument |-> "equity",
   action |-> action, conviction |-> conviction, notional |-> None, pct |-> 500,
   evidence |-> {"ev"}, legs |-> None, pairLegs |-> None]
Hold == [Rec("hold", 1) EXCEPT !.pct = None, !.evidence = {}]

CouncilAnswers == c1 :> {Rec("buy", 2), Hold} @@ c2 :> {[Rec("buy", 3) EXCEPT !.id = Reused]}
Faulty == {[Rec("buy", 3) EXCEPT !.evidence = {}], [Rec("buy", 1) EXCEPT !.track = "unknown"],
           [Rec("buy", 3) EXCEPT !.symbol = "C", !.agent = c1]}

Item == [id |-> None, track |-> None, symbol |-> None, instrument |-> "equity", side |-> "buy",
         notional |-> 100, pct |-> None, orderType |-> "market", limit |-> None, stop |-> None,
         legs |-> None, from |-> {}]
Plan(items) == [id |-> None, track |-> None, judge |-> "judge", posture |-> "net_long",
                items |-> items]
LLMPlans == {Plan(<<Item>>)}
FaultyPlans == {Plan(<<[Item EXCEPT !.orderType = "limit"]>>),
                Plan(<<[Item EXCEPT !.track = "quant_signal", !.symbol = "B"]>>),
                Plan(<<[Item EXCEPT !.track = "unknown"]>>)}

Alphabet == [s \in {"A", "B", "C"} |-> CASE s = "A" -> 1 [] s = "B" -> 2 [] s = "C" -> 3]

WindowPairs == <<<<"yolo", "A">>, <<"quant_signal", "B">>, <<"random_baseline", "A">>>>
=============================================================================
