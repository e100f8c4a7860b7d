----------------------------- MODULE MCScoring -----------------------------
(***************************************************************************)
(* Instances of Scoring for TLC: a ledger with the snapshots of two tracks *)
(* over three days, or one with the recommendations of two runs.           *)
(***************************************************************************)
EXTENDS Scoring, TLC

MCTrackList == <<"steady", "bold">>
MCWindows   == {<<1, 3>>, <<2, 3>>}
MCFillsOf   == [t \in {"steady", "bold"} |->
                  IF t = "bold" THEN {[day |-> 1, notional |-> 2], [day |-> 2, notional |-> 3]}
                  ELSE {}]

Histories == {h \in SeqOf([day : 1..3, equity : Equities], 3) :
                \A i \in 2..Len(h) : h[i - 1].day <= h[i].day}
Flat == <<[day |-> 2, equity |-> 2], [day |-> 3, equity |-> 2]>>

Rec(run, agent, symbol, action) ==
  [run |-> run, agent |-> agent, track |-> "bold", symbol |-> symbol,
   action |-> action, quote |-> symbol, bench |-> "SPY"]
MCRecs == {Rec("r1", "momentum", "X", "buy"), Rec("r1", "momentum", "Y", "short"),
           Rec("r1", "value", "Y", "hold"), Rec("r2", "momentum", "X", "multi_leg"),
           Rec("r2", "value", "X", "buy")}
MCPlans == {[run |-> "r1", track |-> "bold", judge |-> "j", symbols |-> {"Y"}],
            [run |-> "r2", track |-> "bold", judge |-> "j", symbols |-> {"Z"}]}

NoSnaps == [t \in {"steady", "bold"} |-> <<>>]
MCLedgers == {[snaps |-> [NoSnaps EXCEPT !["steady"] = Flat, !["bold"] = h], recs |-> {}] :
                h \in Histories}
             \cup {[snaps |-> NoSnaps, recs |-> MCRecs]}
MCReturns == {-100, 0, 200}
=============================================================================
