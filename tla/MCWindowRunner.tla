--------------------------- MODULE MCWindowRunner ---------------------------
(***************************************************************************)
(* Instances of WindowRunner for TLC: windows of one or two pairs with     *)
(* short plans, alone or two at a time.                                    *)
(***************************************************************************)
EXTENDS WindowRunner, MCExecution

\* steady has a row in strategy_tracks, ghost has none: nothing of its pair
\* can be stored.
MCTrack == [w \in WorkItems |-> IF w = "s1" THEN "steady" ELSE "ghost"]
MCPlan  == [w \in WorkItems |-> IF w = "s1" THEN <<"a">> ELSE <<"u">>]

OnePair    == <<"s1">>
GhostFirst == <<"g1", "s1">>

OpenLabel == [p \in Procs |-> "open"]

=============================================================================
