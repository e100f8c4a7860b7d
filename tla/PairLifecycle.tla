---------------------------- MODULE PairLifecycle ----------------------------
(***************************************************************************)
(* What run_window is promised of the (track, symbol) pairs it hands to    *)
(* the orchestrator: each ends once, a pair that is ok has a judge's       *)
(* decision and one that failed has none, and a pair's row, written when   *)
(* all have ended, says what became of it.  WindowRunner's AgentsFinish    *)
(* and PersistOutcome rest on exactly this; TrackRun implements it.        *)
(***************************************************************************)
CONSTANT Pairs

VARIABLES outcome, judged, row

lvars == <<outcome, judged, row>>
Outcomes == {"none", "ok", "partial", "failed"}

LInit == /\ outcome = [p \in Pairs |-> "none"]
         /\ row = [p \in Pairs |-> "none"]
         /\ judged = {}

\* run_track returns or raises.
End(p) == /\ outcome[p] = "none"
          /\ \/ outcome' = [outcome EXCEPT ![p] = "ok"] /\ judged' = judged \cup {p}
             \/ /\ outcome' = [outcome EXCEPT ![p] = "partial"]
                /\ judged' \in {judged, judged \cup {p}}
             \/ outcome' = [outcome EXCEPT ![p] = "failed"] /\ UNCHANGED judged
          /\ UNCHANGED row

\* The pair's transaction commits.
Book(p) == /\ \A q \in Pairs : outcome[q] # "none"
           /\ row' = [row EXCEPT ![p] = outcome[p]]
           /\ UNCHANGED <<outcome, judged>>

LSpec == LInit /\ [][\E p \in Pairs : End(p) \/ Book(p)]_lvars

=============================================================================
