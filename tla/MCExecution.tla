----------------------------- MODULE MCExecution -----------------------------
(***************************************************************************)
(* Instances of Execution for TLC: action items, tracks and policies.      *)
(***************************************************************************)
EXTENDS Execution, TLC

Buy(t, s, n)    == [track |-> t, symbol |-> s, side |-> "buy",
                    instrument |-> "equity", sizing |-> "usd", amount |-> n]
BuyPct(t, s, n) == [Buy(t, s, n) EXCEPT !.sizing = "pct"]

ModestPolicy == [positionPct |-> 40, grossPct |-> 100, shortPct |-> 0,
                 optionsPct |-> 0, leveraged |-> FALSE, maxHoldings |-> 2]

\* a and b are the same intent twice (two agents, one idea); d and h are
\* larger than the position cap, d not when the account has doubled; e and f
\* pass one by one but not together; g is sized in percent; u names a track
\* without a row and o a track without a policy.
MCItem == [x \in {"a", "b", "d", "e", "f", "g", "h", "o", "u"} |->
             CASE x \in {"a", "b"} -> Buy("steady", "X", 30)
               [] x = "d" -> Buy("steady", "Y", 60)
               [] x = "e" -> Buy("steady", "Y", 40)
               [] x = "f" -> Buy("steady", "Z", 40)
               [] x = "g" -> BuyPct("steady", "X", 20)
               [] x = "h" -> Buy("steady", "Z", 90)
               [] x = "o" -> Buy("orphan", "X", 20)
               [] x = "u" -> Buy("ghost", "X", 20)]

MCPolicy == [t \in {"steady", "ghost", "orphan"} |->
               IF t = "orphan" THEN NoPolicy ELSE ModestPolicy]

ProcSymmetry == Permutations(Procs)

=============================================================================
