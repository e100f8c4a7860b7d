------------------------------ MODULE RiskBook ------------------------------
(***************************************************************************)
(* What the risk gate guarantees when it is given the positions a track    *)
(* really has.  The gate answers "is this allowed right now?" for one      *)
(* action at a time; here its answers are fed back into the book, so that  *)
(* caps on a sum of positions can be checked over a long run of approvals. *)
(* (The execution adapter does not do that: see Execution.)                *)
(***************************************************************************)
EXTENDS RiskGate

CONSTANTS
  Items,      \* the action items the judge may emit
  Credits,    \* the multi-leg items whose legs together are worth less than 0
  Policy,     \* the track's RiskPolicyParams
  Equities    \* values of account equity a snapshot may carry

ASSUME BookAssumption ==
  /\ \A i \in Items : i.side \in Sides /\ i.instrument \in Instruments
                      /\ i.sizing \in {"usd", "pct"} /\ i.amount \in Nat
  /\ Equities \subseteq Int
  /\ {Policy.positionPct, Policy.grossPct, Policy.shortPct, Policy.optionsPct} \subseteq Int
  /\ Policy.maxHoldings \in Nat

VARIABLES
  positions,  \* the track's open positions
  equity,     \* equity of the newest track snapshot
  verdict     \* codes of the latest evaluation ({} is approved)

vars == <<positions, equity, verdict>>

Portfolio == [equity |-> equity, positions |-> positions]

\* A multi-leg item is one position, as the adapter places it as one ticket.
KeyOf(i) == [symbol |-> i.symbol, option |-> i.instrument = "option"]

ValueOf(k) == IF k \in DOMAIN positions THEN positions[k] ELSE 0

Signed(i) == LET n == TargetNotional(i, equity) IN
             IF \/ i.side \in {"buy", "buy_to_cover"}
                \/ i.side = "multi_leg" /\ i \notin Credits
             THEN n ELSE -n

\* The broker applies a filled order to the account; flat positions vanish.
Booked(i) ==
  LET k    == KeyOf(i)
      open == [j \in DOMAIN positions \cup {k} |->
                 IF j = k THEN ValueOf(k) + Signed(i) ELSE positions[j]]
  IN  [j \in {h \in DOMAIN open : open[h] # 0} |-> open[j]]

Init == /\ positions = NoPositions
        /\ equity \in Equities
        /\ verdict = {}

\* One action through the gate, and into the book when approved.
Trade(i) ==
  /\ verdict' = Evaluate(i, Portfolio, Policy)
  /\ positions' = IF verdict' = {} THEN Booked(i) ELSE positions
  /\ UNCHANGED equity

\* A reconciliation pass records a new account equity.
Snapshot(e) ==
  /\ e # equity
  /\ equity' = e
  /\ UNCHANGED <<positions, verdict>>

Next == \/ \E i \in Items : Trade(i)
        \/ \E e \in Equities : Snapshot(e)

Spec == Init /\ [][Next]_vars

-----------------------------------------------------------------------------
TypeOK ==
  /\ \A k \in DOMAIN positions : positions[k] \in Int \ {0}
  /\ equity \in Equities
  /\ verdict \subseteq Codes

(***************************************************************************)
(* No approved trade leaves gross exposure above the cap of the equity the *)
(* gate saw, whatever was approved before (gate.py, gross exposure).       *)
(***************************************************************************)
GrossSound ==
  [][positions' # positions =>
       ~Over(GrossExposure(positions'), Policy.grossPct, equity)]_vars

(***************************************************************************)
(* A short sale or a cover only ever adds to the short exposure within the *)
(* short cap, counting shorts that plain sells opened; with a cap of 0 it  *)
(* adds nothing.  (A plain sell of more than is held opens a short that    *)
(* the short permissions never see.)                                       *)
(***************************************************************************)
ShortSound ==
  [][\A i \in Items :
       Trade(i) /\ i.side \in ShortSides
         /\ ShortExposure(positions') > ShortExposure(positions)
         => ~Over(ShortExposure(positions'), Policy.shortPct, equity)]_vars

(***************************************************************************)
(* Options notional only ever grows within the options cap.                *)
(***************************************************************************)
OptionsSound ==
  [][OptionsNotional(positions') > OptionsNotional(positions) =>
       ~Over(OptionsNotional(positions'), Policy.optionsPct, equity)]_vars

(***************************************************************************)
(* A buy or a short sale never opens a symbol beyond max_holdings, however *)
(* the others were opened.  Positions may be more: an option on a symbol   *)
(* that is held is not counted, and neither is what a plain sell opens.    *)
(***************************************************************************)
Symbols(book) == {k.symbol : k \in DOMAIN book}
HoldingsBounded ==
  [][\A i \in Items :
       Trade(i) /\ i.side \in {"buy", "sell_short"}
         /\ ~(Symbols(positions') \subseteq Symbols(positions))
         => Cardinality(Symbols(positions')) <= Policy.maxHoldings]_vars

(***************************************************************************)
(* However many approvals and equity changes came before, a gate that is   *)
(* shown the real positions keeps every cap of the policy at once: on      *)
(* gross, short and options exposure and on the number of symbols          *)
(* (RiskGate.evaluate).                                                    *)
(***************************************************************************)
CapsHold == GrossSound /\ ShortSound /\ OptionsSound /\ HoldingsBounded

=============================================================================
