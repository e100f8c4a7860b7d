--------------------------- MODULE OrderLifecycle ---------------------------
(***************************************************************************)
(* What the execution adapter and the reconciler together promise about an *)
(* order: it is placed at the broker at most once, filled at most once,    *)
(* and entered into the local ledger (a row of orders, a row of fills)     *)
(* only after the broker did what the row says.  Nothing is ever taken     *)
(* back.  Execution implements this module.                                *)
(***************************************************************************)
CONSTANT Orders  \* client order ids

VARIABLES
  placed,   \* orders the broker holds
  filled,   \* orders the broker has filled
  booked,   \* orders with a row in the ledger
  settled   \* orders with a fill row in the ledger

lifecycle == <<placed, filled, booked, settled>>

Init == placed = {} /\ filled = {} /\ booked = {} /\ settled = {}

\* The broker takes an order, and may fill it at once.
Place(o) ==
  /\ o \notin placed
  /\ placed' = placed \cup {o}
  /\ filled' \in {filled, filled \cup {o}}
  /\ UNCHANGED <<booked, settled>>

Fill(o) ==
  /\ o \in placed \ filled
  /\ filled' = filled \cup {o}
  /\ UNCHANGED <<placed, booked, settled>>

\* One transaction of the ledger: some placed orders, some of their fills.
Book(S, T) ==
  /\ S \subseteq placed
  /\ booked' = booked \cup S
  /\ T \subseteq filled \cap booked'
  /\ settled' = settled \cup T
  /\ UNCHANGED <<placed, filled>>

Next == \/ \E o \in Orders : Place(o) \/ Fill(o)
        \/ \E S, T \in SUBSET Orders : Book(S, T)

Spec == Init /\ [][Next]_lifecycle

\* Every order the broker took is eventually in the ledger.
EveryPlacedOrderBooked == \A o \in Orders : o \in placed ~> o \in booked

\* Every fill is eventually in the ledger.
EveryFillSettled == \A o \in Orders : o \in filled ~> o \in settled

=============================================================================
