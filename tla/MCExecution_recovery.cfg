\* Refinement of OrderLifecycle and recovery of lost orders over two days:
\* the account also holds an order placed by hand, which the ledger accepts.
SPECIFICATION FairSpec
CONSTANTS
  Actions = {"a"}
  Item <- MCItem
  Tracks = {"steady"}
  KnownTracks = {"steady"}
  Policy <- MCPolicy
  NoPolicy = NoPolicy
  Labels = {"open"}
  Procs = {p1}
  External = {x1}
  NoOrder = NoOrder
  NoAction = NoAction
  Strict = FALSE
  StartEquity = 100
  Equities = {100}
  MaxAttempts = 1
  MaxFaults = 1
  MaxDay = 1
INVARIANTS IInv
PROPERTIES Lifecycle OrdersBooked FillsSettled StatusConverges
