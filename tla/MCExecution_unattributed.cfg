\* OrdersBooked where the database enforces foreign keys and the account
\* holds one order placed by hand.
SPECIFICATION FairSpec
CONSTANTS
  Actions = {"a"}
  Item <- MCItem
  Tracks = {"steady"}
  KnownTracks = {"steady"}
  Policy <- MCPolicy
  NoPolicy = NoPolicy
  Labels = {"open"}
  Procs = {p1}
  External = {x1}
  NoOrder = NoOrder
  NoAction = NoAction
  Strict = TRUE
  StartEquity = 100
  Equities = {100}
  MaxAttempts = 1
  MaxFaults = 0
  MaxDay = 0
PROPERTIES OrdersBooked
