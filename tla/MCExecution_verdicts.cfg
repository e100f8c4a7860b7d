\* Items that no equity admits, that one equity admits, in percent, and of a
\* track without a policy.
SPECIFICATION Spec
CONSTANTS
  Actions = {"d", "g", "h", "o"}
  Item <- MCItem
  Tracks = {"steady", "orphan"}
  KnownTracks = {"steady", "orphan"}
  Policy <- MCPolicy
  NoPolicy = NoPolicy
  Labels = {"open"}
  Procs = {p1}
  External = {}
  NoOrder = NoOrder
  NoAction = NoAction
  Strict = FALSE
  StartEquity = 100
  Equities = {100, 200}
  MaxAttempts = 1
  MaxFaults = 0
  MaxDay = 0
INVARIANTS OrdersWithinPolicy
