\* Two windows of one day overlap: two processes submit two actions of one
\* intent, with the operator and the reconciler in between.
SPECIFICATION Spec
CONSTANTS
  Actions = {"a", "b"}
  Item <- MCItem
  Tracks = {"steady"}
  KnownTracks = {"steady"}
  Policy <- MCPolicy
  NoPolicy = NoPolicy
  Labels = {"open", "close"}
  Procs = {p1, p2}
  External = {}
  NoOrder = NoOrder
  NoAction = NoAction
  Strict = TRUE
  StartEquity = 100
  Equities = {100}
  MaxAttempts = 2
  MaxFaults = 0
  MaxDay = 0
SYMMETRY ProcSymmetry
INVARIANTS LedgerBacked AuditBeforeOrder ApprovedHasOrder Provenance
PROPERTIES AtMostOneLateOrder
