\* Two windows overlap, with one intent in the plan of both.
SPECIFICATION RSpec
CONSTANTS
  Actions = {"a"}
  Item <- MCItem
  Tracks = {"steady"}
  KnownTracks = {"steady"}
  Policy <- MCPolicy
  NoPolicy = NoPolicy
  Labels = {"open"}
  Procs = {p1, p2}
  External = {}
  NoOrder = NoOrder
  NoAction = NoAction
  Strict = TRUE
  StartEquity = 100
  Equities = {100}
  MaxAttempts = 2
  MaxFaults = 0
  MaxDay = 0
  WorkList <- OnePair
  ItemTrack <- MCTrack
  Plan <- MCPlan
  LabelOf <- OpenLabel
  AgentResults = {"ok", "failed"}
SYMMETRY ProcSymmetry
INVARIANTS OrdersTraceToRuns
PROPERTIES DrivesExecution
