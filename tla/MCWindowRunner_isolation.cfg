\* A pair that cannot be stored, answers that get lost, attempts that raise,
\* and crashes, around the trade of another pair.
SPECIFICATION RFairSpec
CONSTANTS
  Actions = {"a", "u"}
  Item <- MCItem
  Tracks = {"steady", "ghost"}
  KnownTracks = {"steady"}
  Policy <- MCPolicy
  NoPolicy = NoPolicy
  Labels = {"open"}
  Procs = {p1}
  External = {}
  NoOrder = NoOrder
  NoAction = NoAction
  Strict = TRUE
  StartEquity = 100
  Equities = {100}
  MaxAttempts = 2
  MaxFaults = 1
  MaxDay = 0
  WorkList <- GhostFirst
  ItemTrack <- MCTrack
  Plan <- MCPlan
  LabelOf <- OpenLabel
  AgentResults = {"ok", "partial", "failed"}
INVARIANTS AccountsTruthful EveryItemAnswered
PROPERTIES WindowsEnd
