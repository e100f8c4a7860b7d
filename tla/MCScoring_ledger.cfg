\* Two tracks over three days of at most four snapshots each; two runs of one
\* day with five recommendations on two symbols and the benchmark.
SPECIFICATION Spec
CONSTANTS
  None = None
  TrackList <- MCTrackList
  StartEquity = 2
  Equities = {0, 1, 2, 3}
  Windows <- MCWindows
  LastDay = 3
  MaxPasses = 1
  FillsOf <- MCFillsOf
  Ledgers <- MCLedgers
  Plans <- MCPlans
  Runs = {"r1", "r2"}
  Dates = {1}
  Returns <- MCReturns
  Scale = 1000
INVARIANTS RanksRanked MetricsAgree ScoresMatchRegret
