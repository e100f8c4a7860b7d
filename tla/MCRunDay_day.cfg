\* A day of two windows and of two orders of which a pass sees one, one pass
\* of the operator at any time, and one fault.
SPECIFICATION FairSpec
CONSTANTS
  Days <- MCDays
  BadTime = 24
  Ours = {"o1"}
  External = {"x1"}
  OwnerOf <- MCOwnerOf
  Begins <- MCBegins
  TrackList <- MCTrackList
  Unattributed = "unattributed"
  OrdersLimit = 1
  MaxClock = 1
  Starts = {0}
  MaxPasses = 1
  MaxFaults = 1
  NoRow = NoRow
INVARIANTS WindowsAccounted BooksCurrent
PROPERTIES BooksBeforeWindow  DayProceeds
CHECK_DEADLOCK FALSE
