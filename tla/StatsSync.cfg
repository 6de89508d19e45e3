CONSTANTS
  B5 = 1
  HOUR = 3
  DAY = 6
  WEEK = 7
  RawRetain = 2
  B5Retain = 10
  MaxTime = 5
  MaxFaults = 1
  MaxMoves = 0
  MaxSlow = 1
  Grace = 0
  Jumps = {3}
  MaxEntries = 2
  MaxLen = 2
  HALF = 2
  Sinces = {1}
  MaxExchanges = 3
SPECIFICATION SyncSpec
CHECK_DEADLOCK FALSE
INVARIANT ChartOrdered
INVARIANT ChartComplete
INVARIANT PayloadCovers
