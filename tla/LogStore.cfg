CONSTANTS
  B5 = 2
  HOUR = 4
  DAY = 8
  WEEK = 9
  RawRetain = 7
  B5Retain = 10
  MaxTime = 12
  MaxFaults = 1
  MaxMoves = 1
  MaxSlow = 1
  Grace = 0
  Jumps = {1}
SPECIFICATION Spec
CHECK_DEADLOCK FALSE
INVARIANT TypeOK
INVARIANT FiveExact
INVARIANT NothingLost
INVARIANT HourExact
INVARIANT ExitsRecorded
