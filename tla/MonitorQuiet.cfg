CONSTANTS
  p1 = p1
  Peer <- MCOnePeer
  DownAfter = 2
  UpAfter = 2
  Dwell = 3
  GapMin = 3
  Window = 20
  ProbeMax = 2
  MaintLen = 2
  MaxTime = 8
  Disruptions <- MCNothing
  DAY = 3
  MONTH = 6
  HOUR = 3
  Hours = 2
  Limit = 2
  PageMax = 1
SPECIFICATION ViewSpec
CHECK_DEADLOCK FALSE
INVARIANT StatusMatchesLog
INVARIANT OutageDetected
INVARIANT IncidentsAreOutages
INVARIANT BucketsAddUp
INVARIANT DowntimeExplained
