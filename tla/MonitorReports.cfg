CONSTANTS
  p1 = p1
  Peer <- MCOnePeer
  DownAfter = 2
  UpAfter = 2
  Dwell = 3
  GapMin = 3
  Window = 4
  ProbeMax = 2
  MaintLen = 2
  MaxTime = 7
  Disruptions <- MCNoReload
SPECIFICATION Spec
CHECK_DEADLOCK FALSE
PROPERTY ReportsEarned
PROPERTY ImplementsDetector
