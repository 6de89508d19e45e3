CONSTANTS
  p1 = p1
  Peer <- MCOnePeer
  DownAfter = 2
  UpAfter = 1
  Dwell = 3
  GapMin = 3
  Window = 20
  ProbeMax = 2
  MaintLen = 2
  MaxTime = 9
  Disruptions <- MCRestart
SPECIFICATION Spec
CHECK_DEADLOCK FALSE
INVARIANT OutageDetected
