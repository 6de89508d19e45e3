CONSTANTS
  p1 = p1
  Peer <- MCOnePeer
  DownAfter = 1
  UpAfter = 1
  Dwell = 2
  GapMin = 3
  Window = 4
  ProbeMax = 2
  MaintLen = 2
  MaxTime = 5
  Disruptions <- MCEverything
SPECIFICATION Spec
CHECK_DEADLOCK FALSE
INVARIANT TypeOK
INVARIANT StampsDwell
