CONSTANTS
  p1 = p1
  p2 = p2
  Peer <- MCPeer
  Threshold = 2
  Cooldown = 2
  MaxTasks = 3
SPECIFICATION FairSpec
CHECK_DEADLOCK FALSE
INVARIANT TypeOK
PROPERTY TeardownsSpaced
PROPERTY StuckPathEscaped
