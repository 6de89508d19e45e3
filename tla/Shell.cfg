CONSTANTS
  a1 = a1
  a2 = a2
  p1 = p1
  Attempt <- MCAttempt
  Peer <- MCPeer
  By <- MCBy
  MaxSessions = 1
  MaxPerPeer = 1
  MaxFaults = 2
SPECIFICATION FairSpec
CHECK_DEADLOCK FALSE
INVARIANT TypeOK
INVARIANT ChildrenCapped
INVARIANT PermitsConserved
INVARIANT ClosedMeansGone
PROPERTY ShellReaped
PROPERTY PermitReturns
PROPERTY ImplementsService
