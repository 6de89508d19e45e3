CONSTANTS
  p1 = p1
  a1 = a1
  loop = loop
  c1 = c1
  c2 = c2
  None = None
  Peer <- MCPeer
  Perms <- MCPerms
  Alias <- MCAlias
  Tag <- MCTag
  g1 = g1
  Loop = loop
  Control <- MCControl2
  TailMax = 1
  MaxAppends = 5
  Races <- MCNoRaces
SPECIFICATION Spec
INVARIANT DiskLoads
INVARIANT AckedInForce
INVARIANT AuthorizedIffGranted
