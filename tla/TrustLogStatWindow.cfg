CONSTANTS
  p1 = p1
  a1 = a1
  loop = loop
  c1 = c1
  c2 = c2
  None = None
  Peer <- MCPeer
  Perms <- MCPerms
  Alias <- MCAlias
  Tag <- MCNoTag
  g1 = g1
  Loop = loop
  Control <- MCControl1
  TailMax = 1
  MaxAppends = 5
  Races <- MCStatWindow
SPECIFICATION Spec
CHECK_DEADLOCK FALSE
INVARIANT DiskLoads
