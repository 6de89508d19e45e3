SPECIFICATION Spec
CONSTANTS
  Passwords = {p1, p2}
  Seeds = {s1, s2, s3}
  None = None
  Places = 2
  Burst = 2
  MaxSalts = 3
  MaxFaults = 2
SYMMETRY Symmetry
INVARIANT TypeOK
INVARIANT DaemonKeyOnDisk
INVARIANT LastPasswordOpens
PROPERTY SeedKept
