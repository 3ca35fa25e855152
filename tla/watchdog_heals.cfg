SPECIFICATION FairSpec
CONSTANTS
  x = x
  y = y
  z = z
  None = None
  Name = {x, y}
  HostNetwork = {}
  Grace = 1
  Floor = 1
  GateMoves = 1
  MaxGen = 1
  MaxApiErrors = 1
CHECK_DEADLOCK FALSE
INVARIANTS TypeOK 
PROPERTY BrokenPodsHealed
