SPECIFICATION Spec
CONSTANTS
  x = x
  y = y
  z = z
  None = None
  Name = {x, y, z}
  HostNetwork = {}
  Grace = 1
  Floor = 1
  GateMoves = 0
  MaxGen = 1
  MaxApiErrors = 0
SYMMETRY MCSymmetry
CHECK_DEADLOCK FALSE
INVARIANT ContinuouslyMissing
