SPECIFICATION Spec
CONSTANTS
  e1 = e1
  e2 = e2
  e3 = e3
  a1 = a1
  a2 = a2
  a3 = a3
  i1 = i1
  i2 = i2
  i3 = i3
  None = None
  Pod = {e1, e2}
  OnPawn = {e2}
  Addr = {a1, a2}
  ID = {i1, i2}
  MaxCrashes = 1
  MaxFiles = 1
INVARIANT NoAddressConflict
CHECK_DEADLOCK FALSE
