SPECIFICATION FairSpec
CONSTANTS
  x = x
  y = y
  a = a
  b = b
  c = c
  d = d
  None = None
  Node = {x, y}
  Cidr = {a, b, c, d}
  Pool <- DualStack
  Start <- MCStart
  Orderly = TRUE
  MaxCrashes = 1
  MaxChurn = 1
  MaxErrors = 1
CHECK_DEADLOCK FALSE
INVARIANTS TypeOK PoolAccounted CIDRsDistinct
PROPERTIES CIDRsKept NodesServed
