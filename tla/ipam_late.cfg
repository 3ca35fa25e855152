SPECIFICATION FairSpec
CONSTANTS
  h = h
  p1 = p1
  p2 = p2
  a1 = a1
  a2 = a2
  b1 = b1
  c1 = c1
  r1 = r1
  r2 = r2
  r3 = r3
  A = A
  B = B
  C = C
  None = None
  Default = Default
  Node = {h, p1}
  Primary = h
  Cidr = {A, B}
  IP = {a1, b1}
  AddrsOf <- MCAddrs
  Excluded = {}
  Req = {r1, r2}
  Prompt = FALSE
  StableCidrs = TRUE
  MaxClearFailures = 0
CHECK_DEADLOCK FALSE
INVARIANT NoOrphanedIP
PROPERTY AbandonedIPReturns
