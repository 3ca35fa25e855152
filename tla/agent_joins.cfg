SPECIFICATION FairAgentSpec
CONSTANTS
  h = h
  p = p
  A = A
  None = None
  Pawn = {p}
  Local = h
  Cidr = {A}
  MaxChurn = 1
  MaxErrors = 1
  MaxRetry = 2
INVARIANT TypeOK
PROPERTIES PawnsAdopted PawnsServed OthersKept PawnsAddressed
