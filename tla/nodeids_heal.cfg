SPECIFICATION FairSpec
CONSTANTS
    L = L
    p = p
    R = R
    q = q
    S = S
    here = here
    there = there
    elsewhere = elsewhere
    l1 = l1
    l2 = l2
    r1 = r1
    r2 = r2
    s1 = s1
    Node = {L, R, q}
    Local = L
    Host <- MCHost
    IP = {l1, l2, r1, r2, s1}
    AddrSets <- OwnAddrs
    MaxID = 2
    Orderly = TRUE
    MaxRestarts = 0
    MaxMapErrors = 0
    None = None
PROPERTIES LostIDsComeBack
CHECK_DEADLOCK FALSE
