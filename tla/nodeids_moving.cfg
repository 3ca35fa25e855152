SPECIFICATION Spec
CONSTANTS
    L = L
    p = p
    R = R
    q = q
    S = S
    here = here
    there = there
    elsewhere = elsewhere
    l1 = l1
    l2 = l2
    r1 = r1
    r2 = r2
    s1 = s1
    Node = {L, R, S}
    Local = L
    Host <- MCHost
    IP = {l1, l2, r1, r2, s1}
    AddrSets <- MovingAddrs
    MaxID = 3
    Orderly = TRUE
    MaxRestarts = 0
    MaxMapErrors = 1
    None = None
INVARIANTS TypeOK HostsHaveOwnIDs
CHECK_DEADLOCK FALSE
