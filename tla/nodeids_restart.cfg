SPECIFICATION Spec
CONSTANTS
    L = L
    p = p
    R = R
    q = q
    S = S
    here = here
    there = there
    elsewhere = elsewhere
    l1 = l1
    l2 = l2
    r1 = r1
    r2 = r2
    s1 = s1
    Node = {L, p, R}
    Local = L
    Host <- MCHost
    IP = {l1, l2, r1, r2, s1}
    AddrSets <- OwnAddrs
    MaxID = 2
    Orderly = TRUE
    MaxRestarts = 1
    MaxMapErrors = 0
    None = None
INVARIANTS IDsAccounted KnownNodesMapped HostsHaveOwnIDs
CHECK_DEADLOCK FALSE
