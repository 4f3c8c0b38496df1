SPECIFICATION AccessSpec
CONSTANTS
    ann = ann
    bob = bob
    h1 = h1
    h2 = h2
    m1 = m1
    m2 = m2
    s1 = s1
    User <- MCUser
    Sid <- MCSid
    Handler <- MCHandler
    Machine <- MCMachine
    TTL = 1
    Hour = 0
    MaxActs = 7
    MaxCodes = 1
    MaxMishaps = 1
INVARIANTS AdminRemains RightsExpire CodeBuysOnce
SYMMETRY MCSymmetry
CHECK_DEADLOCK FALSE
