CONSTANTS
    a = a
    b = b
    m = m
    Garbage = garbage
    IPs = {a, b}
    Addrs = {a, b}
    V4Mapped <- MappedA
    FamilyOf <- Mixed
    TableSize = 1
    Hash <- Collide
    MaxTime = 3
    MaxBack = 0
    min_block = 1
    max_block = 1
    max_fails = 2
    window = 1
    Step = 1
    Behind = 0
    Ahead = 1
    MaxAge = 2
    Tokens = {0, 1, 2, 3, 4}
    Hotp <- Distinct
    MaxRules = 1
    Timeout = 1
    PruneInterval = 1
    MaxPass = 1
SPECIFICATION GateSpec
INVARIANTS GateInv RecentProof CleanSlate
PROPERTIES KeepsPromise BlockStands
CHECK_DEADLOCK FALSE
