CONSTANTS
    a = a
    b = b
    Addrs = {a, b}
    FamilyOf <- Mixed
    MaxRules = 2
    Timeout = 2
    PruneInterval = 2
    MaxPass = 2
    MaxTime = 7
    MaxBack = 1
SPECIFICATION RulesSpec
INVARIANT GrantHonoured
CHECK_DEADLOCK FALSE
