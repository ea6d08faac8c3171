CONSTANTS
    a = a
    b = b
    IPs = {a, b}
    TableSize = 2
    Hash <- Spread
    MaxTime = 5
    MaxBack = 1
    min_block = 1
    max_block = 3
    max_fails = 2
    window = 2
    MaxHistory = 10
SPECIFICATION HistSpec
INVARIANT HistInv
PROPERTIES BlockStands OnlyOffendersBlocked ImplementsPromise
CHECK_DEADLOCK FALSE
