CONSTANTS
    Root = Root
    Invoker = Invoker
    Nobody = Nobody
    User = User
    MAX_PORTS = 3
    MAX_SECRET = 1
    MaxArgs = 3
    Size <- SmallBuffers
    Longs <- BoundaryLongs
SPECIFICATION StartupSpec
INVARIANTS StartupInv AsAsked OneSecret Confined StillCapable
CHECK_DEADLOCK FALSE
