CONSTANTS
    a = a
    b = b
    x = x
    y = y
    z = z
    IPs = {a, b}
    TableSize = 2
    Hash <- Collide
    MaxTime = 10
    MaxBack = 1
    Step = 2
    Behind = 1
    Ahead = 1
    MaxAge = 6
    Tokens = {x, y, z}
    Hotp <- Recurring
SPECIFICATION AuthSpec
INVARIANT AcceptedOnce
CHECK_DEADLOCK FALSE
