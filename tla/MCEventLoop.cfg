CONSTANTS
    s1 = s1
    s2 = s2
    Socks = {s1, s2}
    MaxEvents = 3
    MaxQueue = 2
SPECIFICATION LoopSpec
INVARIANTS LoopInv NoLostEdge
PROPERTIES QueuesDrained SignalSeen
CHECK_DEADLOCK FALSE
