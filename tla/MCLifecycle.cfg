CONSTANTS
    a = a
    b = b
    Clients = {a, b}
    NumPorts = 2
    MaxRefusals = 1
    MaxStarts = 3
SPECIFICATION LifeSpec
INVARIANTS LifeInv EstablishedSurvives GateHolds NoStaleGrants ExitOpens DescriptorsClosed
PROPERTY SignalEnds
CHECK_DEADLOCK FALSE
