CONSTANTS
    MaxSecret = 20
    LongBits = 32
    BlockLen = 8
    DigestLen = 6
    LengthLen = 2
    CounterLen = 2
    Offsets = 2
    MaxArgs = 1
    Counters = {258}
    Longs = {0, 80, 65535, 65616}
    Texts <- OneGroup
    Repeats <- MCRepeats
    Hosts <- MCHosts
    Servers <- MCServers
    Numerals <- MCNumerals
    Macs <- MCMacs
SPECIFICATION ClientSpec
INVARIANT Base32AsWritten
CHECK_DEADLOCK FALSE
