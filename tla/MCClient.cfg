CONSTANTS
    MaxSecret = 20
    LongBits = 64
    BlockLen = 8
    DigestLen = 6
    LengthLen = 2
    CounterLen = 2
    Offsets = 2
    MaxArgs = 2
    Counters = {258}
    Longs = {0, 80, 65535, 65616}
    Texts <- MCTexts
    Repeats <- MCRepeats
    Hosts <- MCHosts
    Servers <- MCServers
    Numerals <- MCNumerals
    Macs <- MCMacs
SPECIFICATION ClientSpec
INVARIANTS ClientInv ReadAsOneString MacAsSpecified TokenArrives SentWhereAsked
CHECK_DEADLOCK FALSE
