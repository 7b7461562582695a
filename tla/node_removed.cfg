SPECIFICATION FairSpec
CONSTANTS
    a = a
    b = b
    c = c
    none = none
    Owner = a
    NoPeer = none
    Peers <- MCPair
    Enabled = {"remove"}
    Decorated = {}
    Talkers = {}
    MaxMade = 3
    MaxBreaks = 1
    MaxJoins = 0
    MaxCalls = 0
PROPERTIES RemovalsArrive
CHECK_DEADLOCK FALSE
