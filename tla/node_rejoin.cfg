SPECIFICATION CrashSpec
CONSTANTS
    a = a
    b = b
    c = c
    none = none
    Owner = a
    NoPeer = none
    Peers <- MCPair
    Enabled = {"leave"}
    Decorated = {}
    Talkers = {}
    MaxMade = 3
    MaxBreaks = 1
    MaxJoins = 1
    MaxCalls = 0
PROPERTIES RejoinsArrive
CHECK_DEADLOCK FALSE
