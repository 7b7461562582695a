SPECIFICATION FairSpec
CONSTANTS
    a = a
    b = b
    c = c
    none = none
    Owner = a
    NoPeer = none
    Peers <- MCPair
    Enabled = {"edit", "leave"}
    Decorated = {}
    Talkers = {}
    MaxMade = 4
    MaxBreaks = 1
    MaxJoins = 1
    MaxCalls = 1
PROPERTIES FallsSilent JoinsSettle DeparturesArrive
CHECK_DEADLOCK FALSE
