SPECIFICATION LateSpec
CONSTANTS
    a = a
    b = b
    c = c
    none = none
    Owner = a
    NoPeer = none
    Peers <- MCTrio
    Enabled = {"priority"}
    Decorated = {}
    Talkers = {}
    MaxMade = 3
    MaxBreaks = 1
    MaxJoins = 1
    MaxCalls = 0
INVARIANTS QuietLinksAgree
CHECK_DEADLOCK FALSE
