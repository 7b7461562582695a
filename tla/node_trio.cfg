SPECIFICATION HostedSpec
CONSTANTS
    a = a
    b = b
    c = c
    none = none
    Owner = a
    NoPeer = none
    Peers <- MCTrio
    Enabled = {"leave"}
    Decorated = {}
    Talkers = {}
    MaxMade = 4
    MaxBreaks = 0
    MaxJoins = 1
    MaxCalls = 0
INVARIANTS QuietLinksAgree
PROPERTIES AdmissionsFollowSync
CHECK_DEADLOCK FALSE
