SPECIFICATION Spec
CONSTANTS
    a = a
    b = b
    c = c
    none = none
    Owner = a
    NoPeer = none
    Peers <- MCPair
    Enabled = {"invite", "priority", "remove", "kick", "revoke", "delete", "edit", "leave"}
    Decorated = {b}
    Talkers = {b}
    MaxMade = 3
    MaxBreaks = 1
    MaxJoins = 2
    MaxCalls = 1
INVARIANTS TypeOK AccessMatchesMembership SnapshotsStayInside QuietLinksAgree
CHECK_DEADLOCK FALSE
