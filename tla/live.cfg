SPECIFICATION LiveSpec
CONSTANTS
    a = a
    b = b
    c = c
    none = none
    Owner = a
    NoPeer = none
    Peers <- MCTrio
    Enabled = {}
    Decorated = {}
    Talkers = {}
    MaxMade = 4
    MaxBreaks = 0
    MaxJoins = 1
    MaxCalls = 0
    Small = "small"
    Large = "large"
    NoLink = NoLink
    Numbers = {1, 2}
    MaxCuts = 1
    MaxRestarts = 1
    FrameNumbers = 4
    PaceChunks = 0
    MaxShares = 1
    MaxWatches = 1
    MaxLosses = 1
    Outputs = {"o1", "o2"}
    Volumes = {"v1", "v2"}
    PacketLength = 3
    SinkRead = 2
    Prefill = 4
    MaxCushion = 6
    Settle = 4
    MaxJobs = 2
    MaxChanges = 2
PROPERTIES JoinsSettle OneLinkLasts StreamIsSeenIntact ShareIsHeard
CHECK_DEADLOCK FALSE
