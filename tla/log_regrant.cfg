SPECIFICATION DeputySpec
CONSTANTS
    a = a
    b = b
    c = c
    k1 = k1
    k2 = k2
    old = old
    new = new
    lobby = lobby
    den = den
    none = none
    Peers <- MCPeers
    Owner = a
    Names <- MCNames
    Channels <- MCChannels
    Lobby = lobby
    NoOp = none
    DigestTop = 8
    MaxMembers = 3
    MaxChannels = 2
    Codes = {k1, k2}
    Requests = {2}
    Enabled = {"admin", "invite", "remove", "admit"}
    MaxOperations = 20
    MaxTotal = 7
INVARIANTS GrantsAuthorize
CHECK_DEADLOCK FALSE
