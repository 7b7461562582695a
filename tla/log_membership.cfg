SPECIFICATION LogSpec
CONSTANTS
    a = a
    b = b
    c = c
    k1 = k1
    k2 = k2
    old = old
    new = new
    lobby = lobby
    den = den
    none = none
    Peers <- MCPeers
    Owner = a
    Names <- MCNames
    Channels <- MCChannels
    Lobby = lobby
    NoOp = none
    DigestTop = 8
    MaxMembers = 3
    MaxChannels = 1
    Codes = {k1}
    Requests = {1, 2}
    Enabled = {"admit", "leave", "remove", "kick", "unban", "revoke", "invite", "admin", "rename", "profile", "channel", "delete-channel", "priority", "delete"}
    MaxOperations = 20
    MaxTotal = 7
    FoundingBound = 5
INVARIANTS RemovalsWin IntentsAdmitOnce NothingIsMalformed
PROPERTIES EditsTakeEffect
CHECK_DEADLOCK FALSE
