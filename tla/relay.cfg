SPECIFICATION FairSpec
CONSTANTS
    x = x
    y = y
    z = z
    Peers <- MCPeers
    NoPeer = NoPeer
    Clients <- MCClients
    Movers = {y}
    Calls <- MCCalls
    Ports = {1, 2, 3}
    NoSlot = NoSlot
    MaxSessions = 5
    MaxLinks = 1
    MaxFaults = 1
    MaxChanges = 1
INVARIANTS TypeOK DirectoryIsSound TunnelsJoinTheRightPeers QuietListings
PROPERTIES RegistrationsArrive CallsGetThrough
CHECK_DEADLOCK FALSE
