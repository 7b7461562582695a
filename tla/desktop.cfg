SPECIFICATION DesktopSpec
CONSTANTS
    peer1 = peer1
    peer2 = peer2
    ReleaseFiles <- MCReleaseFiles
    Executable = "exe"
    MaxCrashes = 1
    MaxMoveFailures = 2
    MaxRemoveFailures = 2
    Rooms <- MCRooms
    NoRoom = NoRoom
    MaxRequests = 3
    Senders = {"a", "b"}
    Cooldown = 2
    MaxClock = 3
    MaxMentions = 1
    MaxCopies = 2
    Uploaders = {"a", "b"}
    TransferIds = {1, 2}
    MaxChunks = 2
    MaxTransfers = 1
    MaxBuffered = 2
    TransferTimeout = 0
    MaxQueued = 2
    MaxImages = 3
    MaxTicks = 1
    Scopes = {"a", "b"}
    MaxEntries = 3
    MaxCached = 2
    MaxImageBytes = 2
    Maximum = 3
    RecentLimit = 2
    MaxArrivals = 4
    Viewers = {"v"}
    Sharer = "s"
    MaxSegments = 3
    MaxAttempts = 2
    MaxEpochs = 3
    MaxDrawn = 2
    MaxUnderway = 1
    MaxMishaps = 1
    Queries = {"", "cats"}
    Trending = ""
    Providers = {"giphy", "klipy"}
    Urls = {"u", "w"}
    NoUrl = "-"
    MaxPlaying = 1
    LastPage = 1
    MaxSearches = 2
    MaxEmbeds = 2
    SinkInputs = {1, 2}
    Chosen = {1}
    Sinks = {"s", "t"}
    NoSink = "-"
    PrimingSound = 2
    MaxHeldSound = 3
    MaxRecordings = 2
    MaxSoundEvents = 2
    MaxReads = 1
    Self = "self"
    Other = "other"
    MaxStrokes = 1
    Me = "me"
    Voices = {peer1}
    HoldFrames = 2
    Mine = "mine"
    Theirs = {peer1}
    Nobody = "nobody"
    MaxTiles = 4
    Groups = {"c", "d"}
    NoGroup = "none"
    OwnNames = {"n", "m"}
    Bios = {"", "b"}
    NoBio = ""
    MaxPending = 2
    MaxStoreCalls = 3
    MaxFailures = 1
    MaxDeaths = 1
    Fellows = {peer1, peer2}
    Displays = {"d1", "d2"}
    Tints = {"mint", "pink"}
    Mint = "mint"
    Figures = {"plain", "own"}
    Plain = "plain"
    IdleAfter = 2
    MaxMinutes = 3
    MaxTurns = 4
INVARIANTS UpdaterInv CallsInv NotificationsInv PanelMemory DrawingInv MediaInv SoundInv ToolsInv VoiceSoundInv StageInv StoreInv PenguinInv
PROPERTIES ImplementsInstallation
CHECK_DEADLOCK FALSE
