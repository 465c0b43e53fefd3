\* Control socket and log sink in one tick: pool, back-off, log accounting.
SPECIFICATION SocketSpec
CONSTANTS
    c1 = c1  c2 = c2  me = me  other = other
    Ctls <- MCCtls
    Owners <- MCOwners
    Me = me
    Modes <- MCModes
    Backlog = 2
    WarnSize = 3
    BufCap = 6
    PipeCap = 4
    MsgSizes <- MCMsgSizes
    LostBase = 2
    MaxIssued = 4
    MaxFreeLen = 3
INVARIANTS
    TypeOK
    MessagesAccounted
    NoControllerLeak
    AcceptWatched
PROPERTIES
    LostEventuallyReported
