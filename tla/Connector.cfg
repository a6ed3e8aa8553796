SPECIFICATION Spec
CONSTANTS
    OdChats = {c1, c2}
    MaxAsks = 3
    RgCalls = {k1, k2, k3}
    RgChats = {p1, p2}
    NoCall = NoCall
    BlUsers = {b1, b2}
    NoUser = NoUser
    MaxBlocks = 2
    MayMiss = TRUE
    DmMsgs = {d1}
    Readers = {r1, r2}
    NoReader = NoReader
    MaxPaths = 2
    MaxClEvents = 3
    GrMembers = {m}
    GrChanges = 2
    GrSyncs = 1
    Contacts = {l1, l2}
    NoContact = NoContact
    MaxLidStops = 2
    Persons = {q1, q2, me}
    Own = {me}
    MaxSubs = 1
    MaxMembers = 1
    MayFail = TRUE
    MaxConns = 2
    MaxList = 1
    AlItems = 3
    AiMsgs = 4
    AiScan = 3
INVARIANTS
    InFlightIsReal
    RingingIsLatest
    FlagsFollowList
    OneAskServesAll
    ShownIsTrue
    RoomFollowsGroup
    OneRoomPerPerson
    ReservedIsSubscribed
    AlbumSentOnce
    IndexesDiffer
CHECK_DEADLOCK FALSE
