SPECIFICATION UpkeepSpec
CONSTANTS
    Users = {u1, u2}
    Logins = {l1}
    None = None
    MaxTracked = 2
    Debounce = 1
    Refresh = 2
    Forget = 2
    TTL = 3
    ActivityOnline = 2
    Rate = 1
    Burst = 1
    MaxReports = 2
    SeenUsers = {s1, s2}
    Noters = {n1, n2}
    MaxSeenTime = 2
    SeenQueueSize = 1
    Patches = {a}
    MaxBreaks = 2
    MaxAsStops = 2
    RsUsers = {w1}
    RsGroups = {g}
    MaxRsFails = 2
PROPERTIES
    SilenceEndsOnline
    SentInOrder
    EveryTimeArrives
    AppStateRepaired
    GhostResynced
CHECK_DEADLOCK FALSE
