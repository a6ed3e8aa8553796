SPECIFICATION Spec
CONSTANTS
    Users = {u1, u2}
    Logins = {l1, l2}
    None = None
    MaxTracked = 1
    Debounce = 1
    Refresh = 2
    Forget = 2
    TTL = 3
    ActivityOnline = 2
    Rate = 1
    Burst = 1
    MaxReports = 4
SYMMETRY PresenceSymmetry
INVARIANTS
    ForgottenNotOnline
PROPERTIES
    OfflineMeansLeft
    NeverCutShort
