SPECIFICATION FairSpec
CONSTANTS
    NumQRs = 3
    Intervals = 3
    MaxRotations = 2
INVARIANTS
    OnlyPaired
    OneSocket
    StaleQRNoticed
PROPERTIES
    LoginEnds
CHECK_DEADLOCK FALSE
