SPECIFICATION BlSpec
CONSTANTS
    BlUsers = {b1, b2}
    NoUser = NoUser
    MaxBlocks = 2
    MayMiss = FALSE
INVARIANT MissedRetried
CHECK_DEADLOCK FALSE
