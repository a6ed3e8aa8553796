SPECIFICATION FairSpec
CONSTANTS
    Incoming = {i1}
    Outgoing = {o1}
    None = None
    PlainContent = {"reject"}
INVARIANTS
    OneCall
    EndsWAOnce
    NoOrphanIncoming
PROPERTIES
    SlotSpec
    IncomingResolves
    EndFreesSlot
CHECK_DEADLOCK FALSE
