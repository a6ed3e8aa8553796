SPECIFICATION Spec
CONSTANTS
    Incoming = {}
    Outgoing = {o1}
    None = None
    PlainContent = {"reject"}
INVARIANTS
    NothingLeft
CHECK_DEADLOCK FALSE
