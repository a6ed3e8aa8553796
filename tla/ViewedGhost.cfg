SPECIFICATION RsSpec
CONSTANTS
    RsUsers = {w1}
    RsGroups = {g}
    MaxRsFails = 2
PROPERTIES
    ViewQueuesGhost
CHECK_DEADLOCK FALSE
