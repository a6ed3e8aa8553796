SPECIFICATION Spec
CONSTANTS
  n1 = n1
  n2 = n2
  c1 = c1
  c2 = c2
  NoNotif = NoNotif
  Notifs = {n1, n2}
  Convs = {c1, c2}
  Holds <- Shared
  Kind <- WithOnDemand
  Left = {c1}
  Skipped = {}
  Bad = {}
  Limit <- Unlimited
  MaxGens = 2
  MaxRuns = 1
  MayCrash = TRUE
  MayReconnect = TRUE
  MayFail = TRUE
INVARIANTS Recoverable QueueAwake
CHECK_DEADLOCK FALSE
