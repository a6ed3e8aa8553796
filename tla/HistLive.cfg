SPECIFICATION FairSpec
CONSTANTS
  n1 = n1
  n2 = n2
  c1 = c1
  c2 = c2
  NoNotif = NoNotif
  Notifs = {n1, n2}
  Convs = {c1, c2}
  Holds <- Shared
  Kind <- AllRecent
  Left = {}
  Skipped = {c1}
  Bad = {}
  Limit <- Unlimited
  MaxGens = 1
  MaxRuns = 3
  MayCrash = FALSE
  MayReconnect = FALSE
  MayFail = FALSE
INVARIANT NotForgotten
PROPERTY AllBridged
CHECK_DEADLOCK FALSE
