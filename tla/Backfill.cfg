SPECIFICATION FairSpec
CONSTANTS
  m1 = m1
  m2 = m2
  m3 = m3
  m4 = m4
  m5 = m5
  m6 = m6
  Msgs = {m1, m2, m3, m4, m5, m6}
  TS <- Seconds
  Count = 1
  QueueOn = TRUE
  Split = TRUE
  Overlap = {"got", "sent", "wipe"}
  CatchUp = TRUE
INVARIANTS NoLoss NextFindsRest
PROPERTIES AllBackfilled
CHECK_DEADLOCK FALSE
