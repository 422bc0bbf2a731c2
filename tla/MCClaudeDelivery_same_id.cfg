SPECIFICATION Spec
CONSTANTS
  c1 = c1
  c2 = c2
  Msgs <- TwoMsgs
  MaxBatch = 2
  MaxLeases = 2
  Calls = {c1, c2}
  Slack = 1
  RecentMax = 1
  MaxFailures = 1
  WakeBatch = 1
  SameId = TRUE
  Ids <- TwoIds
  MaxBuilds = 2
  MaxFaults = 1
SYMMETRY Interchangeable
CHECK_DEADLOCK FALSE
INVARIANT KeepsCustody
