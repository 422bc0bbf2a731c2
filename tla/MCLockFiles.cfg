SPECIFICATION BothSpec
CONSTANTS
  p1 = p1
  p2 = p2
  p3 = p3
  Absent = Absent
  NoGuard = NoGuard
  Procs <- ThreeProcs
  MaxAttempts = 2
  NameAttempts = 3
  NameCrashPoints <- OwnersOnly
  PidReuse = TRUE
  CrashPoints <- AnyPoint
INVARIANTS SoleHolder
PROPERTIES LosesOnlyToLive NameLosesOnlyToLive ElectsOneRoot ElectionEnds
