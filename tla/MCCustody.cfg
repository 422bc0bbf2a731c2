SPECIFICATION BothSpec
CONSTANTS
  p1 = p1
  p2 = p2
  c1 = c1
  c2 = c2
  k1 = k1
  k2 = k2
  k3 = k3
  Free = Free
  Orphan = Orphan
  Procs <- TwoProcs
  Children <- TwoChildren
  Calls <- ThreeCalls
  ChildOf <- CallsOfChildren
  ThreadOf <- OneChildEach
  MaxSubs = 2
  MaxMail = 1
  MaxSessions = 2
  MaxFaults = 1
  ChatMails <- Two
  Launches <- Two
  Wakes <- Two
  MaxStarts = 2
  Hosts <- Two
  Ladder = 1
  ChatFaults = 1
  ForeignWork = TRUE
SYMMETRY Interchangeable
CONSTRAINTS UntilOperator Halves
INVARIANTS KeepsCustody WokenOnce OneProvenOwner OneWakePerMail HandledAfterATurn
PROPERTIES OpenWhileInHost
CHECK_DEADLOCK FALSE
