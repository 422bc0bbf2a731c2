SPECIFICATION FairMachines
CONSTANTS
  Between = "machines"
  u1 = u1
  u2 = u2
  h1 = h1
  h2 = h2
  Sends <- TwoSends
  Hosts <- TwoHosts
  HostOf <- ToTwoHosts
  Explicit <- OneSend
  NewKind <- OneSend
  MaxBatch = 2
  Reachable <- SecondHost
  MaxRestarts = 2
  Mails <- Two
  Humans <- Two
  Schedule = 1
  MaxFaults = 1
INVARIANTS NoticeMatchesOutcome
PROPERTIES QueuedOnlyWhenRemote KeepsContract EverySendSettles
CHECK_DEADLOCK FALSE
