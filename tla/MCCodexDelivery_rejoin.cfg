SPECIFICATION FairSpec
CONSTANTS
  c1 = c1
  c2 = c2
  general = general
  chatA = chatA
  NoKey = NoKey
  Unreadable = Unreadable
  Bg = Bg
  Msgs = {1, 2}
  Calls <- MCCalls
  Chats <- FlatChats
  General <- general
  ChatOf <- AllGeneral
  ChatMail = FALSE
  Partitioned = FALSE
  MaxBatch = 2
  MaxLeases = 2
  MaxPendingAcks = 2
  Slack = 10
  MaxCalls = 2
  MaxCrashes = 0
  MaxEvictions = 1
PROPERTIES ConfirmedStaysConfirmed EveryCallEnds
CHECK_DEADLOCK FALSE
