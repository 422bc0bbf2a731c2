SPECIFICATION Spec
CONSTANTS
  c1 = c1
  c2 = c2
  general = general
  chatA = chatA
  NoKey = NoKey
  Unreadable = Unreadable
  Bg = Bg
  Msgs = {1, 2}
  Calls <- MCCalls
  Chats <- MCChats
  General <- general
  ChatOf <- FirstToChat
  ChatMail = TRUE
  Partitioned = TRUE
  MaxBatch = 2
  MaxLeases = 2
  MaxPendingAcks = 2
  Slack = 10
  MaxCalls = 3
  MaxCrashes = 0
  MaxEvictions = 0
PROPERTIES ConfirmsOnlyOwnChat
CHECK_DEADLOCK FALSE
