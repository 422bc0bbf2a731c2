SPECIFICATION Spec
CONSTANTS
  c1 = c1
  c2 = c2
  general = general
  chatA = chatA
  NoKey = NoKey
  Unreadable = Unreadable
  Bg = Bg
  Msgs = {1, 2}
  Calls <- MCCalls
  Chats <- MCChats
  General <- general
  ChatOf <- FirstToChat
  ChatMail = TRUE
  Partitioned = TRUE
  MaxBatch = 1
  MaxLeases = 2
  MaxPendingAcks = 1
  Slack = 0
  MaxCalls = 3
  MaxCrashes = 1
  MaxEvictions = 0
SYMMETRY CallSymmetry
INVARIANTS DealtOnce UnofferedIsDealable ConfirmedLeavesInbox
PROPERTIES ConfirmsOnlyEarlierResponses ConfirmsOwnChat KeepsCustody
CHECK_DEADLOCK FALSE
