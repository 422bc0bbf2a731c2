SPECIFICATION FairSpec
CONSTANTS
  loop = loop
  operator = operator
  Loop = loop
  Operators <- OneOperator
  MaxAttempts = 2
  MaxMail = 2
  MaxChanges = 1
  MaxFaults = 1
INVARIANTS AttemptsAreWakes WokenOnce
PROPERTY MailIsWoken
