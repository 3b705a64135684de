SPECIFICATION FairSpec
CONSTANTS
  Updates = 2
  AtOnce = 2
  Starts <- MCStarts
  Limit = 1
  Period = 2
  MaxReplays = 2
  LastMonth = 1
  MaxTicks = 2
  MaxFaults = 1
  MaxChanges = 1
  MaxOthers = 1
INVARIANTS BotInv
PROPERTIES BotAnswers
CHECK_DEADLOCK FALSE
