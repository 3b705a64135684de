SPECIFICATION FairSchedulerSpec
CONSTANTS
  Hourly = 1
  Daily = 3
  Rollup = 2
  LastDay = 2
  MaxFaults = 2
  NoDay = NoDay
INVARIANTS SInv RecordedDaysRolledUp
PROPERTIES OnlyTheBlindRepeat DailyHappens
CHECK_DEADLOCK FALSE
