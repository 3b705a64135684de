SPECIFICATION FairSpec
CONSTANTS
  Kinds = {"search", "menu", "names", "setting"}
  Request = {r1, r2}
  Change = {ad, account}
  Deferred = {account}
  Ttl = 1
  StaleTtl = 1
  LockTtl = 1
  MaxRun = 1
  MaxActors = 3
  MaxFaults = 1
INVARIANTS CacheInv BoundedStaleness AccountChangesRetire
PROPERTIES AnswersComeBack
CHECK_DEADLOCK FALSE
