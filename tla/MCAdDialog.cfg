SPECIFICATION FairSpec
CONSTANTS
  Task = {t1, t2}
  MaxPhotos = 2
  Ads = {1, 2, 3, 4, 5, 6, 7}
  Keys = {1, 2, 3, 4}
  MaxExtra = 1
  MaxFaults = 2
INVARIANTS DialogInv
PROPERTIES DialogEnds
CHECK_DEADLOCK FALSE
