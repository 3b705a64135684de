SPECIFICATION FairSpec
CONSTANTS
  seller = seller
  clerk = clerk
  editor = editor
  root = root
  s1 = s1
  s2 = s2
  s3 = s3
  None = None
  User = {seller, clerk, editor, root}
  Ad = {1, 2, 3}
  Owner <- MCOwner
  Privileged = {clerk, editor, root}
  Super = {root}
  MaxAds = 1
  Session = {s1, s2, s3}
  Starts <- MCStarts
  MaxFaults = 1
INVARIANTS DeskInv
PROPERTIES DeskEnds
CHECK_DEADLOCK FALSE
