SPECIFICATION Spec
CONSTANTS
  None = None
  car = car
  boat = boat
  u1 = u1
  u2 = u2
  s1 = s1
  s2 = s2
  s3 = s3
  anything = anything
  priced = priced
  red = red
  crimson = crimson
  Ad = {car, boat}
  User = {u1, u2}
  Search = {s1, s3}
  Listing <- MCListing
  Category <- MCCategory
  Parent <- MCParent
  Language = {"ru", "bs"}
  Russian = "ru"
  OwnerOf <- MCOwnerOf
  Filters = {anything, priced, red, crimson}
  Terms <- MCTerms
  FirstFilter <- MCFirstFilter
  NoChat = {}
  Dead = {u2}
  Slot = {slot1}
  Threads = 1
  Limit = 1
  Run = {r1, r2}
  MaxEvents = 1
  MaxSaves = 1
INVARIANTS AlertInv EveryCopyAccounted MatchersAgree
SYMMETRY Symmetry
CHECK_DEADLOCK FALSE
