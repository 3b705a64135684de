SPECIFICATION Spec
CONSTANTS
  u1 = u1
  u2 = u2
  a1 = a1
  a2 = a2
  a3 = a3
  s1 = s1
  s2 = s2
  s3 = s3
  User = {u1}
  Ad = {a1, a2}
  Owner <- OneSeller
  Session = {s1, s2}
  MaxAds = 1
  None = None
SYMMETRY SymmetryOneSeller
INVARIANTS RowsOK QuotaKept WithdrawnHidden NobodyWaitsForEver IInv
CHECK_DEADLOCK FALSE
PROPERTIES HistoryKept ImplementsBoard
