SPECIFICATION Spec
CONSTANTS
  Browser = {b1, b2}
  User = {u1, u2}
  Token = {t1, t2}
  Request = {r1, r2}
  None = None
SYMMETRY Symmetry
INVARIANTS LInv OneSession UnclaimedBounded
CHECK_DEADLOCK FALSE
PROPERTIES BurnedByItsBrowser WithdrawnStays ImplementsTicket
