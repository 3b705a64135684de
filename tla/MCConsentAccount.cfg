SPECIFICATION ConsentSpec
CONSTANTS
  Person = {s, m}
  Staff = {s, m}
  Superuser = {s}
  Handler = {h1, h2, h3}
  MaxLives = 2
  Nobody = Nobody
INVARIANTS CInv DeclineBlocksPublishing EvidenceOfWithdrawal
PROPERTIES OnlyTheFormRestores ErasureHappens
CHECK_DEADLOCK FALSE
