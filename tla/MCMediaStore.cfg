CONSTANTS
  Ad = {a1, a2}
  Key = {1}
  Twin = {}
  Handler = {p1, p2}
  None = None
SYMMETRY Symmetry
SPECIFICATION MediaSpec
INVARIANT EveryLossIsKnown
PROPERTY ImplementsShelf
