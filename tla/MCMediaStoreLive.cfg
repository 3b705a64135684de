CONSTANTS
  Ad = {a1}
  Key = {1, 2}
  Twin = {1, 2}
  Handler = {p1}
  None = None
SPECIFICATION MediaSpec
PROPERTIES OrphansGo
