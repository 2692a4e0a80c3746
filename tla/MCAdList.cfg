SPECIFICATION CallsSpec
CONSTANTS
  Vals = {a, b}
  None = None
  MaxNodes = 3
INVARIANTS
  MirrorImage
  IteratorCovers
PROPERTIES
  RefinesListSeq
