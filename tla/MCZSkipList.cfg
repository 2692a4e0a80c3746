SPECIFICATION CallsSpec
CONSTANTS
  Objs = {1, 2, 3}
  Scores = {1, 2}
  None = None
  MaxLevel = 3
INVARIANTS
  LevelsInOrder
  SpansMeasure
  ElementsByRank
PROPERTIES
  RefinesSortedSet
