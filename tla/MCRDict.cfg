SPECIFICATION CallsSpec
CONSTANTS
  Keys = {1, 2, 3}
  Vals = {v1, v2}
  NoVal = NoVal
  Falsy = {v2}
  Hash <- MCHash
  DICT_HT_INITIAL_SIZE = 1
  dict_force_resize_ratio = 1
  TableSizes = {1, 2, 4, 8}
  MaxIterators = 1
INVARIANTS
  Placement
  OneHome
  UsedCounts
  RehashFrontier
PROPERTIES
  IteratorsFreezeEntries
  RehashEnds
  RefinesDictMap
