SPECIFICATION MCSpec
CONSTANTS
  N = 7
  problem_size = 3
  Rows = 2
  Cols = 2
INVARIANTS FirstelIsLeast CellsConsistent
PROPERTY CellsAreDomains
