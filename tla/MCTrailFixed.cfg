CONSTANTS
  N = 3
  Rows <- FirstRow
  DiagPart = FALSE
  SmallerEncoding = FALSE
  Diag <- MCDiag
  PropLits = FALSE
  MaxLevel = 1
  MaxImplied = 2
SPECIFICATION PlainSpec
CHECK_DEADLOCK FALSE
INVARIANTS FixedEntryDefined
