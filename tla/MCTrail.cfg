SPECIFICATION MCSpec
CONSTANTS
  N = 3
  Rows <- FirstRow
  DiagPart = FALSE
  SmallerEncoding = FALSE
  Diag <- MCDiag
  PropLits = TRUE
  MaxLevel = 2
  MaxImplied = 1
CHECK_DEADLOCK FALSE
INVARIANTS AssignmentsAgree TrailMirrored FixedAgree MatrixRight DomainsRight DecisionOpen OtherOptions
