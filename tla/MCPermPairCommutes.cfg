SPECIFICATION Spec
CONSTANTS
  N = 6
  Diags <- BlockDiags

INVARIANT CommutesWithDiagonal
