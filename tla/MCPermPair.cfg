SPECIFICATION Spec
CONSTANTS
  N = 6
  Diags <- BlockDiags
INVARIANTS CommutesWhenFull RepresentationsAgree
PROPERTY FixedForever
