SPECIFICATION Spec
CONSTANTS
  Vars <- MCVars
  ElimBoundMax = 1
  RedMax = 1
  ExtMax = 2
INVARIANTS ModelsExtend Consequences FrozenKept
PROPERTIES KeepsPromise
