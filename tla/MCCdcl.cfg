SPECIFICATION Spec
CONSTANTS
  Vars <- MCVars
  ReduceMax = 2
INVARIANTS ProofAccepted AnswersRight ReasonsHold
PROPERTIES Answered ImplementsIncrementalSat
