SPECIFICATION Spec
CONSTANTS
  N = 4
  Settings <- TheSettings
  Doms <- TheDoms
INVARIANTS ClauseSound ClauseUsable WrittenMinimal NoUndefined InitialPartKept
