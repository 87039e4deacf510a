SPECIFICATION MCSpec
CONSTANTS
  N = 3
  Settings <- Three
  Tables <- AllTables
INVARIANTS ModelsAreCycleSets AuxiliariesFollow GroupsRight
