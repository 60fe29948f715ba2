SPECIFICATION Spec
CONSTANTS
  MayFail       <- NullColumnRead
  MaxLoops      = 1
  MaxStatements = 2
INVARIANTS NoMisuse
