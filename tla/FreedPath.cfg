SPECIFICATION Spec
CONSTANTS
  MayFail       <- FreedPath
  MaxLoops      = 1
  MaxStatements = 2
INVARIANTS NoMisuse
