SPECIFICATION Spec
CONSTANTS
  MayFail       <- Handled
  MaxLoops      = 1
  MaxStatements = 2
INVARIANTS NothingLost NoMisuse
