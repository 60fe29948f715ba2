SPECIFICATION Spec
CONSTANTS
  MayFail       <- LeakedRow
  MaxLoops      = 1
  MaxStatements = 2
INVARIANTS NothingLost
