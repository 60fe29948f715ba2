SPECIFICATION Spec
CONSTANTS
  MayFail       <- LeakedProjection
  MaxLoops      = 1
  MaxStatements = 2
INVARIANTS NothingLost
