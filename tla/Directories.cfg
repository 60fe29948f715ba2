SPECIFICATION FairSpec
CONSTANTS
  Proc   = {p1, p2, p3}
  Path   <- SlashPaths
  Faults = FALSE
INVARIANTS ParentEnsured NobodyInTheWay NoStrayDirectories
PROPERTIES EveryWriterEnds
CHECK_DEADLOCK FALSE
