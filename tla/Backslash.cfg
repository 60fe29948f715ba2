SPECIFICATION FairSpec
CONSTANTS
  Proc   = {p1}
  Path   <- BackslashPaths
  Faults = FALSE
INVARIANTS ParentEnsured
CHECK_DEADLOCK FALSE
