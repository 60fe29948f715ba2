SPECIFICATION FormatsSpec
CONSTANTS
  Char       <- MCChar
  ToLower    <- MCToLower
  MaxLine    = 1
  ColumnName <- PlainNames
  Cell       <- BrokenCells
  MaxColumns = 2
  MaxRows    = 2
  MaxLength  = 1
  MaxFields  = 4
INVARIANTS Aligned
CHECK_DEADLOCK FALSE
