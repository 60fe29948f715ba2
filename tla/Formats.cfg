SPECIFICATION FormatsSpec
CONSTANTS
  Char       <- MCChar
  ToLower    <- MCToLower
  MaxLine    = 5
  ColumnName <- PlainNames
  Cell       <- PlainCells
  MaxColumns = 2
  MaxRows    = 2
  MaxLength  = 40
  MaxFields  = 4
INVARIANTS SplitMatchesReference RoundTrip OneLinePerRow
INVARIANTS Aligned CellsInPlace InBounds
CHECK_DEADLOCK FALSE
