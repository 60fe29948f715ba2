SPECIFICATION FairSpec
CONSTANTS
  Char        <- MCChar
  ToLower     <- MCToLower
  Schema      <- MCSchema
  Table       = {"t", "u", "v", "w"}
  NoFile      = NoFile
  NoScript    = NoScript
  Proc        = {p1, p2}
  Scripts     <- ConcurrentScripts
  InitialData <- ConcurrentData
  Block       = 8
  LineBuf     = 9
  Faults      = FALSE
  Crashes     = TRUE
INVARIANTS TypeOK AckedRowsDurable EveryLineIsARow
PROPERTIES AppendOnly ReadersNeverFail ImplementsTableLog Termination
