SPECIFICATION FairSpec
CONSTANTS
  Char        <- MCChar
  ToLower     <- MCToLower
  Schema      <- MCSchema
  Table       = {"t", "u", "v", "w"}
  NoFile      = NoFile
  NoScript    = NoScript
  Proc        = {p1}
  Scripts     <- SequentialScripts
  InitialData <- SequentialData
  Block       = 3
  LineBuf     = 20
  Faults      = FALSE
  Crashes     = FALSE
INVARIANTS AckedRowsDurable EveryLineIsARow
PROPERTIES ImplementsTableLog OneLineOneRow
