SPECIFICATION Spec
CONSTANTS
  Char        <- MCChar
  ToLower     <- MCToLower
  Schema      <- MCSchema
  Table       = {"t", "u", "v", "w"}
  NoFile      = NoFile
  NoScript    = NoScript
  Proc        = {p1}
  Scripts     <- LongRowScripts
  InitialData <- EmptyData
  Block       = 2
  LineBuf     = 20
  Faults      = FALSE
  Crashes     = TRUE
INVARIANTS EveryLineIsARow
