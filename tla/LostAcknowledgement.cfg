SPECIFICATION Spec
CONSTANTS
  Char        <- MCChar
  ToLower     <- MCToLower
  Schema      <- MCSchema
  Table       = {"t", "u", "v", "w"}
  NoFile      = NoFile
  NoScript    = NoScript
  Proc        = {p1}
  Scripts     <- LostScripts
  InitialData <- EmptyData
  Block       = 8
  LineBuf     = 20
  Faults      = TRUE
  Crashes     = FALSE
INVARIANTS AckedRowsDurable
