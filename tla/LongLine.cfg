SPECIFICATION Spec
CONSTANTS
  Char        <- MCChar
  ToLower     <- MCToLower
  Schema      <- MCSchema
  Table       = {"t", "u", "v", "w"}
  NoFile      = NoFile
  NoScript    = NoScript
  Proc        = {p1}
  Scripts     <- LongRowScripts
  InitialData <- EmptyData
  Block       = 8
  LineBuf     = 4
  Faults      = FALSE
  Crashes     = FALSE
PROPERTIES OneLineOneRow
