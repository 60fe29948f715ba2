SPECIFICATION Spec
CONSTANTS
  Char        <- MCChar
  ToLower     <- MCToLower
  Schema      <- MCSchema
  Table       = {"t", "u", "v", "w"}
  NoFile      = NoFile
  NoScript    = NoScript
  Proc        = {p1, p2}
  Scripts     <- DisorderedScripts
  InitialData <- DisorderedData
  Block       = 2
  LineBuf     = 5
  Faults      = FALSE
  Crashes     = TRUE
PROPERTIES NoMalformedPiece AppendOnly
