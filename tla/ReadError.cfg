SPECIFICATION Spec
CONSTANTS
  Char        <- MCChar
  ToLower     <- MCToLower
  Schema      <- MCSchema
  Table       = {"t", "u", "v", "w"}
  NoFile      = NoFile
  NoScript    = NoScript
  Proc        = {p1}
  Scripts     <- SelectScripts
  InitialData <- OneRowData
  Block       = 8
  LineBuf     = 20
  Faults      = TRUE
  Crashes     = FALSE
PROPERTIES WholeFileReported
