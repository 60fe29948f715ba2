SPECIFICATION FairSpec
CONSTANTS
  Char        <- MCChar
  ToLower     <- MCToLower
  Schema      <- MCSchema
  Table       = {"t", "u", "v", "w"}
  NoFile      = NoFile
  NoScript    = NoScript
  Proc        = {p1}
  Scripts     <- HostileScripts
  InitialData <- HostileData
  Block       = 2
  LineBuf     = 5
  Faults      = TRUE
  Crashes     = TRUE
PROPERTIES NoOrphanData NoMalformedPiece Termination
