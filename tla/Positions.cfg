SPECIFICATION ParserSpec
CONSTANTS
  Char      <- MCChar
  ToLower   <- MCToLower
  Source    <- MCSource
  Keyword   <- MCKeyword
  DbRoot    <- MCDbRoot
  MaxLength = 3
  Letter    <- MCLetter
  Digit     = {"1"}
  Blank     = {"LF", " "}
  NUL       = NUL
INVARIANTS PositionsExact
CHECK_DEADLOCK FALSE
