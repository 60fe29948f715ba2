SPECIFICATION ParserSpec
CONSTANTS
  Char      <- MCChar
  ToLower   <- MCToLower
  Source    <- MCSource
  Keyword   <- MCKeyword
  DbRoot    <- MCDbRoot
  MaxLength = 5
  Letter    <- MCLetter
  Digit     = {"1"}
  Blank     = {"LF", " "}
  NUL       = NUL
INVARIANTS TokenizerTypeOK LongestMatch PositionsBeforeStrings
INVARIANTS ParserTypeOK AcceptsTheGrammar FirstErrorReported OneFilePerTable
PROPERTIES ParserReturns
CHECK_DEADLOCK FALSE
