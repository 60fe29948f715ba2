----------------------------- MODULE Tokenizer -----------------------------
(***************************************************************************)
(* tokenize_sql of src/parser.c: from the text of an SQL file to tokens.   *)
(* A step is one turn of its loop.  Characters are counted from 1.         *)
(***************************************************************************)
EXTENDS Characters

CONSTANTS Source,      \* the texts that may be given to the tokenizer
          Letter,      \* isalpha() of the C library, and the underscore
          Digit,       \* isdigit() of the C library
          Blank,       \* isspace() of the C library
          Keyword,     \* from each reserved word to its token type
          NUL          \* what terminates a C string

Quote  == "'"
Symbol == {",", ".", "(", ")", ";", "*", "="}

ASSUME SourceAssumption ==
  /\ Source \subseteq Text
  /\ NUL \notin Char \cup Symbol \cup {Quote, "-", "/"}
  /\ Letter \cup Digit \cup Blank \subseteq Char
  /\ LF \in Blank
  /\ Letter \cap Digit = {} /\ (Letter \cup Digit) \cap Blank = {}
  /\ (Letter \cup Digit \cup Blank) \cap (Symbol \cup {Quote, "-", "/"}) = {}
  /\ Keyword \in [DOMAIN Keyword -> {"INSERT", "INTO", "VALUES", "SELECT", "FROM", "WHERE"}]

VARIABLES source,      \* the text
          index,       \* of the next character
          line,        \* and where the code believes that character is
          column,
          tokens,
          phase,       \* "tokenize", "parse", "done" or "failed"
          error        \* the line and column reported, or NoPosition

tvars == <<source, index, line, column, tokens, phase, error>>

NoPosition == <<>>

\* start is not in the code: the index at which the token begins.
TokenType == Symbol \cup {"IDENTIFIER", "NUMBER", "STRING", "END",
                          "INSERT", "INTO", "VALUES", "SELECT", "FROM", "WHERE"}
Token == [type : TokenType, lexeme : Text, line : Nat, column : Nat, start : Nat]

TokenizerInit ==
  /\ source \in Source
  /\ index = 1 /\ line = 1 /\ column = 1
  /\ tokens = <<>>
  /\ phase = "tokenize"
  /\ error = NoPosition

-----------------------------------------------------------------------------
(* Looking ahead.                                                          *)

At(i) == IF i \in DOMAIN source THEN source[i] ELSE NUL

\* The first position from i on whose character is not in S.
SpanEnd(i, S) ==
  CHOOSE j \in i .. Len(source) + 1 : At(j) \notin S /\ \A k \in i .. j - 1 : At(k) \in S

\* The positions at which a block comment that starts at index may be closed.
\* Mutant: the star that opens the comment may also close it.
CommentEnds_Overlap ==
  {j \in index + 1 .. Len(source) : At(j) = "*" /\ At(j + 1) = "/"}
CommentEnds == {j \in index + 2 .. Len(source) : At(j) = "*" /\ At(j + 1) = "/"}

\* What read_string_token finds from i on: the closing quote, 0 if there is
\* none, and the value up to there, in which '' stands for one quote.
StringFrom[i \in 1 .. Len(source) + 1] ==
  IF At(i) = NUL                                THEN [close |-> 0, value |-> <<>>]
  ELSE IF At(i) = Quote /\ At(i + 1) = Quote    THEN [StringFrom[i + 2] EXCEPT !.value = <<Quote>> \o @]
  ELSE IF At(i) = Quote                         THEN [close |-> i, value |-> <<>>]
  ELSE                                               [StringFrom[i + 1] EXCEPT !.value = <<At(i)>> \o @]

KeywordType(lexeme) ==
  LET words == {w \in DOMAIN Keyword : SameName(lexeme, w)}
  IN  IF words = {} THEN "IDENTIFIER" ELSE Keyword[CHOOSE w \in words : TRUE]

-----------------------------------------------------------------------------
(* One turn of the loop.                                                   *)

Tokenizing == phase = "tokenize" /\ UNCHANGED source

\* The next character is at i, so many columns further on the same line.
MoveTo(i, columns) ==
  /\ index' = i
  /\ column' = column + columns
  /\ UNCHANGED <<line, phase, error>>

AddToken(type, lexeme) ==
  tokens' = Append(tokens, [type |-> type, lexeme |-> lexeme, line |-> line,
                            column |-> column, start |-> index])

\* The tokens are freed: nobody looks at them any more.
TokenizerFails(position) ==
  /\ phase' = "failed"
  /\ error' = position
  /\ UNCHANGED <<index, line, column, tokens>>

\* Mutant: a new line without a new count of columns.
SkipNewline_ColumnKept ==
  /\ Tokenizing /\ At(index) = LF
  /\ index' = index + 1
  /\ line' = line + 1
  /\ UNCHANGED <<column, tokens, phase, error>>

SkipNewline ==
  /\ Tokenizing /\ At(index) = LF
  /\ index' = index + 1
  /\ line' = line + 1 /\ column' = 1
  /\ UNCHANGED <<tokens, phase, error>>

SkipBlank ==
  /\ Tokenizing /\ At(index) \in Blank \ {LF}
  /\ MoveTo(index + 1, 1)
  /\ UNCHANGED tokens

StartsLineComment  == At(index) = "-" /\ At(index + 1) = "-"
StartsBlockComment == At(index) = "/" /\ At(index + 1) = "*"

\* Mutant: the character that ends the comment is skipped without a look at it.
LineComment_SkipsEnd ==
  /\ Tokenizing /\ StartsLineComment
  /\ LET end == SpanEnd(index + 2, Char \ {LF}) + 1 IN MoveTo(end, end - index)
  /\ UNCHANGED tokens

\* Up to the newline, which is left to SkipNewline.
LineComment ==
  /\ Tokenizing /\ StartsLineComment
  /\ LET end == SpanEnd(index + 2, Char \ {LF}) IN MoveTo(end, end - index)
  /\ UNCHANGED tokens

BlockComment ==
  /\ Tokenizing /\ StartsBlockComment
  /\ CommentEnds # {}
  /\ LET last     == Min(CommentEnds)
         newlines == {k \in index + 2 .. last - 1 : At(k) = LF}
     IN  /\ index'  = last + 2
         /\ line'   = line + Cardinality(newlines)
         /\ column' = IF newlines = {} THEN column + last + 2 - index
                                       ELSE last + 2 - Max(newlines)
  /\ UNCHANGED <<tokens, phase, error>>

UnterminatedComment ==
  /\ Tokenizing /\ StartsBlockComment
  /\ CommentEnds = {}
  /\ TokenizerFails(NoPosition)

Word ==
  /\ Tokenizing /\ At(index) \in Letter
  /\ LET end    == SpanEnd(index, Letter \cup Digit)
         lexeme == SubSeq(source, index, end - 1)
     IN  AddToken(KeywordType(lexeme), lexeme) /\ MoveTo(end, end - index)

StartsNumber == At(index) \in Digit \/ (At(index) = "-" /\ At(index + 1) \in Digit)

Number ==
  /\ Tokenizing /\ StartsNumber
  /\ LET end == SpanEnd(index + 1, Digit)
     IN  AddToken("NUMBER", SubSeq(source, index, end - 1)) /\ MoveTo(end, end - index)

\* The column advances by one less than the characters of the literal, and
\* the newlines in it do not count as lines.
StringLiteral ==
  /\ Tokenizing /\ At(index) = Quote
  /\ LET found == StringFrom[index + 1]
     IN  /\ found.close # 0
         /\ AddToken("STRING", found.value)
         /\ MoveTo(found.close + 1, found.close - index)

UnterminatedString ==
  /\ Tokenizing /\ At(index) = Quote
  /\ StringFrom[index + 1].close = 0
  /\ TokenizerFails(<<line, column>>)

SymbolToken ==
  /\ Tokenizing /\ At(index) \in Symbol
  /\ AddToken(At(index), <<At(index)>>) /\ MoveTo(index + 1, 1)

UnexpectedCharacter ==
  /\ Tokenizing /\ index <= Len(source)
  /\ At(index) \notin Blank \cup Letter \cup Symbol \cup {Quote}
  /\ ~StartsLineComment /\ ~StartsBlockComment /\ ~StartsNumber
  /\ TokenizerFails(<<line, column>>)

EndOfInput ==
  /\ Tokenizing /\ index > Len(source)
  /\ AddToken("END", <<>>)
  /\ phase' = "parse"
  /\ UNCHANGED <<index, line, column, error>>

Tokenize == \/ SkipNewline \/ SkipBlank \/ LineComment \/ BlockComment
            \/ UnterminatedComment \/ Word \/ Number \/ StringLiteral
            \/ UnterminatedString \/ SymbolToken \/ UnexpectedCharacter
            \/ EndOfInput

TokenizerSpec == TokenizerInit /\ [][Tokenize]_tvars /\ WF_tvars(Tokenize)

-----------------------------------------------------------------------------
\* tokenize_sql never passes the terminator of the text, and the variables keep
\* their shape.
TokenizerTypeOK ==
  /\ source \in Text
  /\ index \in 1 .. Len(source) + 1
  /\ line \in Nat \ {0} /\ column \in Nat \ {0}
  /\ tokens \in Seq(Token)
  /\ phase \in {"tokenize", "parse", "done", "failed"}
  /\ error \in {NoPosition} \cup (Nat \X Nat)
=============================================================================
