------------------------------ MODULE Lexemes ------------------------------
(***************************************************************************)
(* The lexical elements of a text, defined without scanning it, and what   *)
(* tokenize_sql has to find of them.                                       *)
(***************************************************************************)
EXTENDS Tokenizer, Ordered

(* The lexical elements.                                                   *)

IsBlank(text)       == Len(text) = 1 /\ text[1] \in Blank
IsLineComment(text) == IsPrefix(<<"-", "-">>, text) /\ LF \notin Range(text)
\* Closed by its last two characters and by no others.
IsBlockComment(text) ==
  /\ IsPrefix(<<"/", "*">>, text)
  /\ {j \in 3 .. Len(text) - 1 : text[j] = "*" /\ text[j + 1] = "/"} = {Len(text) - 1}
IsWord(text)   == text # <<>> /\ text[1] \in Letter /\ Range(text) \subseteq Letter \cup Digit
IsNumber(text) == LET digits == IF text # <<>> /\ text[1] = "-" THEN Tail(text) ELSE text
                  IN  digits # <<>> /\ Range(digits) \subseteq Digit
\* Between the outer quotes, quotes come in adjacent pairs.
Quotes(text)   == {j \in 2 .. Len(text) - 1 : text[j] = Quote}
Odd(text, j)   == Cardinality({k \in Quotes(text) : k <= j}) % 2 = 1
IsString(text) ==
  /\ Len(text) >= 2 /\ text[1] = Quote /\ text[Len(text)] = Quote
  /\ Cardinality(Quotes(text)) % 2 = 0
  /\ \A j \in Quotes(text) : Odd(text, j) => j + 1 \in Quotes(text)
IsSymbol(text) == Len(text) = 1 /\ text[1] \in Symbol

IsSkipped(text) == IsBlank(text) \/ IsLineComment(text) \/ IsBlockComment(text)
IsLexeme(text)  == IsWord(text) \/ IsNumber(text) \/ IsString(text) \/ IsSymbol(text)

\* The value of a literal: every other one of its inner quotes.
Unquoted(text) ==
  LET kept == InOrder({j \in 2 .. Len(text) - 1 : text[j] = Quote => Odd(text, j)}, Len(text))
  IN  [k \in DOMAIN kept |-> text[kept[k]]]

Reserved(text) == {word \in DOMAIN Keyword : SameName(text, word)}

Meaning(text) ==
  CASE IsString(text) -> <<"STRING", Unquoted(text)>>
    [] IsNumber(text) -> <<"NUMBER", text>>
    [] IsSymbol(text) -> <<text[1], text>>
    [] IsWord(text)   -> <<IF Reserved(text) = {} THEN "IDENTIFIER"
                             ELSE Keyword[CHOOSE word \in Reserved(text) : TRUE], text>>

\* The last characters of the elements of a text that start at i; the quote that
\* closes a literal is not followed by another one.
Ends(whole, i) ==
  {j \in i .. Len(whole) :
     LET text == SubSeq(whole, i, j)
     IN  \/ IsSkipped(text)
         \/ IsLexeme(text) /\ ~(IsString(text) /\ j < Len(whole) /\ whole[j + 1] = Quote)}

\* What a text holds from each position on when each time the longest element is
\* taken, up to a position at which there is none.
Elements(whole) ==
  LET from[i \in 1 .. Len(whole) + 1] ==
        LET ends == Ends(whole, i)
            text == SubSeq(whole, i, Max(ends))
        IN  IF i > Len(whole) \/ ends = {} THEN [stop |-> i, items |-> <<>>]
            ELSE IF IsSkipped(text)        THEN from[Max(ends) + 1]
            ELSE [from[Max(ends) + 1] EXCEPT !.items = <<Meaning(text)>> \o @]
  IN  from

\* Where in the text a character is: its line, and its column on it.
Position(i) ==
  LET newlines == {k \in 1 .. i - 1 : source[k] = LF}
  IN  <<1 + Cardinality(newlines), i - Max({0} \cup newlines)>>

-----------------------------------------------------------------------------
\* tokenize_sql has come to the end of the text.
Tokenized == tokens # <<>> /\ Last(tokens).type = "END"

\* tokenize_sql has found the longest lexical element at each position, skipped
\* blanks and comments, and failed exactly where no element starts; nothing is
\* lost, split, or read twice.
LongestMatch ==
  phase \in {"done", "failed"} =>
    LET found == Elements(source)[1]
        read  == IF Tokenized THEN Front(tokens) ELSE tokens
    IN  /\ [k \in DOMAIN read |-> <<read[k].type, read[k].lexeme>>] = found.items
        /\ Tokenized <=> found.stop > Len(source)
        /\ index = found.stop

\* Before the first string literal the line and column of each token, and those
\* that an error message of tokenize_sql reports, are where it is in the text,
\* whatever newlines and comments come before it.
PositionsBeforeStrings ==
  /\ \A k \in DOMAIN tokens :
       (\A j \in 1 .. k - 1 : tokens[j].type # "STRING")
         => <<tokens[k].line, tokens[k].column>> = Position(tokens[k].start)
  /\ ~Tokenized /\ (\A j \in DOMAIN tokens : tokens[j].type # "STRING")
       => error \in {NoPosition, Position(index)}

\* The line and the column are kept in step with the text (the comment at
\* src/src/parser.c:230), so every token knows where it is.
PositionsExact ==
  \A k \in DOMAIN tokens :
    <<tokens[k].line, tokens[k].column>> = Position(tokens[k].start)
=============================================================================
