------------------------------ MODULE MCParser ------------------------------
(***************************************************************************)
(* The tokenizer and the parser on every short text over the characters    *)
(* that begin or end lexical elements, on two scripts, and on every text   *)
(* that one character more, less or other makes of these.  Reserved words  *)
(* have one letter here.                                                   *)
(***************************************************************************)
EXTENDS StatementPaths, ParserGrammar

CONSTANT MaxLength     \* bound on the short texts

MCLetter  == {"I", "N", "V", "S", "s", "F", "W", "a", "b"}
MCChar    == MCLetter \cup {"1", " ", LF, "-", "/", "'", ",", ".", "(", ")", ";", "*", "="}
MCToLower == [c \in MCChar |-> IF c = "S" THEN "s" ELSE c]
MCDbRoot  == <<"d", "b">>
MCKeyword == <<"I">> :> "INSERT" @@ <<"N">> :> "INTO" @@ <<"V">> :> "VALUES"
             @@ <<"S">> :> "SELECT" @@ <<"F">> :> "FROM" @@ <<"W">> :> "WHERE"

Both  == <<"S", " ", "a", ",", "b", " ", "F", LF, "a", ".", "b", " ", "W", " ", "b", "=", "1", ";",
           "I", " ", "N", " ", "b", "(", "b", ",", "a", ")", "V", "(", "'", " ", "'", ",", "a", ")">>
Short == <<";", "s", "*", "F", " ", "b", ";", ";", "S", " ", "a", " ", "F", " ", "a">>

ShortTexts == UNION {[1 .. n -> {"1", "-", "/", "*", "'", LF, "N", " "}] : n \in 0 .. MaxLength}

ChangedScripts ==
  UNION { LET cut(i, j, new) == SubSeq(text, 1, i - 1) \o new \o SubSeq(text, j, Len(text))
          IN  {cut(i, i + n, new) : i \in DOMAIN text, n \in {0, 1},
                                    new \in {<<>>} \cup {<<c>> : c \in MCChar}}
          : text \in {Both, Short} }

MCSource == ShortTexts \cup ChangedScripts

-----------------------------------------------------------------------------
\* parse_sql_script returns, whatever the script.
ParserReturns == <>(phase \in {"done", "failed"})
=============================================================================
