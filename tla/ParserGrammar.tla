--------------------------- MODULE ParserGrammar ---------------------------
(***************************************************************************)
(* What parse_sql_script has to accept, to return and to complain about.   *)
(***************************************************************************)
EXTENDS Parser, Lexemes, Grammar

\* The tokens before TOKEN_END.
Written == Len(tokens) - 1

\* parse_sql_script succeeds on the scripts of the grammar and on no others, and
\* the statements are those of the text, in its order, with their names and
\* values; a script with an error yields no statement at all.
AcceptsTheGrammar ==
  /\ phase = "done" => IsScript(tokens, Written) /\ script = ScriptOf(tokens, Written)
  /\ phase = "failed" /\ Tokenized => ~IsScript(tokens, Written)
  /\ phase = "failed" => script = <<>>

\* The token that an error message points at is the first one at which the
\* script can no longer become a legal one.
FirstErrorReported ==
  phase = "failed" /\ Tokenized =>
    \E bad \in DOMAIN tokens :
      /\ error = <<tokens[bad].line, tokens[bad].column>>
      /\ IsBeginning(tokens, bad - 1)
      /\ bad <= Written => ~IsBeginning(tokens, bad)
=============================================================================
