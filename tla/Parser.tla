------------------------------- MODULE Parser -------------------------------
(***************************************************************************)
(* parse_sql_script of src/parser.c: tokenize_sql first, then a descent    *)
(* over the tokens that never goes back.  A step reads one element of the  *)
(* grammar; rule says which element comes next.                            *)
(***************************************************************************)
EXTENDS Tokenizer

VARIABLES current,     \* index of the next token
          rule,        \* where parse_sql_script, parse_insert or parse_select is
          statement,   \* the statement under construction
          script       \* the statements appended to the script

parsing == <<current, rule, statement, script>>
pvars   == <<tvars, parsing>>

NoStatement == [type |-> "none"]
NoWhere     == [enabled |-> FALSE, column |-> <<>>, value |-> <<>>]

\* A table is named by one identifier, or by two with a dot in between.
TableNames == Seq(Text)
StatementRecord ==
  {NoStatement}
    \cup [type : {"INSERT"}, table : TableNames, columns : Seq(Text), values : Seq(Text)]
    \cup [type : {"SELECT"}, table : TableNames, selectAll : BOOLEAN, columns : Seq(Text),
          where : [enabled : BOOLEAN, column : Text, value : Text]]

ParserInit ==
  /\ TokenizerInit
  /\ current = 1
  /\ rule = "statement"
  /\ statement = NoStatement
  /\ script = <<>>

-----------------------------------------------------------------------------
Peek    == tokens[current]
Comma   == tokens[current + 1].type = ","
Literal == {"STRING", "NUMBER", "IDENTIFIER"}

\* The token types with which each element may begin.
Accepts == [statement   |-> {";", "INSERT", "SELECT", "END"},
            into        |-> {"INTO"},
            table       |-> {"IDENTIFIER"},
            qualified   |-> {"IDENTIFIER"},
            openColumns |-> {"("},
            selection   |-> {"*", "IDENTIFIER"},
            columns     |-> {"IDENTIFIER"},
            closeColumns |-> {")"},
            values      |-> {"VALUES"},
            openValues  |-> {"("},
            literals    |-> Literal,
            closeValues |-> {")"},
            from        |-> {"FROM"},
            whereColumn |-> {"IDENTIFIER"},
            equal       |-> {"="},
            whereValue  |-> Literal]

\* The elements that are one given token, and what comes after them.
After == [into         |-> "table",
          openColumns  |-> "columns",
          closeColumns |-> "values",
          values       |-> "openValues",
          openValues   |-> "literals",
          closeValues  |-> "end",
          from         |-> "table",
          equal        |-> "whereValue"]

AfterTable   == IF statement.type = "INSERT" THEN "openColumns" ELSE "where"
AfterColumns == IF statement.type = "INSERT" THEN "closeColumns" ELSE "from"

\* The parser is at one of these elements and the token is one it accepts.
Parsing(rules) ==
  /\ phase = "parse" /\ rule \in rules
  /\ Peek.type \in Accepts[rule]
  /\ UNCHANGED tvars

Advance(count, next) == current' = current + count /\ rule' = next

\* Mutant: a comma after the last item is skipped.
NextItem_Trailing(next) ==
  IF Comma /\ tokens[current + 2].type \in Literal
  THEN Advance(2, IF rule = "selection" THEN "columns" ELSE rule)
  ELSE Advance(IF Comma THEN 2 ELSE 1, next)

\* match(parser, TOKEN_COMMA) after an item of a list.
NextItem(next) == IF Comma THEN Advance(2, IF rule = "selection" THEN "columns" ELSE rule)
                           ELSE Advance(1, next)

-----------------------------------------------------------------------------
(* parse_sql_script between statements.                                    *)

\* Mutant: the empty statement is looked at, not consumed.
SkipSemicolon_Peeks ==
  /\ Parsing({"statement"}) /\ Peek.type = ";"
  /\ Advance(0, "statement")
  /\ UNCHANGED <<statement, script>>

SkipSemicolon ==
  /\ Parsing({"statement"}) /\ Peek.type = ";"
  /\ Advance(1, "statement")
  /\ UNCHANGED <<statement, script>>

BeginInsert ==
  /\ Parsing({"statement"}) /\ Peek.type = "INSERT"
  /\ Advance(1, "into")
  /\ statement' = [type |-> "INSERT", table |-> <<>>, columns |-> <<>>, values |-> <<>>]
  /\ UNCHANGED script

BeginSelect ==
  /\ Parsing({"statement"}) /\ Peek.type = "SELECT"
  /\ Advance(1, "selection")
  /\ statement' = [type |-> "SELECT", table |-> <<>>, selectAll |-> FALSE,
                   columns |-> <<>>, where |-> NoWhere]
  /\ UNCHANGED script

\* Mutant: whatever follows the statement is taken for its semicolon.
EndStatement_Always ==
  /\ phase = "parse" /\ rule = "end"
  /\ script' = Append(script, statement)
  /\ statement' = NoStatement
  /\ Advance(1, "statement")
  /\ UNCHANGED tvars

\* script_append, and the semicolon if there is one.
EndStatement ==
  /\ phase = "parse" /\ rule = "end"
  /\ script' = Append(script, statement)
  /\ statement' = NoStatement
  /\ Advance(IF Peek.type = ";" THEN 1 ELSE 0, "statement")
  /\ UNCHANGED tvars

EndOfScript ==
  /\ phase = "parse" /\ rule = "statement" /\ Peek.type = "END"
  /\ phase' = "done"
  /\ UNCHANGED <<source, index, line, column, tokens, error, parsing>>

\* Mutant: parse_qualified_name points at the name before the dot.
SyntaxError_FirstName ==
  /\ phase = "parse" /\ rule \in DOMAIN Accepts
  /\ Peek.type \notin Accepts[rule]
  /\ phase' = "failed"
  /\ LET token == IF rule = "qualified" THEN tokens[current - 2] ELSE Peek
     IN  error' = <<token.line, token.column>>
  /\ script' = <<>>
  /\ UNCHANGED <<source, index, line, column, tokens, current, rule, statement>>

\* Every failure reports the token it met, and frees the script.
SyntaxError ==
  /\ phase = "parse" /\ rule \in DOMAIN Accepts
  /\ Peek.type \notin Accepts[rule]
  /\ phase' = "failed"
  /\ error' = <<Peek.line, Peek.column>>
  /\ script' = <<>>
  /\ UNCHANGED <<source, index, line, column, tokens, current, rule, statement>>

-----------------------------------------------------------------------------
(* The elements of parse_insert and parse_select.                          *)

Consume ==
  /\ Parsing(DOMAIN After)
  /\ Advance(1, After[rule])
  /\ UNCHANGED <<statement, script>>

\* The identifier before the dot, with the dot, or the whole name of the table.
TableName ==
  /\ Parsing({"table"})
  /\ statement' = [statement EXCEPT !.table = <<Peek.lexeme>>]
  /\ IF tokens[current + 1].type = "." THEN Advance(2, "qualified")
                                       ELSE Advance(1, AfterTable)
  /\ UNCHANGED script

QualifiedName ==
  /\ Parsing({"qualified"})
  /\ statement' = [statement EXCEPT !.table = Append(@, Peek.lexeme)]
  /\ Advance(1, AfterTable)
  /\ UNCHANGED script

AllColumns ==
  /\ Parsing({"selection"}) /\ Peek.type = "*"
  /\ statement' = [statement EXCEPT !.selectAll = TRUE]
  /\ Advance(1, "from")
  /\ UNCHANGED script

ColumnName ==
  /\ Parsing({"selection", "columns"}) /\ Peek.type = "IDENTIFIER"
  /\ statement' = [statement EXCEPT !.columns = Append(@, Peek.lexeme)]
  /\ NextItem(AfterColumns)
  /\ UNCHANGED script

Value ==
  /\ Parsing({"literals"})
  /\ statement' = [statement EXCEPT !.values = Append(@, Peek.lexeme)]
  /\ NextItem("closeValues")
  /\ UNCHANGED script

Where ==
  /\ phase = "parse" /\ rule = "where"
  /\ IF Peek.type = "WHERE" THEN Advance(1, "whereColumn") ELSE Advance(0, "end")
  /\ UNCHANGED <<tvars, statement, script>>

WhereColumn ==
  /\ Parsing({"whereColumn"})
  /\ statement' = [statement EXCEPT !.where.enabled = TRUE, !.where.column = Peek.lexeme]
  /\ Advance(1, "equal")
  /\ UNCHANGED script

WhereValue ==
  /\ Parsing({"whereValue"})
  /\ statement' = [statement EXCEPT !.where.value = Peek.lexeme]
  /\ Advance(1, "end")
  /\ UNCHANGED script

Parse == \/ SkipSemicolon \/ BeginInsert \/ BeginSelect \/ EndStatement
         \/ EndOfScript \/ SyntaxError \/ Consume \/ TableName \/ QualifiedName
         \/ AllColumns \/ ColumnName \/ Value \/ Where \/ WhereColumn \/ WhereValue

ParserNext == (Tokenize /\ UNCHANGED parsing) \/ Parse

ParserSpec == ParserInit /\ [][ParserNext]_pvars /\ WF_pvars(ParserNext)

-----------------------------------------------------------------------------
\* The cursor never passes TOKEN_END, so peek never reads behind the tokens; the
\* variables keep their shape.
ParserTypeOK ==
  /\ phase \in {"tokenize", "parse", "done", "failed"}
  /\ phase = "parse" => current \in DOMAIN tokens
  /\ rule \in DOMAIN Accepts \cup {"where", "end"}
  /\ statement \in StatementRecord
  /\ script \in Seq(StatementRecord)
=============================================================================
