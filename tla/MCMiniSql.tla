----------------------------- MODULE MCMiniSql -----------------------------
(***************************************************************************)
(* Small instances of MiniSql: the alphabet, three tables, the statements  *)
(* and the scripts that the configurations of this module choose from.     *)
(***************************************************************************)
EXTENDS MiniSqlRefinement

MCChar    == {Bslash, LF, CR, "|", "n", "r", "a", "A", "b", "B"}
MCToLower == [c \in MCChar |-> IF c = "A" THEN "a" ELSE IF c = "B" THEN "b" ELSE c]

\* "t" has the columns A and b, "v" the column a, "u" has no schema file and
\* the schema file of "w" is empty.
MCSchema == [t \in {"t", "u", "v", "w"} |->
               CASE t = "t" -> <<"A", "|", "b", CR, LF>>
                 [] t = "u" -> NoFile
                 [] t = "v" -> <<"a">>
                 [] t = "w" -> <<LF, "a">>]

-----------------------------------------------------------------------------
Insert_(t, columns, values) ==
  [type |-> "INSERT", table |-> t, columns |-> columns, values |-> values]

NoWhere     == [enabled |-> FALSE, column |-> <<>>, value |-> <<>>]
Where(c, v) == [enabled |-> TRUE, column |-> c, value |-> v]

SelectAll(t, where) ==
  [type |-> "SELECT", table |-> t, selectAll |-> TRUE, columns |-> <<>>, where |-> where]
Select_(t, columns, where) ==
  [type |-> "SELECT", table |-> t, selectAll |-> FALSE, columns |-> columns, where |-> where]

\* (b, a) named out of order and in the other case; a value that is a separator
\* and one that is a line break, so that escaping is what keeps the row whole.
InsertSwapped  == Insert_("t", <<<<"B">>, <<"a">>>>, <<<<"|">>, <<LF>>>>)
InsertPartly   == Insert_("t", <<<<"b">>>>, <<<<"n">>>>)
InsertTwice    == Insert_("t", <<<<"a">>, <<"A">>>>, <<<<"n">>, <<"r">>>>)
InsertMiscount == Insert_("t", <<<<"a">>>>, <<<<"n">>, <<"r">>>>)
InsertUnknown  == Insert_("t", <<<<"n">>>>, <<<<"n">>>>)
SelectWhere    == Select_("t", <<<<"b">>, <<"b">>, <<"A">>>>, Where(<<"B">>, <<"|">>))
SelectUnknown  == Select_("t", <<<<"a">>, <<"n">>>>, NoWhere)
WhereUnknown   == SelectAll("t", Where(<<"n">>, <<"n">>))

\* Rows of no more than six characters.
ConcurrentScripts ==
  { <<InsertSwapped, SelectAll("t", NoWhere)>>,
    <<InsertPartly, InsertTwice, InsertSwapped>>,
    <<SelectWhere, InsertSwapped>>,
    NoScript }
Database(t, v) == [x \in {"t", "u", "v", "w"} |->
                     CASE x = "t" -> t [] x = "v" -> v [] OTHER -> NoFile]
ConcurrentData == {Database(data, <<>>) :
                     data \in {<<>>, <<"a", "|", Bslash, "|", CR, LF>>}}

\* One invocation after the other statement: every way a statement can fail,
\* each after a statement that succeeds, in tables with and without files.
SequentialScripts ==
  { <<first, second, SelectAll("t", NoWhere)>> :
      first  \in {InsertSwapped, SelectWhere, SelectAll("t", NoWhere)},
      second \in {InsertPartly, InsertTwice, InsertMiscount, InsertUnknown,
                  SelectUnknown, WhereUnknown,
                  Insert_("u", <<<<"a">>>>, <<<<"n">>>>), SelectAll("u", NoWhere),
                  Insert_("w", <<<<"a">>>>, <<<<"n">>>>), SelectAll("w", NoWhere),
                  Insert_("v", <<<<"A">>>>, <<<<CR, "|">>>>), SelectAll("v", NoWhere)} }
SequentialData == {Database(data, NoFile) : data \in {<<"n", "|", LF>>, NoFile}}

\* Data files that the program did not write, or did not finish writing: no
\* final newline, a row of which only the first value was written, too many or too
\* few values, a raw carriage return, and a line of three values that fgets takes
\* in two pieces of two.
HostileScripts == { <<InsertPartly, SelectAll("t", NoWhere)>>,
                    <<SelectWhere, Insert_("u", <<<<"a">>>>, <<<<"n">>>>)>>,
                    <<SelectWhere, SelectAll("w", NoWhere)>> }
HostileText == { <<"n">>, <<"n", "|", "n">>, <<LF>>, <<"|", CR, LF, "|", "|", LF>>,
                 <<"n", "|", "n", "n", "|", "r", LF>> }
HostileData == {Database(data, NoFile) : data \in HostileText \cup {NoFile}}

\* Two invocations on the same files.  InsertSwapped writes six characters: two
\* writes, and two pieces of two values each, none of which was inserted.
DisorderedScripts == { <<InsertPartly, SelectAll("t", NoWhere)>>,
                       <<InsertSwapped, SelectWhere>>,
                       <<SelectAll("t", NoWhere)>> }
DisorderedData == {Database(data, <<>>) : data \in HostileText \cup {<<>>}}

\* The scripts of the configurations that show where the program breaks its promises.
LostScripts     == { <<Insert_("v", <<<<"a">>>>, <<<<"n">>>>)>> }
RaceScripts     == { <<InsertPartly>>, <<SelectAll("t", NoWhere)>> }
LongRowScripts  == { <<Insert_("v", <<<<"a">>>>, <<<<"n", "n", "n", "n">>>>),
                       SelectAll("v", NoWhere)>> }
SelectScripts   == { <<SelectAll("t", NoWhere)>> }
OneRowData      == { Database(<<"n", "|", LF>>, NoFile) }
EmptyData       == { Database(<<>>, <<>>) }
NoData          == { Database(NoFile, NoFile) }
=============================================================================
