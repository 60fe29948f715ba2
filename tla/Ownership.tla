----------------------------- MODULE Ownership -----------------------------
(***************************************************************************)
(* Which variable owns which block of memory in one invocation of mini_sql:*)
(* what each function allocates, hands over and frees, on the way through  *)
(* and on every early return.  A stream counts as a block: fopen allocates *)
(* it and fclose frees it.                                                 *)
(*                                                                         *)
(* The program is a table: for each function, its steps in the order of    *)
(* the source.  A cell is a C variable or a field; it holds the blocks it  *)
(* points to.  Texts and counts are left out: a call or a test that can    *)
(* fail may fail whenever it is reached.                                   *)
(***************************************************************************)
EXTENDS Integers, FiniteSets, SequencesExt, TLC

CONSTANTS MayFail,        \* the steps <<function, step>> that fail
          MaxLoops,       \* bound: times a call of a function goes back in its loops
          MaxStatements   \* bound: statements of the script

VARIABLES stack,          \* the active calls, each with its current step
          returned,       \* "none", or what the call that just returned yields
          mem,            \* memory: the cells, the live blocks, has one been misused
          script          \* the statements that are not executed yet

vars == <<stack, returned, mem, script>>

-----------------------------------------------------------------------------
(* Cells.                                                                  *)

\* A plain pointer still points to its block once that is freed; the functions
\* that free the other cells reset them.
Plain  == {"source", "file", "literal", "whereColumn", "whereValue", "content", "field",
           "assigned", "row", "selected", "dataFile", "parent", "path", "widths"}
Names  == {"target", "name", "paths"}       \* two pointers, allocated together
Lists  == {"tokens", "columns", "values", "tableColumns", "ordered", "projected",
           "rowValues", "rowProjection", "resultColumns", "resultRow"}   \* array and strings
Arrays == {"script", "escaped", "resultRows"}     \* what is put into them has been allocated before
Cells  == Plain \cup Names \cup Lists \cup Arrays

Parsed == <<"target", "columns", "values", "whereColumn", "whereValue">>
Result == <<"resultColumns", "resultRows">>
Table  == <<"name", "tableColumns", "paths">>

\* The variables that disappear when a function returns.
Locals ==
  [main |-> {"source", "script", "resultColumns", "resultRows"},
   parse_sql_script |-> {"tokens"} \cup Range(Parsed),
   read_string_token |-> {"literal"},
   load_table_definition |-> {"content"},
   append_insert_row |-> {"ordered", "assigned", "row"} \cup Range(Table),
   serialize_row |-> {"escaped"},
   write_mode_file |-> {"file"},
   ensure_parent_directory |-> {"parent"},
   ensure_directory_recursive |-> {"path"},
   run_select_query |-> {"projected", "selected", "dataFile", "rowValues", "rowProjection"}
                        \cup Range(Table),
   query_result_append_row |-> {"resultRow"},
   print_execution_result |-> {"widths"}]
  @@ [f \in {"read_text_file(source)", "read_text_file(schema)"} |-> {"file"}]
  @@ [f \in {"split_pipe_line(schema)", "split_pipe_line(row)"} |-> {"field"}]
  @@ [f \in {"tokenize_sql", "parse_insert", "parse_select", "execute_statement"} |-> {}]

Held(m) == UNION {m.cell[c] : c \in Cells}

-----------------------------------------------------------------------------
(* What calls do to memory.                                                *)

NewBlocks(m, n) ==
  LET unused == (1 .. Cardinality(Held(m) \cup m.heap) + n) \ (Held(m) \cup m.heap)
  IN  CHOOSE S \in SUBSET unused : Cardinality(S) = n /\ \A b \in S, u \in unused \ S : b < u

\* malloc, sql_strdup, fopen, string_list_append: a pointer is set to a new
\* block, a list holds n blocks more.
Grow(m, c, n) ==
  [m EXCEPT !.cell[c] = NewBlocks(m, n) \cup IF c \in Plain THEN {} ELSE @,
            !.heap = @ \cup NewBlocks(m, n)]

\* Mutant: what is freed is not reset.
FreeCell_Dangling(m, c) ==
  [m EXCEPT !.heap = @ \ m.cell[c], !.misused = @ \/ ~(m.cell[c] \subseteq m.heap)]

\* free, string_list_free, free_qualified_name and the like.  To free a block
\* that is not live is to misuse it; free(NULL) is allowed.
FreeCell(m, c) ==
  [cell    |-> [m.cell EXCEPT ![c] = IF c \in Plain THEN @ ELSE {}],
   heap    |-> m.heap \ m.cell[c],
   misused |-> m.misused \/ ~(m.cell[c] \subseteq m.heap)]

Free(m, cs) == FoldLeft(FreeCell, m, cs)

\* Every cell of cs is read: it must point to something, and that must be live.
Read(m, cs) ==
  [m EXCEPT !.misused = @ \/ \E c \in cs : m.cell[c] = {} \/ ~(m.cell[c] \subseteq m.heap)]

\* The cells of cs go out of scope.
Forget(m, cs) == [m EXCEPT !.cell = [c \in Cells |-> IF c \in cs THEN {} ELSE @[c]]]

\* The blocks of the cells in from become those of the cell to.
Give(m, from, to) ==
  Forget([m EXCEPT !.cell[to] = @ \cup UNION {m.cell[c] : c \in from}], from)

-----------------------------------------------------------------------------
(* The program.  A step does something: it fills a cell, calls a function  *)
(* or only checks something.  When that succeeds the step frees some cells *)
(* and goes on to one of the steps in then, or back to one of those in     *)
(* again.  When it fails, the cells in undo are freed, in this order, and  *)
(* the function returns false.                                             *)

Loop(does, frees, then, again, undo) ==
  [does |-> does, frees |-> frees, then |-> then, again |-> again, undo |-> undo]

Step(does, frees, then, undo) == Loop(does, frees, then, {}, undo)

Main ==
  [start   |-> Step("read_text_file(source)", <<>>, {"parse"}, <<>>),
   parse   |-> Step("parse_sql_script", <<>>, {"execute", "end"}, <<"source">>),
   execute |-> Step("execute_statement", <<>>, {"print"}, Result \o <<"script", "source">>),
   print   |-> Step("print_execution_result", <<>>, {"report"}, <<>>),
   report  |-> Step("check", Result, {"execute", "end"}, <<>>),
   end     |-> Step("check", <<"script", "source">>, {"return"}, <<>>)]

\* Without memory for the widths nothing is drawn, and main goes on.
PrintExecutionResult ==
  [start  |-> Step("check", <<>>, {"return", "widths"}, <<>>),
   widths |-> Step("widths", <<"widths">>, {"return"}, <<>>)]

ReadTextFile(buffer) ==
  [start |-> Step("file", <<>>, {"seek"}, <<>>),
   seek  |-> Step("check", <<>>, {"alloc"}, <<"file">>),
   alloc |-> Step(buffer, <<>>, {"read"}, <<"file">>),
   read  |-> Step("check", <<"file">>, {"return"}, <<"file", buffer>>)]

TokenizeSql ==
  [start  |-> Loop("check", <<>>, {"end"}, {"word", "string"}, <<"tokens">>),
   word   |-> Step("tokens", <<>>, {"start"}, <<"tokens">>),
   string |-> Step("read_string_token", <<>>, {"start"}, <<"tokens">>),
   end    |-> Step("tokens", <<>>, {"return"}, <<"tokens">>)]

ReadStringToken ==
  [start  |-> Step("literal", <<>>, {"more", "close"}, <<>>),
   more   |-> Step("check", <<>>, {"close"}, <<"literal">>),
   close  |-> Step("check", <<>>, {"append"}, <<"literal">>),
   append |-> Step("tokens", <<>>, {"return"}, <<"literal">>)]

ParseSqlScript ==
  [start  |-> Step("tokenize_sql", <<>>, {"next"}, <<>>),
   next   |-> Step("check", <<>>, {"insert", "select", "end"}, <<"tokens", "script">>),
   insert |-> Step("parse_insert", <<>>, {"append"}, <<"tokens", "script">>),
   select |-> Step("parse_select", <<>>, {"append"}, <<"tokens", "script">>),
   append |-> Step("script", <<>>, {"next"}, Parsed \o <<"tokens", "script">>),
   end    |-> Step("check", <<"tokens">>, {"return"}, <<>>)]

ParseInsert ==
  [start   |-> Step("check", <<>>, {"target"}, <<>>),
   target  |-> Step("target", <<>>, {"open"}, <<"target">>),
   open    |-> Step("check", <<>>, {"columns"}, <<"target">>),
   columns |-> Loop("columns", <<>>, {"close"}, {"columns"}, <<"columns", "target">>),
   close   |-> Step("check", <<>>, {"values"}, <<"target", "columns">>),
   values  |-> Loop("values", <<>>, {"end"}, {"values"}, <<"values", "target", "columns">>),
   end     |-> Step("check", <<>>, {"return"}, <<"target", "columns", "values">>)]

\* sql_strdup of the WHERE column is the one allocation whose result is not
\* looked at: without memory the parser goes on from "where" to "equal".
ParseSelect ==
  [start       |-> Step("check", <<>>, {"columns", "from"}, <<>>),
   columns     |-> Loop("columns", <<>>, {"from"}, {"columns"}, <<"columns">>),
   from        |-> Step("check", <<>>, {"target"}, <<"columns">>),
   target      |-> Step("target", <<>>, {"return", "where"}, <<"target", "columns">>),
   where       |-> Step("check", <<>>, {"whereColumn", "equal"}, <<"columns", "target">>),
   whereColumn |-> Step("whereColumn", <<>>, {"equal"}, <<>>),
   equal       |-> Step("check", <<>>, {"whereValue"}, <<"columns", "target", "whereColumn">>),
   whereValue  |-> Step("whereValue", <<>>, {"return"}, <<"columns", "target", "whereColumn">>)]

ExecuteStatement ==
  [start  |-> Step("check", <<>>, {"insert", "select"}, <<>>),
   insert |-> Step("append_insert_row", <<>>, {"return"}, <<>>),
   select |-> Step("run_select_query", <<>>, {"return"}, <<>>)]

\* Without memory for an empty value (malloc(1)) the values are not freed.
SplitPipeLine(values) ==
  [start  |-> Step("check", <<>>, {"char", "empty"}, <<>>),
   char   |-> Step("field", <<>>, {"append", "more"}, <<values>>),
   more   |-> Step("check", <<>>, {"append"}, <<"field", values>>),
   empty  |-> Step("field", <<>>, {"append"}, <<>>),
   append |-> Loop(values, <<"field">>, {"return"}, {"char", "empty"}, <<"field", values>>)]

\* Mutant: the text of the schema file is kept when it cannot be split.
LoadTableDefinition_ContentKept ==
  [start |-> Step("paths", <<>>, {"name"}, <<"paths">>),
   name  |-> Step("name", <<>>, {"read"}, Table),
   read  |-> Step("read_text_file(schema)", <<>>, {"split"}, Table),
   split |-> Step("split_pipe_line(schema)", <<>>, {"check"}, Table),
   check |-> Step("check", <<"content">>, {"return"}, <<"content">> \o Table)]

LoadTableDefinition ==
  [start |-> Step("paths", <<>>, {"name"}, <<"paths">>),
   name  |-> Step("name", <<>>, {"read"}, Table),
   read  |-> Step("read_text_file(schema)", <<>>, {"split"}, Table),
   split |-> Step("split_pipe_line(schema)", <<>>, {"check"}, <<"content">> \o Table),
   check |-> Step("check", <<"content">>, {"return"}, <<"content">> \o Table)]

\* assign replaces one block of ordered by another.
AppendInsertRow ==
  LET all == Table \o <<"ordered", "assigned">>
  IN  [start    |-> Step("check", <<>>, {"load"}, <<>>),
       load     |-> Step("load_table_definition", <<>>, {"assigned"}, <<>>),
       assigned |-> Step("assigned", <<>>, {"ordered"}, Table),
       ordered  |-> Loop("ordered", <<>>, {"assign"}, {"ordered"}, all),
       assign   |-> Step("check", <<>>, {"row"}, all),
       row      |-> Step("serialize_row", <<>>, {"write"}, all),
       write    |-> Step("write_mode_file", <<"row">> \o all, {"return"}, <<"row">> \o all)]

SerializeRow ==
  [start  |-> Step("escaped", <<>>, {"field"}, <<>>),
   field  |-> Loop("escaped", <<>>, {"output"}, {"field"}, <<"escaped">>),
   output |-> Step("row", <<"escaped">>, {"return"}, <<"escaped">>)]

WriteModeFile ==
  [start |-> Step("ensure_parent_directory", <<>>, {"open"}, <<>>),
   open  |-> Step("file", <<>>, {"write"}, <<>>),
   write |-> Step("check", <<"file">>, {"return"}, <<"file">>)]

EnsureParentDirectory ==
  [start |-> Step("parent", <<>>, {"make"}, <<>>),
   make  |-> Step("ensure_directory_recursive", <<"parent">>, {"return"}, <<"parent">>)]

EnsureDirectoryRecursive ==
  [start |-> Step("check", <<>>, {"return", "copy"}, <<>>),
   copy  |-> Step("path", <<>>, {"mkdir"}, <<>>),
   mkdir |-> Step("check", <<"path">>, {"return"}, <<"path">>)]

\* A column that is not the first to be looked up is looked up by nextColumn;
\* that it is unknown leaves the columns projected so far to nobody.
RunSelectQuery ==
  LET unopened == <<"selected">> \o Table \o <<"projected">>
      open     == <<"dataFile", "selected">> \o Table
      full     == open \o <<"rowValues", "rowProjection">> \o Result
  IN  [start      |-> Step("load_table_definition", <<>>, {"all", "chosen"}, <<>>),
       all        |-> Loop("projected", <<>>, {"allIndexes"}, {"all"}, Table \o <<"projected">>),
       allIndexes |-> Step("selected", <<>>, {"where", "open", "missing"}, Table \o <<"projected">>),
       chosen     |-> Step("selected", <<>>, {"column"}, Table),
       column     |-> Step("check", <<>>, {"project"}, <<"selected">> \o Table),
       nextColumn |-> Step("check", <<>>, {"project"}, <<"selected">> \o Table),
       project    |-> Loop("projected", <<>>, {"where", "open", "missing"}, {"nextColumn"}, unopened),
       where      |-> Step("check", <<>>, {"open", "missing"}, unopened),
       open       |-> Step("dataFile", <<>>, {"result"}, <<>>),
       missing    |-> Step("ensure_parent_directory", <<>>, {"create"}, unopened),
       create     |-> Step("write_mode_file", <<>>, {"reopen"}, unopened),
       reopen     |-> Step("dataFile", <<>>, {"result"}, unopened),
       result     |-> Step("check", <<>>, {"fetch", "close"}, <<>>),
       fetch      |-> Step("split_pipe_line(row)", <<>>, {"count"}, open \o Result),
       count      |-> Step("check", <<>>, {"skip", "take"}, open \o <<"rowValues">> \o Result),
       skip       |-> Loop("check", <<"rowValues">>, {"close"}, {"fetch"}, <<>>),
       take       |-> Loop("rowProjection", <<>>, {"keep"}, {"take"}, full),
       keep       |-> Loop("query_result_append_row", <<"rowValues", "rowProjection">>,
                           {"close"}, {"fetch"}, full),
       close      |-> Step("check", open, {"return"}, <<>>)]

QueryResultAppendRow ==
  [start |-> Step("resultRows", <<>>, {"copy"}, <<>>),
   copy  |-> Loop("resultRow", <<>>, {"count"}, {"copy"}, <<"resultRow">>),
   count |-> Step("check", <<>>, {"return"}, <<>>)]

Program ==
  [main |-> Main, parse_sql_script |-> ParseSqlScript, tokenize_sql |-> TokenizeSql,
   read_string_token |-> ReadStringToken, parse_insert |-> ParseInsert,
   parse_select |-> ParseSelect, execute_statement |-> ExecuteStatement,
   load_table_definition |-> LoadTableDefinition, append_insert_row |-> AppendInsertRow,
   serialize_row |-> SerializeRow, write_mode_file |-> WriteModeFile,
   ensure_parent_directory |-> EnsureParentDirectory,
   ensure_directory_recursive |-> EnsureDirectoryRecursive,
   run_select_query |-> RunSelectQuery, query_result_append_row |-> QueryResultAppendRow,
   print_execution_result |-> PrintExecutionResult]
  @@ "read_text_file(source)"  :> ReadTextFile("source")
  @@ "read_text_file(schema)"  :> ReadTextFile("content")
  @@ "split_pipe_line(schema)" :> SplitPipeLine("tableColumns")
  @@ "split_pipe_line(row)"    :> SplitPipeLine("rowValues")

\* What a step reads before it does anything, and what its error message reads
\* after the cells in undo are freed.
Uses ==
     <<"load_table_definition", "split">> :> {"content"}
  @@ <<"append_insert_row", "assign">>    :> {"script", "tableColumns", "assigned"}
  @@ <<"append_insert_row", "write">>     :> {"row", "paths"}
  @@ <<"run_select_query", "open">>       :> {"script", "tableColumns", "paths"}
  @@ <<"run_select_query", "fetch">>      :> {"dataFile"}
  @@ <<"run_select_query", "take">>       :> {"selected", "rowValues"}
  @@ <<"query_result_append_row", "copy">> :> {"resultRows", "rowProjection"}
  @@ <<"print_execution_result", "widths">> :> {"resultColumns"}

Messages ==
     <<"load_table_definition", "check">> :> {"paths"}
  @@ <<"append_insert_row", "assign">>    :> {"script"}
  @@ <<"run_select_query", "where">>      :> {"script"}

CellsOf(table, at) == IF at \in DOMAIN table THEN table[at] ELSE {}

-----------------------------------------------------------------------------
(* Execution.                                                              *)

Init ==
  /\ stack = <<[fn |-> "main", step |-> "start", loops |-> 0]>>
  /\ returned = "none"
  /\ mem = [cell |-> [c \in Cells |-> {}], heap |-> {}, misused |-> FALSE]
  /\ script = <<>>

Top  == Last(stack)
At   == <<Top.fn, Top.step>>
Here == Program[Top.fn][Top.step]

\* What kind of statement has been parsed.
Kind(m) ==
  CASE m.cell["values"] # {}      -> "INSERT"
    [] m.cell["whereValue"] = {}  -> "SELECT"
    [] m.cell["whereColumn"] = {} -> "SELECT WHERE NULL"
    [] OTHER                      -> "SELECT WHERE"

NullColumn == <<"parse_select", "whereColumn">> \in MayFail

\* The branches of the code that do not depend on what is left out.
Takes(next) ==
  CASE Top.fn = "main" /\ next = "execute" -> script' # <<>>
    [] Top.fn = "main" /\ next = "end"     -> script' = <<>>
    [] Top.fn = "parse_sql_script" /\ next \in {"insert", "select"} -> Len(script) < MaxStatements
    [] At = <<"parse_select", "where">> /\ next = "equal" -> NullColumn
    [] Top.fn = "execute_statement" /\ next = "insert" -> Head(script) = "INSERT"
    [] Top.fn = "execute_statement" /\ next = "select" -> Head(script) # "INSERT"
    [] Top.fn = "print_execution_result" /\ next = "widths" -> Head(script) # "INSERT"
    [] Top.fn = "run_select_query" /\ next = "where"   -> Head(script) # "SELECT"
    [] Top.fn = "run_select_query" /\ Top.step # "where" /\ next \in {"open", "missing"} ->
         Head(script) = "SELECT"
    [] OTHER -> TRUE

\* What the step hands over.
HandedOver(m) ==
  CASE At = <<"read_string_token", "append">> -> Give(m, {"literal"}, "tokens")
    [] At = <<"parse_sql_script", "append">>  -> Give(m, Range(Parsed), "script")
    [] At = <<"query_result_append_row", "count">> -> Give(m, {"resultRow"}, "resultRows")
    [] At = <<"run_select_query", "result">>  ->
         [m EXCEPT !.cell["resultColumns"] = m.cell["projected"]]
    [] OTHER -> m

\* The step has succeeded, and has left memory as m.
Proceed(m) ==
  LET done == Free(HandedOver(m), Here.frees)
      goTo(next, loops) ==
        /\ Takes(next)
        /\ stack' = [stack EXCEPT ![Len(stack)] = [@ EXCEPT !.step = next, !.loops = loops]]
        /\ returned' = "none"
        /\ mem' = done
  IN  /\ script' = CASE At = <<"parse_sql_script", "append">> -> Append(script, Kind(m))
                     [] At = <<"main", "report">>             -> Tail(script)
                     [] OTHER                                 -> script
      /\ \/ \E next \in Here.then \ {"return"} : goTo(next, Top.loops)
         \/ Top.loops < MaxLoops /\ \E next \in Here.again : goTo(next, Top.loops + 1)
         \/ /\ "return" \in Here.then
            /\ stack' = Front(stack)
            /\ returned' = "true"
            /\ mem' = Forget(done, Locals[Top.fn])

Running == stack # <<>> /\ returned = "none"

\* What the step reads.  find_column_index is given the column of the WHERE
\* clause, also when the parser has let NULL pass.
InUse == CellsOf(Uses, At) \cup
         IF At = <<"run_select_query", "where">> /\ Head(script) = "SELECT WHERE NULL"
         THEN {"whereColumn"} ELSE {}

\* A test that succeeds, and the work on what has been allocated before.
Check == Running /\ Here.does = "check" /\ Proceed(Read(mem, InUse))

\* An allocation that succeeds.  A table name may have no schema part.
Allocate ==
  /\ Running
  /\ Here.does \in Cells
  /\ \E n \in IF Here.does \notin Names THEN {1} ELSE IF Here.does = "paths" THEN {2} ELSE {1, 2} :
       Proceed(Grow(Read(mem, InUse), Here.does, n))

Call ==
  /\ Running
  /\ Here.does \in DOMAIN Program
  /\ stack' = Append(stack, [fn |-> Here.does, step |-> "start", loops |-> 0])
  /\ mem' = Read(mem, InUse)
  /\ UNCHANGED <<returned, script>>

\* The function that the step has called has returned true.
CallSucceeds == stack # <<>> /\ returned = "true" /\ Proceed(mem)

\* The step fails, of itself or because the function it has called has: the early
\* return.  Of two pointers one may have been allocated, of a list its array.
Fail ==
  /\ stack # <<>>
  /\ \/ returned = "false"
     \/ Running /\ At \in MayFail /\ Here.does \notin DOMAIN Program
  /\ \E n \in IF returned = "none" /\ Here.does \in Names \cup Lists THEN {0, 1} ELSE {0} :
       mem' = Forget(Read(Free(IF n = 0 THEN mem ELSE Grow(mem, Here.does, n), Here.undo),
                          CellsOf(Messages, At)),
                     Locals[Top.fn])
  /\ stack' = Front(stack)
  /\ returned' = "false"
  /\ UNCHANGED script

\* main has returned.
Exited == stack = <<>> /\ UNCHANGED vars

Next == Check \/ Allocate \/ Call \/ CallSucceeds \/ Fail \/ Exited

Spec == Init /\ [][Next]_vars

-----------------------------------------------------------------------------
\* Every block and every stream that is live is one that a variable of an active
\* call can still free: no path, and no early return, leaks.
NothingLost == mem.heap \subseteq Held(mem)

\* Nothing is freed twice, and nothing is read that has been freed or that has
\* never been there: no path, and no error message, uses what is gone.
NoMisuse == ~mem.misused
=============================================================================
