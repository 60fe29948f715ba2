# mini_sql in TLA+

`mini_sql` is a command line program: it reads one SQL file, parses all of it,
and executes its `INSERT` and `SELECT` statements one after the other against a
directory of text files, a `.schema` and a `.data` file per table. There is no
server and no lock: two invocations on the same directory meet only in the
data files.

The project models that program: the reading of the SQL text, the row format,
what a statement computes, any number of invocations that interleave between
their system calls, are killed, and have calls fail, the directories they make,
the memory each function owns, the room in every growing buffer, and the table
that is printed. TLC checks small instances; TLAPS proves the results listed
under *What is proved* for every value of the constants.

## Inventory

| component | source | state it keeps | operations | modelled in |
|---|---|---|---|---|
| main loop | `src/main.c` | the script, index of the current statement, an error text | read arguments, read and parse the file, execute and print each statement, stop at the first error | `MiniSql`, `Ownership` |
| executor | `src/executor.c` | one `ExecutionResult` at a time | dispatch on the statement type, print, free | `MiniSql` (dispatch), `ResultTable` (drawing), `Ownership` |
| storage engine | `src/storage.c` | none between statements; files on disk; during a statement the `TableDefinition`, the serialized row, the stream, the `QueryResult` | `build_table_paths`, `load_table_definition`, `append_insert_row`, `run_select_query` | `TablePaths`, `Statements`, `MiniSql`, `Ownership` |
| row format | `src/storage.c:76-267` | none | `escape_field`, `serialize_row`, `split_pipe_line` | `RowFormat`, `Buffers`, `Ownership` |
| file utilities | `src/common.c` | none | read a file whole, write or append a text | `MiniSql` (writing), `Ownership` |
| directory creation | `src/common.c:180-258` | a copy of the path; the directories on disk | `ensure_parent_directory`, `ensure_directory_recursive` | `Directories` |
| string lists, case folding | `src/common.c:36-98` | `StringList` items, count, capacity | append, free, `sql_stricmp` | `Buffers`, `Characters` |
| tokenizer | `src/parser.c:47-387` | input position, line, column, the token list | one token, blank or comment per turn of its loop | `Tokenizer`, `Buffers` |
| parser | `src/parser.c:389-762` | token cursor, statement under construction, the script | descent over the tokens without backtracking | `Parser`; `MiniSql` takes parsed scripts as a constant |
| memory ownership | all of `src/` | who points to which block or stream | every `malloc`, `free`, `fopen`, `fclose`, hand-over and early return | `Ownership` |
| tests, scripts, Dockerfile | `tests/`, `scripts/`, `Dockerfile` | | | read as documentation; the Dockerfile fixes the C library (glibc) |

How they interact: `main` calls the parser once and the executor once per
statement; the executor calls one storage function; that function loads the
schema, then opens, writes or reads and closes the data file through stdio.
Nothing survives in memory from one statement to the next: all shared state is
in the files.

What is hard in this program:

- *Interleaving.* Another invocation can act between `fopen` and the write,
  between the two writes of a row longer than the stdio buffer, between two
  block reads of a `SELECT`, and between the `fopen("rb")` that fails and the
  `fopen("wb")` that answers it.
- *Failure in the middle.* `fputs` can write half of what it should; the write
  that matters for a short row happens inside `fclose`, whose result nobody
  looks at; `fgets` returns NULL for an error as for the end of the file.
- *Crashes.* A process can die between its two writes, or after the row is
  written and before `INSERT 1` is printed.
- *Format.* One malformed line makes a whole table unreadable, so no value may
  ever produce one: escapes, runs of backslashes, carriage returns, columns
  the statement leaves out.
- *Bounds.* `fgets` has a buffer of 4096 characters; buffers grow by tests and
  sums written out by hand, each of which must count the terminator.
- *Early returns.* `run_select_query` alone has twelve, with up to nine things to
  release at each, and errors that are reported after the release.
- *Directories.* They are made one at a time, from a copy of the path in which
  other characters separate the names than in the path that is opened.
- *Text.* Comments, numbers and literals begin with the same characters; every
  loop of the tokenizer looks ahead at the end of a text; a script with an error
  anywhere must yield no statement; messages must point at the right place.

What makes each part correct:

- tokenizer: it finds the lexical elements of the text, all of them, and their
  places, and never passes the terminator;
- parser: it accepts the grammar and nothing else, reads what the text says, and
  points at the first token that cannot be right;
- row format: reading inverts writing, a row is one line, reading is defined
  and agrees with an independent reading of the format on every line;
- statements: columns are found by name whatever their order and case, all
  checks are made before the data file is touched;
- invocations: an acknowledged row is never lost or torn; files only grow;
  every line stays a row; a `SELECT` never fails because another process is
  writing, never answers from a piece that has the wrong number of values, and
  answers from one instant of the table; every invocation ends.
- table paths: different tables, different files;
- result table: whatever the values, each is shown under its own column's name;
- buffers: nothing is written behind the end of one;
- memory: on every path, all that was acquired is released once, and nothing is
  used after its release;
- directories: a writer finds its parent directory, and makes no others.

The hazards behind these, each at its line, are in `PROJECT.json`.

## Modules

| module | what it is |
|---|---|
| `Characters` | texts as sequences of characters; `SameName` |
| `Tokenizer` | `tokenize_sql` as a state machine over the text |
| `Parser` | `parse_sql_script`: the tokenizer, then a state machine over the tokens |
| `Grammar` | the grammar as a definition on token sequences that does not scan: a statement is a stretch of tokens for which there are lengths of its lists that put every token in its place |
| `ParserGrammar` | what the parser has to accept, to return and to complain about |
| `Lexemes` | the lexical elements of a text, each by its own definition, and what a text holds when the longest one is always taken |
| `TablePaths` | `build_table_paths`: the files of a table name, as `snprintf` writes them |
| `StatementPaths` | the files of the statements that the parser hands over |
| `MCParser` | the instance of tokenizer, parser and paths that TLC checks |
| `Ordered` | the members of a set of positions, in order: what the scan-free definitions use |
| `RowFormat` | `EscapeChar`, `EscapeField`, `SerializeRow`, `SplitPipeLine` |
| `RowFormatCheck` | a scan-free reference definition of the row format, and a state space of all short lines |
| `ResultTable`, `ResultTableCheck` | what `print_execution_result` draws; how a reader of the terminal sees it |
| `Buffers` | every buffer that grows while it is filled: capacity, length, highest index written |
| `MCFormats` | `RowFormatCheck`, `ResultTableCheck` and `Buffers` side by side, for one run |
| `Statements` | what is computed from the schema: `LoadFails`, `FindColumnIndex`, `Insertable`, `OrderedValues`, `InsertLine`, `Selectable`, `Matches`, `Project` |
| `MiniSql` | the invocations: one program counter per process, the data files, one action per system call on them |
| `TableLog` | the abstract specification: a table is a sequence of rows that map column names to values; an `INSERT` appends, a `SELECT` answers, each at one instant |
| `MiniSqlRefinement` | the refinement mapping from `MiniSql` to `TableLog` |
| `MCMiniSql`, `MCConcurrent` | the instances TLC checks |
| `Directories`, `MCDirectories` | directory creation by several processes, one `mkdir` at a time |
| `Ownership`, `MCOwnership` | who owns each block and stream, on every path of every function |
| `SeqLemmas` | facts about sequences, flattening and order that several proofs use |
| `ParserProofs` | theorems about tokenizer, parser and table paths |
| `GrammarProofs` | theorems about the parser and the grammar |
| `RowFormatProofs`, `FormatsProofs` | theorems about the row format, the result table and the buffers |
| `MiniSqlProofs` | theorems about the invocations: schemas, files that only grow, durability, rows that stay rows |
| `MiniSqlRefines` | theorems about what is read: types of results, linearizability, lines and pieces |
| `DirectoriesProofs` | theorems about directory creation |

### State and actions of `Tokenizer` and `Parser`

`index`, `line`, `column` and `tokens` are the locals of `tokenize_sql`; `phase`
says whether `parse_sql_script` is in the tokenizer, in its own loop, or has
returned; `error` is the position that the message names. An action is one turn
of the tokenizer's loop, one per branch; its inner loops are folded into
`SpanEnd`, `CommentEnds` and `StringFrom`. A token has one field the code has
not, `start`, the index it begins at, which the properties about positions need.

The parser is not recursive and never goes back, so its calls unfold into a
finite automaton: `rule` says which element of `parse_insert`, `parse_select`,
`parse_qualified_name` or the lists comes next, `Accepts` with which tokens it
may begin, `After` what follows an element that is one fixed token. `SyntaxError`
is every `return false` of these functions. Reserved words are the domain of the
constant `Keyword`, so that instances can spell them with one letter; letters,
digits and blanks are constants, as the C library's classification depends on
the locale. Allocation failures and the freeing of tokens are in `Ownership`; the
script, which the caller sees, is emptied where `free_script` empties it.

`TablePaths` takes a table name as the parser leaves it, one identifier or two,
and writes the path as `snprintf` does: cut to the size that was added up before.
`MCParser` applies it to the statements of every script that is read. This is
what allows `MiniSql` to take a table as one pair of files.

### State and actions of `MiniSql`

`exists` and `bytes` are the data files. Per process, `pc` names the next call
on a data file (`"fopen ab"`, `"fputs"`, `"fclose"`, `"fopen rb"`, `"fopen wb"`,
`"fopen rb again"`, `"fgets"`) or where `main` is (`"parse"`, `"statement"`,
`"INSERT 1"`, the exits); `next` is the statement index of `main`; `pending` is
what of `serialized_row` has not been given to the kernel; `offset`, `buffer`
and `eof` are the input stream; `rows` is `QueryResult.rows`; `stdout` is what
has been printed. `began` and `acked` are history variables: where each row was
put (`RowBegins`: where its first character went, in whichever of the two calls),
and which were reported. They take part in no guard.

| action | code |
|---|---|
| `Parse`, `Finish` | `main`: the whole script is parsed before anything runs; the loop's end |
| `BeginInsert`, `RejectInsert` | `append_insert_row` up to the write: schema, column lookup, duplicate check, ordering, serialization |
| `OpenAppend`, `Fputs`, `FputsFails`, `Fclose`, `OpenFails` | `write_mode_file` with mode `ab` |
| `ReportInsert` | return to `main` and `print_execution_result` |
| `BeginSelect`, `RejectSelect` | `run_select_query` up to the first `fopen` |
| `OpenRead`, `MissingData`, `CreateEmpty` | both `fopen("rb")` and `write_text_file(path, "")` |
| `Refill`, `NextLine`, `BadLine`, `EndSelect`, `ReadFails` | the `fgets` loop, one action per outcome |
| `Kill` | the process dies at any point |

A step is one system call on a data file with the computation before it, which
touches nothing shared. Schema files are constant: the program never writes
them. Their content is read by `load_table_definition`, folded into
`BeginInsert`/`BeginSelect` and their rejections.

The C library is external and is modelled as glibc (the `Dockerfile`'s) works:
`fputs` on an empty buffer hands the kernel the longest prefix that is a
multiple of the buffer size and keeps the rest for `fclose`; `fgets` refills
with one `read` of at most a buffer; end of file is sticky; a `write` to a file
opened with `O_APPEND` lands contiguously at its end. The Windows build that
the README of the repository mentions is not covered by these assumptions.
A row counts as acknowledged when `print_execution_result` has been called for
it, although its text may still be in the buffer of standard output; this makes
the durability property stronger, not weaker.

### State and actions of `Ownership`

The program is a table, `Program`: for each function, its steps in the order of
the source, each with what it does (fill a cell, call a function, check
something), what it frees when it succeeds, the steps that can follow, and what
its early return frees. A cell is a C variable or field; `mem` holds the blocks
each cell points to, the blocks that are live (a stream is a block) and whether
one has been misused: freed when it was not live, or read when it was not live
or never there. `stack` holds the active calls, `returned` what the last one
returned, and the actions `Check`, `Allocate`, `Call`, `CallSucceeds` and `Fail`
are the same for every step. Data is left out, so a test or a call that can fail
may fail whenever it is reached; `Takes` keeps the branches that memory or the
script decides. `MayFail` names the steps that fail, `MaxLoops` and
`MaxStatements` bound loops and scripts.

### State and actions of `Buffers`

One buffer at a time, of five kinds (lists of strings, statements or rows; tokens;
fields of a line; literals; escaped fields), plus `serialize_row`, which first
adds a length up (`MeasureField`) and then copies (`CopyField`, `CopyNewline`). An
action is one pass of the code that tests for room, reallocates and writes;
`capacity` follows the code's own rule for the kind, `written` is one more than
the highest index written, the terminator included.

### State and actions of `Directories`

`dirs` and `files` are the disk, each entry the sequence of names that leads to
it, as the operating system reads a path (`Reading`). Per process, `path` is the
text it was given and `made` how far `ensure_directory_recursive` has come in its
copy of it, in which backslashes have become slashes (`Buffer`). `Cuts` are the
places where its loop calls `mkdir`; `MakeDirectory`, `DirectoryExists` (`EEXIST`,
which `mkdir` also says of a file) and `MakeFails` are the outcomes of one call,
`OpenFile` and `OpenFails` those of the `fopen` that follows.

Several processes do this at once, which is what the functions allow their
callers. `mini_sql` itself writes a data file only after it has read a schema from the
same directory, so that its invocations find the directory made: the model
says of `common.c` that it does not depend on this.

### `ResultTable`

`Widths`, `Separator`, `TableLine` and `Drawing` are the text that is printed of a
result. The properties know none of them: they find the columns of the table by
the crosses of its first line and read each cell back from between the bars.

### The abstract specification

`TableLog` knows no files, buffers, escapes, schema text or column positions.
Its `Insert` and `Select` fix a result at one instant; `Reply` prints it;
`Abandon` covers a process killed in between. The mapping decodes each data
file line by line into rows over lower case column names, takes an `INSERT` to
happen when its line is whole in the file, and a `SELECT` when its stream meets
the end of the file (`FixedAnswer`). `ImplementsTableLog` is linearizability.
The mapping needs column names that are distinct when case is ignored
(`DistinctColumns`); the program resolves a duplicate to its first occurrence.

## Runs

| run | question | bounds |
|---|---|---|
| `parser` | does `tokenize_sql` find exactly the lexical elements, at their places; does `parse_sql_script` accept the grammar and nothing else, read what it says, point at the first impossible token, and return; do its tables have files of their own | every text of at most 5 characters over 8 that begin or end each kind of element: enough for every pair of adjacent elements, `/*/`, `--1`, doubled quotes in and at the ends of literals, and every look-ahead at the terminator; two scripts with every form of statement, and every text that differs from one of them by a character inserted, removed or replaced |
| `formats` | does `split_pipe_line` find the values the format defines; does it invert `serialize_row`; is a row one line; can a drawn result be read back; does no buffer overflow | every line of at most 5 characters over the 7 the format tells apart: every pair of adjacent escapes, a backslash before each kind of character, text after the newline; results of up to 2 columns and rows, values with bars, crosses, dashes and blanks among them, empty ones, wider and narrower than their header; buffers of up to 40 items: four doublings of 4, two of 16; rows of up to 4 fields |
| `concurrent` | are two invocations linearizable, durable, and invisible to each other's reads; does each end | 2 processes, 4 scripts of up to 3 statements, kills anywhere, rows of 4 to 6 characters, `Block = 8`: a read ends in the middle of the second row, so rows cross buffer boundaries |
| `sequential` | is one invocation the abstract log whatever its statements | every statement error after a success and before another statement; four tables: normal, without schema, with an empty schema, without data file; `Block = 3`: each row needs both writes and several reads |
| `hostile` | malformed files and failing calls: is every piece of an answer well formed, no file made without a schema, an end in every case | files without a final newline, with too few and too many values, with raw carriage returns, with a line of too many values that `fgets` cuts into pieces of the right number; `Block = 2`, `LineBuf = 5`: lines longer than the buffer of `fgets`; kills |
| `ownership` | is everything released once on every path | any allocation, test or call fails, in every function, but for the four early returns that are known to go wrong; scripts of up to 2 statements (two results follow one another, an error comes after a success), each call goes back once in one of its loops (`MaxLoops`), so that a list has an item in it when the next one fails; the reads that count are those that `Uses` and `Messages` list, eleven steps of the storage engine and of the drawing, not every read of the source |
| `directories` | does every writer get its directory | 3 processes, 8 paths that share directories, name them with repeated slashes, from the root and from the working directory, or have a file where another has a directory |
| `lost_acknowledgement`, `select_truncates`, `long_line`, `torn_rows`, `freed_path` | where the code departs from what it promises (see *Findings*) | the smallest instance that shows it |

`formats` puts three parts with no variable in common into one state space: the
first state decides which of them moves, and the others stay as they are. It is
their sum, not their product.

`concurrent` checks the properties in the circumstances in which the code can
keep them: no failing call, rows shorter than a stdio buffer, data files there.
The violation runs on `MiniSql`, and the configurations under *Further counterexamples*,
each drop one or two of these circumstances, which shows that
none of them is superfluous. `MCConcurrent` states them as an assumption, so
that TLC confirms that the instance satisfies the theorems' hypotheses.
Under the weaker `NothingErased` (no failing call, data files there) rows are torn
and lines cut; files still only grow, and an answer still consists of pieces
with the right number of values. That is proved (`OnlyGrows`, `PiecesChecked`);
`Disordered.cfg` (module `MCMiniSql`, not among the runs) passes on an instance with
two processes, kills, the files of `hostile`, rows that take two writes and lines
longer than `fgets`' buffer.

What a `SELECT` can promise of a line longer than `fgets`' buffer is only that:
`nn|nn|n` in a table of two columns has three values, but with `LineBuf = 5` it is
read as `nn|n` and `n|n`, and answered as two rows. `NoMalformedPiece` says of an
answer that all of its pieces are well formed, and leaves open whether the
lines are; `OneLineOneRow` is what long lines break.

Process identities are not declared symmetric: liveness and the history
variables make it unsound or useless, and the state spaces are small.

### Fairness

`FairSpec` adds weak fairness of each process's own `Step`. The operating
system runs every process, and none of the calls on regular files blocks on
another process: there is no lock, pipe or wait in the program. Kills and
failures are not forced to happen. `Termination` needs it; `sequential` uses it
only because the abstract behaviours are compared under it; no safety property
depends on it. `ParserSpec` assumes weak fairness of the next
step of a single sequential program, which runs until it returns. `FairSpec` of
`Directories` assumes weak fairness of the processes' next step taken together:
each has finitely many steps and none waits for another, so all end if only the
machine as a whole goes on. `Ownership` and `Buffers` state no fairness: they have
safety properties only.

### Findings

1. `write_mode_file` ignores `fclose` (`src/common.c:174`). For a row shorter
   than the stdio buffer this is the call that writes: a full disk loses a row
   that is reported as `INSERT 1`.
2. `run_select_query` answers a failed `fopen("rb")` with `fopen("wb")`
   (`src/storage.c:537`): a row appended in between is erased by a `SELECT`.
3. `fgets` with 4096 characters (`src/storage.c:557`): a longer line of a table
   with one column is reported as several rows; one with more columns makes the
   table unreadable or, where each piece happens to have the right number of
   values, is answered as rows that nobody inserted.
4. Rows longer than the stdio buffer are written in two calls
   (`src/common.c:168`): two invocations tear each other's rows.
5. `load_table_definition` frees the table before it formats the message about an
   empty schema file, whose path it has just set to NULL (`src/storage.c:341`).

### Further counterexamples

These configurations are not among the runs. Each shows what happens outside the
circumstances that a passing run names, and TLC finds a counterexample in each.

| configuration, module | property | what it shows |
|---|---|---|
| `Positions.cfg`, `MCParser` | `PositionsExact` | `read_string_token` counts one column too few for each string literal and no line for a newline inside one (`src/parser.c:174`): positions in messages are wrong after it; up to the first literal they are exact (`PositionsBeforeStrings`) |
| `LeakedProjection.cfg`, `MCOwnership` | `NothingLost` | an unknown column after a known one in a `SELECT`: the columns projected so far are freed by nobody (`src/storage.c:504-509`) |
| `LeakedRow.cfg`, `MCOwnership` | `NothingLost` | no memory for an empty value: two exits of `split_pipe_line` do not free the values found so far (`src/storage.c:91`, `:117`), and `run_select_query` does not either |
| `NullColumn.cfg`, `MCOwnership` | `NoMisuse` | the `WHERE` column's `sql_strdup` is not checked (`src/parser.c:672`); the `SELECT` compares column names with NULL |
| `Backslash.cfg`, `MCDirectories` | `ParentEnsured` | on a system that separates names by slashes only, directories are made for names that the path does not have (`src/common.c:206`) |
| `UnreadableData.cfg`, `MCMiniSql` | `AppendOnly` | any failure of `fopen("rb")`, not only a missing file, makes the `SELECT` truncate the table, with no other invocation at work (`src/storage.c:533-537`) |
| `TornLine.cfg`, `MCMiniSql` | `AckedRowsDurable` | a short write in `fputs` fails the `INSERT` and leaves the beginning of its row; the next row, which is acknowledged, continues that line (`src/common.c:168`) |
| `KilledWriter.cfg`, `MCMiniSql` | `EveryLineIsARow` | a process killed between the two writes of a row longer than a stdio buffer leaves a line that is no row (`src/common.c:168`) |
| `ReadError.cfg`, `MCMiniSql` | `WholeFileReported` | a read that fails ends the `fgets` loop like the end of the file, and `SELECT *` reports part of the table as the whole (`src/storage.c:557`, `ReadFails`) |
| `LineBreaks.cfg`, `MCFormats` | `Aligned` | a value with a line break, which the row format preserves, breaks the drawn table (`src/executor.c:98`) |

No passing run with `Faults` compares answers with the abstract log: as
`ReadError.cfg` shows, an answer can then be part of the table.

## What is proved

All proofs are for arbitrary constants that satisfy the named assumptions
(`ToLowerAssumption`, `SourceAssumption`, `CharAssumption`, `SchemaAssumption`,
`ScriptsAssumption`, `SizeAssumption`, `DistinctColumns`, `DbRootAssumption`,
`PathAssumption`, `TableAssumption`, `BoundsAssumption`). Some theorems have
hypotheses of their own; without one, a run or configuration
above has a counterexample. The glibc
behaviour above is part of the model, not proved.

### Tokenizer, parser and table paths

- `ParserProofs!TokenizerTypeCorrect`: for every text the index stays between
  its first character and its terminator, and every token is well formed. One
  case per action; the loops folded into `SpanEnd` end because the terminator
  is in no class of characters, and the scan of a literal is shown to be well
  defined and to stay inside the text (`StringFromType`).
- `ParserProofs!ParserTypeCorrect`: for every text the cursor never passes
  `TOKEN_END`, and what reaches the script is a complete statement. The
  invariant adds that the tokens end with `TOKEN_END` (`CursorOK`), which no rule
  inside a statement accepts, and which record each rule fills in
  (`StatementOK`).
- `ParserProofs!PositionsOfTokens`: up to the first string literal every token,
  and every message, has the line and column at which it is in the text. Invariant
  (`PositionInv`): as long as no literal has been read, `line` and `column` are
  `Position(index)`. Stretches without newlines (`SameLine`) and comments with
  newlines in them are lemmas of their own; the second is where the column has to
  be counted from the last newline, not from the start of the comment.
- `ParserProofs!LongestElements`: the tokens are the longest elements of the text
  in their order, and `tokenize_sql` fails exactly where none starts. Invariant
  (`ReadInv`): the elements of the text are what has been read followed by the
  elements of the rest. For each kind of element there is a lemma that the loop of
  the code stops at the longest one (`LongestWord`, `LongestBlockComment`, ...); the
  first two characters decide the kind (`EndsByKind`). The literal is the hard one:
  pairs of quotes, recognised from left to right by the code, are defined by the
  parity of their positions, so `ClearNext` follows the parity through the scan.
- `GrammarProofs!ParsesTheGrammar`: `parse_sql_script` succeeds on the scripts of
  the grammar and on no others, with the statements the grammar finds. The grammar
  has lengths and places where the code has a cursor, so the invariant
  (`GrammarInv`) says for each `rule` what has been read of the statement that
  began at `h`: before `h` there is a script, with the statements in `script`; from
  `h` on there are a table and lists of known lengths (`Inside`), and the
  statement under construction holds their items (`Builds`). Between two statements
  all that has been read is a script (`Between`). That the lengths are the only
  possible ones (`AsLong` and the lemmas after it) makes the grammar's choice of a statement
  the one that was read; that a statement goes up to the next semicolon or verb makes
  scripts grow one statement at a time.
- `GrammarProofs!PointsAtTheFirstError` and `NothingMendsIt`: the token that a syntax
  error points at ends a beginning that no tokens at all complete, while what is
  before it can be completed. In each rule the grammar leaves no choice about the
  types of the next token (`MustGoOn`), and one of two example statements always
  completes what has been read (`BeginsInside`). The first theorem is the property
  that TLC checks, where completions are the ends of the examples; the second shows
  that nothing is lost by trying only those.
- `ParserProofs!FilesOfTables`: two statements on different tables never name the
  same file, no schema is another table's data file, and no path is cut short, for
  every script, database directory and length of names. Invariant (`NamesInv`):
  a table name is one or two identifiers, which have neither dots nor slashes; so
  the path can be read back from its end (`NamesSeparate`).

### Row format, result table and buffers

- `RowFormatProofs`: `serialize_row` yields a nonempty text that ends with a
  newline for every list of values (`SerializeRowType`), and `split_pipe_line`
  yields at least one value for every line (`SplitPipeLineType`). The scan is a
  recursive function without a declared range, so its existence is proved
  first, by induction on the length of the suffix.
- `FormatsProofs!RoundTrips` and `OneLines`: `split_pipe_line` returns from a
  serialized row exactly the values it was made of, and the row's only newline is
  its last character, for every alphabet, every number of values and every
  length. The scan is unfolded into its turns; a scan that begins inside a text is
  the scan of the rest of it (`ScanOfSuffix`); so the scan of an escaped
  character followed by any text yields that character in front of what the text
  yields (`SplitAtChar`), and by induction on the characters of a value, then on the
  values of a row, each added at the end, the whole row (`SplitSerializeRow`).
- `FormatsProofs!SplitsAsDefined`: for every text `split_pipe_line` finds what the
  definition without a scan finds. The reference, too, is unfolded from the left:
  it starts anew behind every character that is neither escaped nor a separator
  (`ReferenceNext`), because what is escaped depends on a run of backslashes only as
  far as the run reaches (`RunNext`, `EscapeStarts`); both then agree by induction
  on the length of what is left (`SplitIsReference`).
- `FormatsProofs!TableAligned` and `TextsInPlace`: whatever the result, all lines of
  the table are as wide as its first, and every text stands in its row under the name
  of its column. Hypothesis: no text has a line break; the
  configuration `LineBreaks.cfg` shows the table that one breaks. `ScreenIs` splits what is printed into
  its lines, because each ends with a newline and has no other; each line is laid out
  by the same sums of widths (`Spans`, `CellLineShows`, `RuleLineIs`), since no text is
  longer than its column is wide (`WidthsFit`).
- `FormatsProofs!BuffersInBounds`: no index behind the capacity is ever written.
  Not inductive: `Room` says for each kind of buffer what is still free between two
  steps, such as that the row allocated by `serialize_row` has room for the
  characters and bars still to copy, the newline and the terminator.

### Invocations

- `MiniSqlRefines!TypeCorrect`: `TypeOK` is invariant, with what is printed,
  acknowledged and collected in `rows`. It is not inductive: `Control` adds that
  a process inside a statement has one, and that an `INSERT` at work has passed
  the checks, without which the line that `fputs` and `fclose` append need not
  be a text; `Checked`, that a `SELECT` past its checks has columns that exist,
  without which the values that `Project` picks need not be texts.
- `MiniSqlProofs!NoOrphanFiles`: a data file is only ever made for a table
  whose schema loads, faults and races included. Invariant: a `SELECT` past
  its checks is on such a table (`Loaded`).
- `MiniSqlProofs!OnlyGrows`: under `NothingErased` (no failing call, every usable
  table has a data file) no step alters or removes what a file holds, however long
  the rows and whatever the files contain. Invariant (`GrowInv`): the files of
  the tables whose schema loads are there, and no process is on the way to create
  one (`Present`, `NotTaken`); so only `fputs` and `fclose` touch files.
- `MiniSqlProofs!Durable`: under `Undisturbed` (no failing
  call, every row shorter than a stdio buffer, every usable table has a data
  file that is empty or ends with a newline) acknowledged rows stay whole, on
  lines of their own, and disjoint; for any number of
  processes, any scripts, any reads and any kills. `DurableInv` strengthens the
  property to rows that are written but not yet reported, and adds that `fputs`
  has written nothing of a row (so that `fclose` appends it whole), that usable
  files end with a newline, and that no process is about to create a file. The
  proof separates the steps that touch rows (`FcloseRows`, `ReportRows`) from
  all the others (`QuietSteps`).
- `MiniSqlProofs!RowsStayRows`: if besides `Undisturbed` the data files hold whole
  rows at first (`RowsAtFirst`), every line of every loadable table stays a row with
  one value per column. Invariant: `DurableInv` and the property itself for all
  tables (`AllRows`); a step appends one line, which by the round trip splits into
  one value per column, to a text that ends with a newline (`LinesAppended`).
- `MiniSqlProofs!ReadersSucceed`: if besides no line and no row is too long for
  `fgets` (`ShortLines`), no `SELECT` meets a line it rejects, wherever its block
  reads end and whatever others append. Invariant: `AllRows`, `AllShort`, and of
  every stream (`Readers`) that what it has buffered is the part of the file before
  its offset, begins where a line begins, and that the end of the file was met at
  the end of a line.

- `MiniSqlRefines!Linearizable`: under `Undisturbed`, `RowsAtFirst` and
  `ShortLines` every behaviour of `MiniSql` is one of `TableLog`, for any number of
  invocations, scripts, tables and buffer sizes, kills included. The instant of an
  `INSERT` is its `fclose`, that of a `SELECT` the read that meets the end of the file.
  Invariant (`LogInv`): what durability and the readers need, and that what a
  `SELECT` has computed from the lines it has returned is what the abstract table
  would answer from the rows of those lines (`Answering`). The mapping cuts a file
  into lines, so the proof rests on how the ends of lines grow with a text
  (`EndsSnoc`, `EndsAreLineEnds`).
- `MiniSqlRefines!RowsOfLines`: also when the data files hold
  malformed lines at first (`Undisturbed` and `ShortLines` only), a `SELECT *`
  without `WHERE` reports one row for each line it has read. Invariant
  (`LinesInv`): the same of the lines returned so far.
- `MiniSqlRefines!PiecesChecked`: under `NothingErased` alone, with lines and rows of
  any length, torn or not, an answer has only pieces of the right number of values.
  Invariant (`PiecesInv`): what `fgets` has returned falls into such pieces, and it
  is about to return from the beginning of one (`AtPiece`). The next piece is the
  only new one: two places of one line where pieces begin are a multiple of
  `LineBuf - 1` apart (`MultiplesApart`), so no piece reaches over the place where
  `fgets` stands (`PiecesAppended`); and what is returned next is a piece of the
  file, also at its end (`PieceReturned`). Appending to the file changes nothing
  of what has been returned (`BufferedGrown`).

### Directories

- `DirectoriesProofs!ParentsAreEnsured`, `OnlyNamesInTheWay` and
  `NoOtherDirectories`: for any number of processes and any paths that the program and
  the operating system cut at the same places (`PlainPaths`; the configuration
  `Backslash.cfg` shows why), a writer opens its file only when all its directories are
  there, is stopped, failing calls aside, only by a name that is taken, and makes no
  other directories. Invariant (`DirInv`): every directory is in a directory, and a
  process's next prefix is right behind what it has made (`Progress`).

### What is only model-checked

Ownership (`NothingLost`, `NoMisuse`): the program of `Ownership` is a fixed table,
and TLC takes every step of it, with scripts of up to `MaxStatements` statements and
loops of up to `MaxLoops` turns. That more statements and turns change nothing is not
proved: it needs an account of what every cell owns at every step of the table.
Liveness under fairness (`Termination`, `ParserReturns`
and the like) is out of the prover's reach and stays with TLC.

## What is not modelled

- The reading of the command line arguments, and the wording of messages.
- `read_text_file` while another process changes what it reads: the program writes
  neither schema nor SQL files. Its exits are in `Ownership`.
- Windows: names of drives are in the definition of `Cuts` but in no instance, and
  the stdio assumptions are glibc's.
- NUL characters in files: C strings end there.
- Sizes near `SIZE_MAX`: capacities are natural numbers, as no file that fits into
  memory makes a doubling overflow.
- The tests, the demo scripts and the build files, which have no state.

## What could follow

1. A composition of `Parser` and `MiniSql` in one behaviour. Its interface is
   already checked from both sides: the scripts that the parser yields have the
   type that `ScriptsAssumption` asks for, but for the table, and `TablePaths`
   maps tables to files one to one.
