------------------------------ MODULE MiniSql ------------------------------
(***************************************************************************)
(* Invocations of the mini_sql command line program over one database      *)
(* directory.  Each process of Proc is one run of main(): it parses its    *)
(* script, executes the statements one after the other, prints each result *)
(* and stops at the first error.  The program takes no lock, so processes  *)
(* interleave between any two of their accesses to the data files.         *)
(*                                                                         *)
(* A step is what is atomic for another process: one system call on a data *)
(* file, with the local computation that precedes it.  The stdio library   *)
(* is external; fputs and fclose write, and fgets reads, as glibc does:    *)
(*   - fputs hands the kernel the longest prefix that is a multiple of the *)
(*     buffer size Block, and fclose the rest;                             *)
(*   - fgets refills its buffer with one read of at most Block characters, *)
(*     and end of file is sticky;                                          *)
(*   - one write in append mode lands contiguously at the end of the file. *)
(***************************************************************************)
EXTENDS Statements

CONSTANTS Proc,         \* the invocations
          Scripts,      \* the parsed scripts they may be given, or NoScript
          NoScript,     \* the SQL file cannot be read, or does not parse
          InitialData,  \* what the data directory may hold at first: per table, the
                        \* text of its .data file or NoFile
          Block,        \* size of a stdio buffer (BUFSIZ, 4096)
          LineBuf,      \* sizeof line in run_select_query (4096)
          Faults,       \* may a system call on a data file fail?
          Crashes       \* may a process be killed?

\* What parse_sql_script can return.
StatementType ==
  [type : {"INSERT"}, table : Table, columns : Seq(Text), values : Seq(Text)]
  \cup
  [type : {"SELECT"}, table : Table, selectAll : BOOLEAN, columns : Seq(Text),
   where : [enabled : BOOLEAN, column : Text, value : Text]]

ASSUME ScriptsAssumption == Scripts \subseteq Seq(StatementType) \cup {NoScript}

ASSUME SizeAssumption ==
  /\ Block \in Nat \ {0}
  /\ LineBuf \in Nat \ {0, 1}
  /\ InitialData \subseteq [Table -> Text \cup {NoFile}]
  /\ Faults \in BOOLEAN
  /\ Crashes \in BOOLEAN

VARIABLES
  exists,    \* per table: is there a .data file
  bytes,     \* per table: its content
  script,    \* per process: SQLScript, fixed once the process is started
  pc,        \* per process: the next thing it does
  next,      \* per process: index of the current statement
  pending,   \* per process: the part of serialized_row not yet written
  offset,    \* per process: file position of the SELECT's stream
  buffer,    \* per process: characters read and not yet returned by fgets
  eof,       \* per process: the stream has met the end of the file
  rows,      \* per process: QueryResult.rows
  stdout,    \* per process: what it has printed
  began,     \* history, per process: where in the file the row just written begins
  acked      \* history: the rows reported by INSERT 1, and where they begin

\* The INSERTs of the scripts that can be executed, and the line each writes.
Inserts == {s \in UNION {Range(t) : t \in Scripts \ {NoScript}} :
              s.type = "INSERT" /\ Insertable(s)}
RowLine == [s \in Inserts |-> InsertLine(s)]

files    == <<exists, bytes>>
reader   == <<offset, buffer, eof, rows>>
history  == <<began, acked>>
vars     == <<files, script, pc, next, pending, reader, stdout, history>>

Stopped == {"exit0", "exit1", "killed"}

Init ==
  /\ \E data \in InitialData :
        /\ exists = [t \in Table |-> data[t] # NoFile]
        /\ bytes  = [t \in Table |-> IF data[t] = NoFile THEN <<>> ELSE data[t]]
  /\ script \in [Proc -> Scripts]
  /\ pc      = [p \in Proc |-> "parse"]
  /\ next    = [p \in Proc |-> 1]
  /\ pending = [p \in Proc |-> <<>>]
  /\ offset  = [p \in Proc |-> 0]
  /\ buffer  = [p \in Proc |-> <<>>]
  /\ eof     = [p \in Proc |-> FALSE]
  /\ rows    = [p \in Proc |-> <<>>]
  /\ stdout  = [p \in Proc |-> <<>>]
  /\ began   = [p \in Proc |-> 0]
  /\ acked   = {}

-----------------------------------------------------------------------------
(* main() and execute_statement().                                         *)

Goto(p, label) == pc' = [pc EXCEPT ![p] = label]

Statement(p) == script[p][next[p]]
File(p)      == Statement(p).table

\* Nothing is executed unless the whole script parses.
Parse(p) ==
  /\ pc[p] = "parse"
  /\ Goto(p, IF script[p] = NoScript THEN "exit1" ELSE "statement")
  /\ UNCHANGED <<files, script, next, pending, reader, stdout, history>>

Finish(p) ==
  /\ pc[p] = "statement"
  /\ next[p] > Len(script[p])
  /\ Goto(p, "exit0")
  /\ UNCHANGED <<files, script, next, pending, reader, stdout, history>>

AtStatement(p, type) ==
  /\ pc[p] = "statement"
  /\ next[p] <= Len(script[p])
  /\ Statement(p).type = type

\* The statement failed: main() reports the error and returns 1.
Fail(p) ==
  /\ Goto(p, "exit1")
  /\ UNCHANGED <<files, script, next, pending, reader, stdout, history>>

\* The statement succeeded: main() prints its result and takes the next one.
Report(p, result) ==
  /\ stdout' = [stdout EXCEPT ![p] = Append(@, result)]
  /\ next'   = [next EXCEPT ![p] = @ + 1]
  /\ Goto(p, "statement")

-----------------------------------------------------------------------------
(* append_insert_row() and append_text_file().                             *)

BeginInsert(p) ==
  /\ AtStatement(p, "INSERT")
  /\ Insertable(Statement(p))
  /\ pending' = [pending EXCEPT ![p] = RowLine[Statement(p)]]
  /\ Goto(p, "fopen ab")
  /\ UNCHANGED <<files, script, next, reader, stdout, history>>

RejectInsert(p) ==
  /\ AtStatement(p, "INSERT")
  /\ ~Insertable(Statement(p))
  /\ Fail(p)

\* Mutant: the mode is "wb".
OpenAppend_Truncates(p) ==
  /\ pc[p] = "fopen ab"
  /\ exists' = [exists EXCEPT ![File(p)] = TRUE]
  /\ bytes' = [bytes EXCEPT ![File(p)] = <<>>]
  /\ Goto(p, "fputs")
  /\ UNCHANGED <<script, next, pending, reader, stdout, history>>

\* fopen(path, "ab") creates the file but never truncates it.
OpenAppend(p) ==
  /\ pc[p] = "fopen ab"
  /\ exists' = [exists EXCEPT ![File(p)] = TRUE]
  /\ Goto(p, "fputs")
  /\ UNCHANGED <<bytes, script, next, pending, reader, stdout, history>>

\* The number of characters fputs writes before it returns.
WholeBlocks(p) == Len(pending[p]) - (Len(pending[p]) % Block)

AppendBytes(p, n) ==
  bytes' = [bytes EXCEPT ![File(p)] = @ \o SubSeq(pending[p], 1, n)]

\* The first character of the row is the first of the n that a call writes.
RowBegins(p, n) ==
  began' = IF n > 0 /\ pending[p] = RowLine[Statement(p)]
           THEN [began EXCEPT ![p] = Len(bytes[File(p)])]
           ELSE began

\* Mutant: the characters already written are written again by fclose.
Fputs_Again(p) ==
  /\ pc[p] = "fputs"
  /\ AppendBytes(p, WholeBlocks(p))
  /\ RowBegins(p, WholeBlocks(p))
  /\ Goto(p, "fclose")
  /\ UNCHANGED <<exists, script, next, pending, reader, stdout, acked>>

Fputs(p) ==
  /\ pc[p] = "fputs"
  /\ AppendBytes(p, WholeBlocks(p))
  /\ RowBegins(p, WholeBlocks(p))
  /\ pending' = [pending EXCEPT ![p] = SubSeq(@, WholeBlocks(p) + 1, Len(@))]
  /\ Goto(p, "fclose")
  /\ UNCHANGED <<exists, script, next, reader, stdout, acked>>

\* A short write: fputs returns EOF, the INSERT fails, what was written stays.
FputsFails(p) ==
  /\ Faults
  /\ pc[p] = "fputs"
  /\ \E n \in 0 .. WholeBlocks(p) - 1 : AppendBytes(p, n)
  /\ Goto(p, "exit1")
  /\ UNCHANGED <<exists, script, next, pending, reader, stdout, history>>

\* fclose flushes the rest.  Its result is not looked at: the INSERT counts as
\* done however many of these characters reached the file.
Fclose(p) ==
  /\ pc[p] = "fclose"
  /\ \E n \in IF Faults THEN 0 .. Len(pending[p]) ELSE {Len(pending[p])} :
        AppendBytes(p, n)
  /\ RowBegins(p, Len(pending[p]))
  /\ pending' = [pending EXCEPT ![p] = <<>>]
  /\ Goto(p, "INSERT 1")
  /\ UNCHANGED <<exists, script, next, reader, stdout, acked>>

ReportInsert(p) ==
  /\ pc[p] = "INSERT 1"
  /\ Report(p, [kind |-> "INSERT", affected |-> 1])
  /\ acked' = acked \cup {[proc |-> p, statement |-> next[p], table |-> File(p),
                           line |-> RowLine[Statement(p)], at |-> began[p]]}
  /\ UNCHANGED <<files, script, pending, reader, began>>

\* fopen fails, in either mode of append_text_file and write_text_file.
OpenFails(p) ==
  /\ Faults
  /\ pc[p] \in {"fopen ab", "fopen wb", "fopen rb again"}
  /\ Fail(p)

-----------------------------------------------------------------------------
(* run_select_query().                                                     *)

BeginSelect(p) ==
  /\ AtStatement(p, "SELECT")
  /\ Selectable(Statement(p))
  /\ Goto(p, "fopen rb")
  /\ UNCHANGED <<files, script, next, pending, reader, stdout, history>>

RejectSelect(p) ==
  /\ AtStatement(p, "SELECT")
  /\ ~Selectable(Statement(p))
  /\ Fail(p)

\* Mutant: the rows of the last result are kept.
OpenRead_RowsKept(p) ==
  /\ pc[p] \in {"fopen rb", "fopen rb again"}
  /\ exists[File(p)]
  /\ offset' = [offset EXCEPT ![p] = 0]
  /\ buffer' = [buffer EXCEPT ![p] = <<>>]
  /\ eof'    = [eof EXCEPT ![p] = FALSE]
  /\ Goto(p, "fgets")
  /\ UNCHANGED <<files, script, next, pending, rows, stdout, history>>

OpenRead(p) ==
  /\ pc[p] \in {"fopen rb", "fopen rb again"}
  /\ exists[File(p)]
  /\ offset' = [offset EXCEPT ![p] = 0]
  /\ buffer' = [buffer EXCEPT ![p] = <<>>]
  /\ eof'    = [eof EXCEPT ![p] = FALSE]
  /\ rows'   = [rows EXCEPT ![p] = <<>>]
  /\ Goto(p, "fgets")
  /\ UNCHANGED <<files, script, next, pending, stdout, history>>

\* Mutants: the data file is always made anew; it is made again and again until
\* it can be opened.
MissingData_Always(p) ==
  /\ pc[p] = "fopen rb"
  /\ Goto(p, "fopen wb")
  /\ UNCHANGED <<files, script, next, pending, reader, stdout, history>>
MissingData_Again(p) ==
  /\ pc[p] \in {"fopen rb", "fopen rb again"}
  /\ ~exists[File(p)] \/ Faults
  /\ Goto(p, "fopen wb")
  /\ UNCHANGED <<files, script, next, pending, reader, stdout, history>>

\* fopen(path, "rb") fails, for want of a data file or for any other reason:
\* the table is taken to be empty, and an empty file is to be made.
MissingData(p) ==
  /\ pc[p] = "fopen rb"
  /\ ~exists[File(p)] \/ Faults
  /\ Goto(p, "fopen wb")
  /\ UNCHANGED <<files, script, next, pending, reader, stdout, history>>

\* write_text_file(path, ""): fopen(path, "wb") truncates whatever is there.
CreateEmpty(p) ==
  /\ pc[p] = "fopen wb"
  /\ exists' = [exists EXCEPT ![File(p)] = TRUE]
  /\ bytes'  = [bytes EXCEPT ![File(p)] = <<>>]
  /\ Goto(p, "fopen rb again")
  /\ UNCHANGED <<script, next, pending, reader, stdout, history>>

\* What one fgets(line, LineBuf) call can return from the buffer: up to the
\* first newline, and at most LineBuf - 1 characters.
Window(p)  == SubSeq(buffer[p], 1, Min({LineBuf - 1, Len(buffer[p])}))
LineEnd(p) == SelectInSeq(Window(p), LAMBDA c : c = LF)
LineLength(p) == IF LineEnd(p) > 0 THEN LineEnd(p) ELSE Len(Window(p))

LineReady(p) == LineEnd(p) > 0 \/ Len(Window(p)) = LineBuf - 1 \/ eof[p]

Chunk(p) == SubSeq(bytes[File(p)], offset[p] + 1,
                   Min({offset[p] + Block, Len(bytes[File(p)])}))

ReadsNothing(p) == Chunk(p) = <<>>

\* Mutant: the end of the file is not noticed.
Refill_NoEof(p) ==
  /\ pc[p] = "fgets"
  /\ ~LineReady(p)
  /\ buffer' = [buffer EXCEPT ![p] = @ \o Chunk(p)]
  /\ offset' = [offset EXCEPT ![p] = @ + Len(Chunk(p))]
  /\ UNCHANGED <<files, script, pc, next, pending, rows, eof, stdout, history>>

\* fgets needs more characters: one read() of at most Block of them.
Refill(p) ==
  /\ pc[p] = "fgets"
  /\ ~LineReady(p)
  /\ buffer' = [buffer EXCEPT ![p] = @ \o Chunk(p)]
  /\ offset' = [offset EXCEPT ![p] = @ + Len(Chunk(p))]
  /\ eof'    = [eof EXCEPT ![p] = ReadsNothing(p)]
  /\ UNCHANGED <<files, script, pc, next, pending, rows, stdout, history>>

LineValues(p) == SplitPipeLine(SubSeq(buffer[p], 1, LineLength(p)))

\* Mutant: surplus values are ignored.
WellFormed_Surplus(p) == Len(LineValues(p)) >= Len(Columns[File(p)])
WellFormed(p) == Len(LineValues(p)) = Len(Columns[File(p)])

NextLine(p) ==
  /\ pc[p] = "fgets"
  /\ LineReady(p) /\ buffer[p] # <<>>
  /\ WellFormed(p)
  /\ rows' = [rows EXCEPT ![p] =
                IF Matches(Statement(p), LineValues(p))
                THEN Append(@, Project(Statement(p), LineValues(p)))
                ELSE @]
  /\ buffer' = [buffer EXCEPT ![p] = SubSeq(@, LineLength(p) + 1, Len(@))]
  /\ UNCHANGED <<files, script, pc, next, pending, offset, eof, stdout, history>>

\* "row column count mismatch in data file": the SELECT fails as a whole.
BadLine(p) ==
  /\ pc[p] = "fgets"
  /\ LineReady(p) /\ buffer[p] # <<>>
  /\ ~WellFormed(p)
  /\ Fail(p)

EndSelect(p) ==
  /\ pc[p] = "fgets"
  /\ eof[p] /\ buffer[p] = <<>>
  /\ Report(p, [kind |-> "SELECT", rows |-> rows[p]])
  /\ UNCHANGED <<files, script, pending, reader, history>>

\* read() fails: fgets returns NULL, as it does at the end of the file, and the
\* rows met so far are the answer.
ReadFails(p) ==
  /\ Faults
  /\ pc[p] = "fgets"
  /\ ~LineReady(p)
  /\ Report(p, [kind |-> "SELECT", rows |-> rows[p]])
  /\ UNCHANGED <<files, script, pending, reader, history>>

-----------------------------------------------------------------------------
Insert(p) == BeginInsert(p) \/ RejectInsert(p) \/ OpenAppend(p)
             \/ Fputs(p) \/ FputsFails(p) \/ Fclose(p) \/ ReportInsert(p)
Select(p) == BeginSelect(p) \/ RejectSelect(p) \/ OpenRead(p) \/ MissingData(p)
             \/ CreateEmpty(p) \/ Refill(p) \/ NextLine(p) \/ BadLine(p)
             \/ EndSelect(p) \/ ReadFails(p)

Step(p) == Parse(p) \/ Finish(p) \/ Insert(p) \/ Select(p) \/ OpenFails(p)

\* The process dies; what it had not written yet is lost with its buffer.
Kill(p) ==
  /\ Crashes
  /\ pc[p] \notin Stopped
  /\ Goto(p, "killed")
  /\ UNCHANGED <<files, script, next, pending, reader, stdout, history>>

Done == (\A p \in Proc : pc[p] \in Stopped) /\ UNCHANGED vars

Next == (\E p \in Proc : Step(p) \/ Kill(p)) \/ Done

Spec == Init /\ [][Next]_vars

\* The operating system runs every process, and no system call blocks.
FairSpec == Spec /\ \A p \in Proc : WF_vars(Step(p))

-----------------------------------------------------------------------------
(* Properties.                                                             *)

\* What main() prints for a statement.
Result == [kind : {"INSERT"}, affected : {1}] \cup [kind : {"SELECT"}, rows : Seq(Seq(Text))]

\* Every variable keeps its shape (the one type invariant of the module).
TypeOK ==
  /\ exists \in [Table -> BOOLEAN]
  /\ bytes \in [Table -> Text]
  /\ script \in [Proc -> Scripts]
  /\ pc \in [Proc -> Stopped \cup {"parse", "statement", "fopen ab", "fputs",
               "fclose", "INSERT 1", "fopen rb", "fopen wb", "fopen rb again", "fgets"}]
  /\ next \in [Proc -> Nat \ {0}]
  /\ pending \in [Proc -> Text]
  /\ offset \in [Proc -> Nat]
  /\ buffer \in [Proc -> Text]
  /\ eof \in [Proc -> BOOLEAN]
  /\ rows \in [Proc -> Seq(Seq(Text))]
  /\ stdout \in [Proc -> Seq(Result)]
  /\ began \in [Proc -> Nat]
  /\ acked \subseteq [proc : Proc, statement : Nat \ {0}, table : Table, line : Text, at : Nat]

\* The circumstances in which no data file is ever made anew: no system call
\* fails, and every table that can be used has its data file.  What the files
\* hold, and how long rows and lines are, is left open.
NothingErased ==
  /\ ~Faults
  /\ \A data \in InitialData, t \in Table : LoadFails(t) \/ data[t] # NoFile

\* The circumstances in which invocations cannot harm one another: no system
\* call fails, a row fits into a stdio buffer, and every table that can be used
\* has a data file, one that ends with a newline.
Undisturbed ==
  /\ ~Faults
  /\ \A s \in Inserts : Len(RowLine[s]) < Block
  /\ \A data \in InitialData, t \in Table :
        LoadFails(t) \/ (data[t] # NoFile /\ (data[t] = <<>> \/ Last(data[t]) = LF))

\* The line of an acknowledged row is where it was put: contiguous, and
\* beginning right after a newline or at the start of the file.
RowAt(a) ==
  /\ a.at + Len(a.line) <= Len(bytes[a.table])
  /\ SubSeq(bytes[a.table], a.at + 1, a.at + Len(a.line)) = a.line
  /\ a.at = 0 \/ bytes[a.table][a.at] = LF

Disjoint(a, b) == a.at + Len(a.line) <= b.at \/ b.at + Len(b.line) <= a.at

\* Durability: a row the program has reported with INSERT 1 stays in the data
\* file whole, on lines of its own, and no two such rows share a character,
\* whatever the other invocations do in the meantime
\* (append_insert_row, append_text_file, run_select_query).
AckedRowsDurable ==
  /\ \A a \in acked : RowAt(a)
  /\ \A a, b \in acked : a # b /\ a.table = b.table => Disjoint(a, b)

\* The positions of the newlines, in order, and the lines they end.
Ends(text) ==
  LET ends[n \in 0 .. Len(text)] ==
        IF n = 0 THEN <<>>
        ELSE IF text[n] = LF THEN Append(ends[n - 1], n) ELSE ends[n - 1]
  IN  ends[Len(text)]
Lines(text) ==
  LET ends == Ends(text)
  IN  [k \in DOMAIN ends |->
         SubSeq(text, IF k = 1 THEN 1 ELSE ends[k - 1] + 1, ends[k])]

\* A process is between the two writes of one row of t.
HalfWritten(t) ==
  \E p \in Proc : pc[p] = "fclose" /\ File(p) = t
                  /\ pending[p] # RowLine[Statement(p)]

\* text[i] to text[j] is a line of the text.
IsLine(text, i, j) ==
  /\ i = 1 \/ text[i - 1] = LF
  /\ text[j] = LF
  /\ \A k \in i .. j - 1 : text[k] # LF

EveryLine(text, Good(_)) ==
  \A i \in DOMAIN text : \A j \in i .. Len(text) :
     IsLine(text, i, j) => Good(SubSeq(text, i, j))

WholeRows(t, text) ==
  /\ text = <<>> \/ Last(text) = LF
  /\ EveryLine(text, LAMBDA line : Len(SplitPipeLine(line)) = Len(Columns[t]))

\* The data files hold whole rows at first, ...
RowsAtFirst ==
  \A data \in InitialData, t \in Table : LoadFails(t) \/ WholeRows(t, data[t])

\* ... and no line of them and no row that is inserted is too long for one fgets.
ShortLines ==
  /\ \A s \in Inserts : Len(RowLine[s]) < LineBuf
  /\ \A data \in InitialData, t \in Table :
        LoadFails(t) \/ EveryLine(data[t], LAMBDA line : Len(line) < LineBuf)

\* One line is one row: unless a row is being written, every line of a data
\* file has as many values as the schema has columns, so that no sequence of
\* INSERTs can make the table unreadable (serialize_row, split_pipe_line).
EveryLineIsARow ==
  \A t \in Table : LoadFails(t) \/ HalfWritten(t) \/ WholeRows(t, bytes[t])

\* Data files only grow: no statement of any process alters or removes what a
\* file already holds, be it an INSERT ("ab") or a SELECT ("rb", "wb").
AppendOnly == [][\A t \in Table : IsPrefix(bytes[t], bytes'[t])]_vars

\* A SELECT that has resolved its columns never meets a line it rejects: block
\* reads and line splitting lose nothing while other processes append.
ReadersNeverFail == [][\A p \in Proc : ~BadLine(p)]_vars

\* What fgets has returned of the file.
Returned(p) == SubSeq(bytes[File(p)], 1, offset[p] - Len(buffer[p]))

\* fgets takes a line in pieces of LineBuf - 1 characters, the last one with the
\* newline: text[i] begins a piece, and text[i] to text[j] is one.
BeginsPiece(text, i) ==
  \E b \in 1 .. i :
     /\ b = 1 \/ text[b - 1] = LF
     /\ \A k \in b .. i - 1 : text[k] # LF
     /\ (i - b) % (LineBuf - 1) = 0
IsPiece(text, i, j) ==
  /\ BeginsPiece(text, i)
  /\ j - i < LineBuf - 1
  /\ \A k \in i .. j - 1 : text[k] # LF
  /\ text[j] = LF \/ j - i = LineBuf - 2 \/ j = Len(text)

WholePieces(t, text) ==
  \A i \in DOMAIN text : \A j \in i .. Len(text) :
     IsPiece(text, i, j) => Len(SplitPipeLine(SubSeq(text, i, j))) = Len(Columns[t])

\* No malformed line is part of an answer, as far as fgets can tell: a SELECT
\* prints a result only if everything it has taken from the file falls into
\* pieces, each of which has one value per column.  That holds where it reads to
\* the end and where a read that fails ends it early: then the answer is a part
\* of the table, but none of it comes from a line that was read in part.  A line
\* that is too long for one fgets is judged by its pieces: two well-formed ones
\* are two rows, though the line is none (run_select_query, fgets).
NoMalformedPiece ==
  [][\A p \in Proc :
       EndSelect(p) \/ ReadFails(p) => WholePieces(File(p), Returned(p))]_vars

\* One line, one row: SELECT * without WHERE reports as many rows as the part
\* of the file it has read has lines.
OneLineOneRow ==
  [][\A p \in Proc :
       EndSelect(p) /\ Statement(p).selectAll /\ ~Statement(p).where.enabled =>
         Len(rows[p]) = Len(Ends(SubSeq(bytes[File(p)], 1, offset[p])))]_vars

\* SELECT * without WHERE reports the whole file: as many rows as it has lines,
\* however the fgets loop came to its end.  For one invocation at a time.
WholeFileReported ==
  [][\A p \in Proc :
       (EndSelect(p) \/ ReadFails(p))
       /\ Statement(p).selectAll /\ ~Statement(p).where.enabled =>
         Len(rows[p]) = Len(Ends(bytes[File(p)]))]_vars

\* A data file comes into being only for a table whose schema loads.
NoOrphanData ==
  [][\A t \in Table : ~exists[t] /\ exists'[t] =>
                        Schema[t] # NoFile /\ Columns[t] # << <<>> >>]_vars

\* Every invocation ends, also when others keep appending to what it reads
\* (their scripts are finite), when calls fail and when lines are malformed.
Termination == \A p \in Proc : <>(pc[p] \in Stopped)
=============================================================================
