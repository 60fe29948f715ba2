--------------------------- MODULE MiniSqlProofs ---------------------------
(***************************************************************************)
(* What MiniSql guarantees for all tables, schemas, scripts, initial       *)
(* files, processes and buffer sizes, kills included: where data files     *)
(* come into being, whatever fails; that they only grow, in the            *)
(* circumstances that NothingErased names; and what any number of          *)
(* invocations guarantee each other, in those that Undisturbed names.      *)
(*                                                                         *)
(* All of it rests on the shapes of the variables, which are not inductive *)
(* by themselves: that fputs and fclose append a text needs to know that   *)
(* the process is at an INSERT that can be executed (Control).             *)
(***************************************************************************)
EXTENDS MiniSql, RowFormatProofs

\* The remainder of a division, as fputs computes with the buffer size.
LEMMA RemainderBound ==
  ASSUME NEW n \in Nat, NEW b \in Nat \ {0}
  PROVE  n % b \in 0 .. n
  OBVIOUS

\* What is shorter than the buffer is not written by fputs at all.
LEMMA RemainderSmall ==
  ASSUME NEW n \in Nat, NEW b \in Nat \ {0}, n < b
  PROVE  n % b = n
  OBVIOUS

\* The smaller of two naturals, the bound of a read and of fgets.
LEMMA MinOfTwo ==
  ASSUME NEW a \in Nat, NEW b \in Nat
  PROVE  /\ Min({a, b}) \in Nat /\ Min({a, b}) <= a /\ Min({a, b}) <= b
         /\ Min({a, b}) = a \/ Min({a, b}) = b
  BY DEF Min

\* A table whose schema loads has at least one column.
LEMMA ColumnsType ==
  ASSUME NEW t \in Table, ~LoadFails(t)
  PROVE  Columns[t] \in Seq(Text) \ {<<>>}
<1>1. t \in DOMAIN Columns
  BY DEF LoadFails
<1>2. Columns[t] = SplitPipeLine(Schema[t]) /\ Schema[t] \in Text
  BY <1>1, SchemaAssumption DEF Columns
<1> QED BY <1>2, SplitPipeLineType

\* append_insert_row gives every column of the table one value.
LEMMA OrderedValuesType ==
  ASSUME NEW s \in Inserts
  PROVE  /\ s.table \in Table
         /\ OrderedValues(s) \in ValueLists
         /\ Len(OrderedValues(s)) = Len(Columns[s.table])
<1>1. s \in StatementType /\ s.type = "INSERT" /\ Insertable(s)
  BY ScriptsAssumption DEF Inserts, Range
<1>2. s \in [type : {"INSERT"}, table : Table, columns : Seq(Text), values : Seq(Text)]
  BY <1>1 DEF StatementType
<1>3. Columns[s.table] \in Seq(Text) \ {<<>>}
  BY <1>1, <1>2, ColumnsType DEF Insertable
<1>4. DOMAIN s.columns = DOMAIN s.values
  BY <1>1, <1>2 DEF Insertable
<1>5. ASSUME NEW k \in DOMAIN Columns[s.table] PROVE OrderedValues(s)[k] \in Text
  <2>1. CASE \E i \in DOMAIN s.columns : TargetIndex(s, i) = k
    <3> DEFINE i0 == CHOOSE i \in DOMAIN s.columns : TargetIndex(s, i) = k
    <3>1. i0 \in DOMAIN s.values
      BY <2>1, <1>4
    <3>2. OrderedValues(s)[k] = s.values[i0]
      BY <2>1 DEF OrderedValues
    <3> QED BY <3>1, <3>2, <1>2
  <2>2. CASE ~\E i \in DOMAIN s.columns : TargetIndex(s, i) = k
    BY <2>2 DEF OrderedValues, Text
  <2> QED BY <2>1, <2>2
<1> DEFINE o == OrderedValues(s)
           n == Len(Columns[s.table])
<1>6. n \in Nat \ {0} /\ DOMAIN Columns[s.table] = 1 .. n
  BY <1>3
<1>7. o = [k \in 1 .. n |-> o[k]]
  BY <1>6 DEF OrderedValues
<1>8. \A k \in 1 .. n : o[k] \in Text
  BY <1>5, <1>6
<1> HIDE DEF o, n
<1>9. o \in Seq(Text) /\ Len(o) = n
  BY <1>6, <1>7, <1>8
<1> QED BY <1>2, <1>6, <1>9 DEF o, n, ValueLists

\* The line an INSERT writes is a text that is not empty and ends with its only
\* newline, and it reads back as one value per column (append_insert_row).
LEMMA RowLineType ==
  ASSUME NEW s \in Inserts
  PROVE  /\ RowLine[s] \in Text /\ RowLine[s] # <<>> /\ Last(RowLine[s]) = LF
         /\ s.table \in Table
         /\ {i \in DOMAIN RowLine[s] : RowLine[s][i] = LF} = {Len(RowLine[s])}
         /\ Len(SplitPipeLine(RowLine[s])) = Len(Columns[s.table])
<1>1. RowLine[s] = SerializeRow(OrderedValues(s))
  BY DEF RowLine, InsertLine
<1>2. OrderedValues(s) \in Seq(Text)
  BY OrderedValuesType DEF ValueLists
<1> QED BY <1>1, <1>2, OrderedValuesType, SerializeRowType, SerializeRowOneLine, SplitSerializeRow

-----------------------------------------------------------------------------
\* The steps of an INSERT and of a SELECT that has passed its checks.
Inserting == {"fopen ab", "fputs", "fclose", "INSERT 1"}
Selecting == {"fopen rb", "fopen wb", "fopen rb again", "fgets"}

\* What the program counter tells: a script that parsed, a statement of it, and
\* an INSERT that append_insert_row has checked.
Control ==
  \A p \in Proc :
    /\ pc[p] \notin {"parse", "exit1", "killed"} => script[p] # NoScript
    /\ pc[p] \in Inserting \cup Selecting => next[p] <= Len(script[p])
    /\ pc[p] \in Inserting => Statement(p).type = "INSERT" /\ Insertable(Statement(p))

\* The shapes of the variables that the invariants of this module are about (the
\* results, and the acknowledged rows, are left to MiniSqlRefines).
Shapes ==
  /\ exists \in [Table -> BOOLEAN]
  /\ bytes \in [Table -> Text]
  /\ script \in [Proc -> Scripts]
  /\ pc \in [Proc -> Stopped \cup {"parse", "statement", "fopen ab", "fputs",
               "fclose", "INSERT 1", "fopen rb", "fopen wb", "fopen rb again", "fgets"}]
  /\ next \in [Proc -> Nat \ {0}]
  /\ pending \in [Proc -> Text]
  /\ offset \in [Proc -> Nat]
  /\ buffer \in [Proc -> Text]
  /\ eof \in [Proc -> BOOLEAN]
  /\ began \in [Proc -> Nat]

\* The inductive invariant.
TypeInv == Shapes /\ Control

\* The empty text is a text.
LEMMA EmptyText == <<>> \in Text
  BY DEF Text

\* A process at work on a statement has one, its table is a table, and an
\* INSERT at work is one that can be executed.
LEMMA CurrentStatement ==
  ASSUME TypeInv, NEW p \in Proc, pc[p] \in Inserting \cup Selecting
  PROVE  /\ Statement(p) \in StatementType
         /\ File(p) \in Table
         /\ pc[p] \in Inserting => Statement(p) \in Inserts
<1>1. script[p] \in Scripts /\ script[p] # NoScript /\ next[p] \in Nat \ {0}
  BY DEF TypeInv, Shapes, Control, Inserting, Selecting
<1>2. script[p] \in Seq(StatementType)
  BY <1>1, ScriptsAssumption
<1>3. next[p] \in 1 .. Len(script[p])
  BY <1>1, <1>2 DEF TypeInv, Control
<1>4. Statement(p) \in StatementType
  BY <1>2, <1>3 DEF Statement
<1>5. Statement(p) \in Range(script[p])
  BY <1>2, <1>3 DEF Statement, Range
<1>6. pc[p] \in Inserting => Statement(p) \in Inserts
  BY <1>1, <1>5 DEF TypeInv, Control, Inserts
<1> QED BY <1>4, <1>6 DEF File, StatementType

\* fputs writes no more characters than it is given.
LEMMA WholeBlocksBound ==
  ASSUME TypeInv, NEW p \in Proc
  PROVE  WholeBlocks(p) \in 0 .. Len(pending[p])
<1>0. pending[p] \in Text
  BY DEF TypeInv, Shapes
<1>1. Len(pending[p]) \in Nat
  BY <1>0 DEF Text
<1>2. Len(pending[p]) % Block \in 0 .. Len(pending[p])
  BY <1>1, SizeAssumption, RemainderBound
<1> QED BY <1>1, <1>2 DEF WholeBlocks

\* Appending part of a row to a data file leaves the files texts.
LEMMA AppendType ==
  ASSUME TypeInv, NEW p \in Proc, pc[p] \in Inserting,
         NEW n \in 0 .. Len(pending[p]), AppendBytes(p, n)
  PROVE  bytes' \in [Table -> Text]
<1>1. File(p) \in Table /\ bytes[File(p)] \in Text /\ pending[p] \in Text
  BY CurrentStatement DEF TypeInv, Shapes
<1>2. SubSeq(pending[p], 1, n) \in Text
  BY <1>1 DEF Text
<1>3. bytes[File(p)] \o SubSeq(pending[p], 1, n) \in Text
  BY <1>1, <1>2 DEF Text
<1> QED BY <1>3 DEF AppendBytes, TypeInv, Shapes

\* The remembered beginning of a row is a number.
LEMMA RowBeginsType ==
  ASSUME TypeInv, NEW p \in Proc, pc[p] \in Inserting, NEW n \in Nat, RowBegins(p, n)
  PROVE  began' \in [Proc -> Nat]
<1>1. bytes[File(p)] \in Text
  BY CurrentStatement DEF TypeInv, Shapes
<1>2. Len(bytes[File(p)]) \in Nat
  BY <1>1 DEF Text
<1> QED BY <1>2 DEF RowBegins, TypeInv, Shapes

\* What one read of a data file returns is a text.
LEMMA ChunkType ==
  ASSUME TypeInv, NEW p \in Proc, pc[p] \in Selecting
  PROVE  Chunk(p) \in Text
<1> DEFINE text == bytes[File(p)]
           last == Min({offset[p] + Block, Len(text)})
<1>1. text \in Seq(Char) /\ offset[p] \in Nat
  BY CurrentStatement DEF TypeInv, Shapes, Text
<1>2. last \in Nat /\ last <= Len(text)
  <2> HIDE DEF text
  <2>1. offset[p] + Block \in Nat /\ Len(text) \in Nat
    BY <1>1, SizeAssumption
  <2> QED BY <2>1, MinOfTwo
<1>3. Chunk(p) = SubSeq(text, offset[p] + 1, last)
  BY DEF Chunk
<1> HIDE DEF text, last
<1> QED BY <1>1, <1>2, <1>3 DEF Text

\* The part of the buffer that one fgets looks at.
LEMMA WindowType ==
  ASSUME TypeInv, NEW p \in Proc
  PROVE  /\ Window(p) \in Text
         /\ Len(Window(p)) = LineBuf - 1 \/ Len(Window(p)) = Len(buffer[p])
         /\ Len(Window(p)) <= LineBuf - 1 /\ Len(Window(p)) <= Len(buffer[p])
         /\ \A i \in 1 .. Len(Window(p)) : Window(p)[i] = buffer[p][i]
<1> DEFINE text == buffer[p]
           last == Min({LineBuf - 1, Len(text)})
<1>0. buffer[p] \in Text
  BY DEF TypeInv, Shapes
<1>1. Len(text) \in Nat /\ text \in Seq(Char)
  BY <1>0 DEF Text
<1>2. LineBuf - 1 \in Nat
  BY SizeAssumption
<1>3. /\ last \in Nat /\ last <= LineBuf - 1 /\ last <= Len(text)
      /\ last = LineBuf - 1 \/ last = Len(text)
  BY <1>1, <1>2 DEF Min
<1>4. Window(p) = SubSeq(text, 1, last)
  BY DEF Window
<1> HIDE DEF last, text
<1>5. \A i \in 1 .. last : text[i] \in Char
  BY <1>1, <1>3
<1>6. /\ SubSeq(text, 1, last) \in Seq(Char) /\ Len(SubSeq(text, 1, last)) = last
      /\ \A i \in 1 .. last : SubSeq(text, 1, last)[i] = text[i]
  BY <1>3, <1>5, SubSeqProperties
<1> QED BY <1>3, <1>4, <1>6 DEF Text, text

\* fgets finds the first newline of what it looks at, if there is one.
LEMMA LineEndIs ==
  ASSUME TypeInv, NEW p \in Proc
  PROVE  \/ /\ LineEnd(p) = 0
            /\ \A i \in 1 .. Len(Window(p)) : Window(p)[i] # LF
         \/ /\ LineEnd(p) \in 1 .. Len(Window(p)) /\ Window(p)[LineEnd(p)] = LF
            /\ \A i \in 1 .. LineEnd(p) - 1 : Window(p)[i] # LF
<1> DEFINE I == {i \in 1 .. Len(Window(p)) : Window(p)[i] = LF}
<1>1. LineEnd(p) = IF I # {} THEN Min(I) ELSE 0
  BY DEF LineEnd, SelectInSeq
<1>2. I # {} => Min(I) \in I /\ \A y \in I : Min(I) <= y
  <2>1. I \subseteq Nat
    OBVIOUS
  <2>2. I # {} => \E x \in I : \A y \in I : x <= y
    BY <2>1, LeastNat
  <2> HIDE DEF I
  <2> QED BY <2>2 DEF Min
<1>3. Len(Window(p)) \in Nat
  BY WindowType DEF Text
<1>4. CASE I = {}
  BY <1>1, <1>4
<1>5. CASE I # {}
  <2> DEFINE m == Min(I)
  <2>1. m \in I /\ LineEnd(p) = m /\ \A y \in I : m <= y
    BY <1>1, <1>2, <1>5
  <2> HIDE DEF m
  <2>2. \A i \in 1 .. m - 1 : Window(p)[i] # LF
    BY <1>3, <2>1
  <2> QED BY <2>1, <2>2
<1> QED BY <1>4, <1>5

\* What fgets takes from its buffer has a length.
LEMMA LineLengthType ==
  ASSUME TypeInv, NEW p \in Proc
  PROVE  LineLength(p) \in Nat
<1>1. Len(Window(p)) \in Nat
  BY WindowType DEF Text
<1> QED BY <1>1, LineEndIs DEF LineLength

\* The invariant holds when the processes are started.
LEMMA TypeInit == Init => TypeInv
<1> SUFFICES ASSUME Init PROVE TypeInv
  OBVIOUS
<1>1. Shapes
  <2>1. PICK data \in InitialData :
          /\ exists = [t \in Table |-> data[t] # NoFile]
          /\ bytes  = [t \in Table |-> IF data[t] = NoFile THEN <<>> ELSE data[t]]
    BY DEF Init
  <2>2. data \in [Table -> Text \cup {NoFile}]
    BY SizeAssumption
  <2>3. bytes \in [Table -> Text]
    BY <2>1, <2>2 DEF Text
  <2> QED BY <2>1, <2>3 DEF Init, Shapes, Text
<1>2. Control
  BY DEF Init, Control, Inserting, Selecting
<1> QED BY <1>1, <1>2 DEF TypeInv

\* Every step of every process keeps the invariant.
LEMMA TypeNext == TypeInv /\ [Next]_vars => TypeInv'
<1> SUFFICES ASSUME TypeInv, [Next]_vars PROVE TypeInv'
  OBVIOUS
<1>1. ASSUME NEW p \in Proc, Parse(p) PROVE TypeInv'
  <2>1. Shapes'
    BY <1>1 DEF TypeInv, Shapes, Parse, Goto, files, reader, history, Stopped
  <2>2. Control'
    BY <1>1 DEF TypeInv, Shapes, Control, Inserting, Selecting, Statement, Parse, Goto
  <2> QED BY <2>1, <2>2 DEF TypeInv
<1>2. ASSUME NEW p \in Proc, Finish(p) PROVE TypeInv'
  <2>1. Shapes'
    BY <1>2 DEF TypeInv, Shapes, Finish, Goto, files, reader, history, Stopped
  <2>2. Control'
    BY <1>2 DEF TypeInv, Shapes, Control, Inserting, Selecting, Statement, Finish, Goto
  <2> QED BY <2>1, <2>2 DEF TypeInv
<1>3. ASSUME NEW p \in Proc, BeginInsert(p) PROVE TypeInv'
  <2>0. RowLine[Statement(p)] \in Text
    <3>1. /\ script[p] # NoScript /\ next[p] <= Len(script[p]) /\ script[p] \in Scripts
          /\ next[p] \in Nat \ {0} /\ Insertable(Statement(p)) /\ Statement(p).type = "INSERT"
      BY <1>3 DEF BeginInsert, AtStatement, TypeInv, Shapes, Control
    <3>2. script[p] \in Seq(StatementType)
      BY <3>1, ScriptsAssumption
    <3>3. Statement(p) \in Range(script[p])
      BY <3>1, <3>2 DEF Statement, Range
    <3>4. Statement(p) \in Inserts
      BY <3>1, <3>3 DEF Inserts
    <3> QED BY <3>4, RowLineType
  <2>1. Shapes'
    BY <1>3, <2>0 DEF TypeInv, Shapes,
               BeginInsert, Goto, AtStatement, files, reader, history
  <2>2. Control'
    BY <1>3 DEF TypeInv, Shapes, Control, Inserting, Selecting, Statement,
               BeginInsert, Goto, AtStatement
  <2> QED BY <2>1, <2>2 DEF TypeInv
<1>4. ASSUME NEW p \in Proc, RejectInsert(p) PROVE TypeInv'
  <2>1. Shapes'
    BY <1>4 DEF TypeInv, Shapes,
               RejectInsert, Fail, Goto, AtStatement, files, reader, history, Stopped
  <2>2. Control'
    BY <1>4 DEF TypeInv, Shapes, Control, Inserting, Selecting, Statement,
               RejectInsert, Fail, Goto, AtStatement
  <2> QED BY <2>1, <2>2 DEF TypeInv
<1>5. ASSUME NEW p \in Proc, OpenAppend(p) PROVE TypeInv'
  <2>1. Shapes'
    BY <1>5 DEF TypeInv, Shapes, OpenAppend, Goto, reader, history
  <2>2. Control'
    BY <1>5 DEF TypeInv, Shapes, Control, Inserting, Selecting, Statement,
               OpenAppend, Goto
  <2> QED BY <2>1, <2>2 DEF TypeInv
<1>6. ASSUME NEW p \in Proc, ReportInsert(p) PROVE TypeInv'
  <2>0. next' \in [Proc -> Nat \ {0}]
    <3>1. next' = [next EXCEPT ![p] = @ + 1]
      BY <1>6 DEF ReportInsert, Report
    <3>2. next \in [Proc -> Nat \ {0}]
      BY DEF TypeInv, Shapes
    <3> QED BY <3>1, <3>2
  <2>1. Shapes'
    BY <1>6, <2>0 DEF TypeInv, Shapes, ReportInsert, Goto, Report, files, reader
  <2>2. Control'
    BY <1>6 DEF TypeInv, Shapes, Control, Inserting, Selecting, Statement,
               ReportInsert, Goto, Report
  <2> QED BY <2>1, <2>2 DEF TypeInv
<1>7. ASSUME NEW p \in Proc, OpenFails(p) PROVE TypeInv'
  <2>1. Shapes'
    BY <1>7 DEF TypeInv, Shapes, OpenFails, Fail, Goto, files, reader, history, Stopped
  <2>2. Control'
    BY <1>7 DEF TypeInv, Shapes, Control, Inserting, Selecting, Statement,
               OpenFails, Fail, Goto
  <2> QED BY <2>1, <2>2 DEF TypeInv
<1>8. ASSUME NEW p \in Proc, BeginSelect(p) PROVE TypeInv'
  <2>1. Shapes'
    BY <1>8 DEF TypeInv, Shapes, BeginSelect, Goto, AtStatement, files, reader, history
  <2>2. Control'
    BY <1>8 DEF TypeInv, Shapes, Control, Inserting, Selecting, Statement,
               BeginSelect, Goto, AtStatement
  <2> QED BY <2>1, <2>2 DEF TypeInv
<1>9. ASSUME NEW p \in Proc, RejectSelect(p) PROVE TypeInv'
  <2>1. Shapes'
    BY <1>9 DEF TypeInv, Shapes,
               RejectSelect, Fail, Goto, AtStatement, files, reader, history, Stopped
  <2>2. Control'
    BY <1>9 DEF TypeInv, Shapes, Control, Inserting, Selecting, Statement,
               RejectSelect, Fail, Goto, AtStatement
  <2> QED BY <2>1, <2>2 DEF TypeInv
<1>10. ASSUME NEW p \in Proc, MissingData(p) PROVE TypeInv'
  <2>1. Shapes'
    BY <1>10 DEF TypeInv, Shapes, MissingData, Goto, files, reader, history
  <2>2. Control'
    BY <1>10 DEF TypeInv, Shapes, Control, Inserting, Selecting, Statement,
               MissingData, Goto
  <2> QED BY <2>1, <2>2 DEF TypeInv
<1>11. ASSUME NEW p \in Proc, OpenRead(p) PROVE TypeInv'
  <2>1. Shapes'
    BY <1>11, EmptyText DEF TypeInv, Shapes, OpenRead, Goto, files, history
  <2>2. Control'
    BY <1>11 DEF TypeInv, Shapes, Control, Inserting, Selecting, Statement, OpenRead, Goto
  <2> QED BY <2>1, <2>2 DEF TypeInv
<1>12. ASSUME NEW p \in Proc, CreateEmpty(p) PROVE TypeInv'
  <2>1. Shapes'
    BY <1>12, EmptyText DEF TypeInv, Shapes, CreateEmpty, Goto, reader, history
  <2>2. Control'
    BY <1>12 DEF TypeInv, Shapes, Control, Inserting, Selecting, Statement,
               CreateEmpty, Goto
  <2> QED BY <2>1, <2>2 DEF TypeInv
<1>13. ASSUME NEW p \in Proc, EndSelect(p) PROVE TypeInv'
  <2>0. next' \in [Proc -> Nat \ {0}]
    <3>1. next' = [next EXCEPT ![p] = @ + 1]
      BY <1>13 DEF EndSelect, Report
    <3>2. next \in [Proc -> Nat \ {0}]
      BY DEF TypeInv, Shapes
    <3> QED BY <3>1, <3>2
  <2>1. Shapes'
    BY <1>13, <2>0 DEF TypeInv, Shapes, EndSelect, Goto, Report, files, reader, history
  <2>2. Control'
    BY <1>13 DEF TypeInv, Shapes, Control, Inserting, Selecting, Statement,
               EndSelect, Goto, Report
  <2> QED BY <2>1, <2>2 DEF TypeInv
<1>14. ASSUME NEW p \in Proc, ReadFails(p) PROVE TypeInv'
  <2>0. next' \in [Proc -> Nat \ {0}]
    <3>1. next' = [next EXCEPT ![p] = @ + 1]
      BY <1>14 DEF ReadFails, Report
    <3>2. next \in [Proc -> Nat \ {0}]
      BY DEF TypeInv, Shapes
    <3> QED BY <3>1, <3>2
  <2>1. Shapes'
    BY <1>14, <2>0 DEF TypeInv, Shapes, ReadFails, Goto, Report, files, reader, history
  <2>2. Control'
    BY <1>14 DEF TypeInv, Shapes, Control, Inserting, Selecting, Statement,
               ReadFails, Goto, Report
  <2> QED BY <2>1, <2>2 DEF TypeInv
<1>15. ASSUME NEW p \in Proc, BadLine(p) PROVE TypeInv'
  <2>1. Shapes'
    BY <1>15 DEF TypeInv, Shapes, BadLine, Fail, Goto, files, reader, history, Stopped
  <2>2. Control'
    BY <1>15 DEF TypeInv, Shapes, Control, Inserting, Selecting, Statement,
               BadLine, Fail, Goto
  <2> QED BY <2>1, <2>2 DEF TypeInv
<1>16. ASSUME NEW p \in Proc, Kill(p) PROVE TypeInv'
  <2>1. Shapes'
    BY <1>16 DEF TypeInv, Shapes, Kill, Goto, files, reader, history, Stopped
  <2>2. Control'
    BY <1>16 DEF TypeInv, Shapes, Control, Inserting, Selecting, Statement, Kill, Goto
  <2> QED BY <2>1, <2>2 DEF TypeInv
<1>17. ASSUME NEW p \in Proc, Fputs(p) PROVE TypeInv'
  <2>1. pc[p] \in Inserting /\ WholeBlocks(p) \in 0 .. Len(pending[p]) /\ pending[p] \in Text
    BY <1>17, WholeBlocksBound DEF Fputs, Inserting, TypeInv, Shapes
  <2>2. bytes' \in [Table -> Text]
    BY <1>17, <2>1, AppendType DEF Fputs
  <2>3. SubSeq(pending[p], WholeBlocks(p) + 1, Len(pending[p])) \in Text
    BY <2>1 DEF Text
  <2>4. began' \in [Proc -> Nat]
    <3>1. WholeBlocks(p) \in Nat
      BY <2>1 DEF Text
    <3> QED BY <1>17, <2>1, <3>1, RowBeginsType DEF Fputs
  <2>5. Shapes'
    BY <1>17, <2>2, <2>3, <2>4 DEF TypeInv, Shapes, Fputs, Goto, reader
  <2>6. Control'
    BY <1>17 DEF TypeInv, Shapes, Control, Inserting, Selecting, Statement, Fputs, Goto
  <2> QED BY <2>5, <2>6 DEF TypeInv
<1>18. ASSUME NEW p \in Proc, FputsFails(p) PROVE TypeInv'
  <2>1. pc[p] \in Inserting /\ WholeBlocks(p) \in 0 .. Len(pending[p]) /\ Len(pending[p]) \in Nat
    <3>1. pending[p] \in Text
      BY DEF TypeInv, Shapes
    <3> QED BY <1>18, <3>1, WholeBlocksBound DEF FputsFails, Inserting, Text
  <2>2. PICK n \in 0 .. WholeBlocks(p) - 1 : AppendBytes(p, n)
    BY <1>18 DEF FputsFails
  <2>3. bytes' \in [Table -> Text]
    BY <2>1, <2>2, AppendType
  <2>4. Shapes'
    BY <1>18, <2>3 DEF TypeInv, Shapes, FputsFails, Goto, reader, history, Stopped
  <2>5. Control'
    BY <1>18 DEF TypeInv, Shapes, Control, Inserting, Selecting, Statement, FputsFails, Goto
  <2> QED BY <2>4, <2>5 DEF TypeInv
<1>19. ASSUME NEW p \in Proc, Fclose(p) PROVE TypeInv'
  <2>1. pc[p] \in Inserting /\ pending[p] \in Text /\ Len(pending[p]) \in Nat
    <3>1. pending[p] \in Text
      BY DEF TypeInv, Shapes
    <3>2. Len(pending[p]) \in Nat
      BY <3>1 DEF Text
    <3> QED BY <1>19, <3>1, <3>2 DEF Fclose, Inserting
  <2>2. PICK n \in 0 .. Len(pending[p]) : AppendBytes(p, n)
    <3>1. PICK n \in IF Faults THEN 0 .. Len(pending[p]) ELSE {Len(pending[p])} :
            AppendBytes(p, n)
      BY <1>19 DEF Fclose
    <3>2. n \in 0 .. Len(pending[p])
      BY <2>1
    <3> QED BY <3>1, <3>2
  <2>3. bytes' \in [Table -> Text]
    BY <2>1, <2>2, AppendType
  <2>4. began' \in [Proc -> Nat]
    BY <1>19, <2>1, RowBeginsType DEF Fclose
  <2>5. Shapes'
    BY <1>19, <2>3, <2>4, EmptyText DEF TypeInv, Shapes, Fclose, Goto, reader
  <2>6. Control'
    BY <1>19 DEF TypeInv, Shapes, Control, Inserting, Selecting, Statement, Fclose, Goto
  <2> QED BY <2>5, <2>6 DEF TypeInv
<1>20. ASSUME NEW p \in Proc, Refill(p) PROVE TypeInv'
  <2>1. Chunk(p) \in Text /\ Len(Chunk(p)) \in Nat
    <3>1. Chunk(p) \in Text
      BY <1>20, ChunkType DEF Refill, Selecting
    <3> QED BY <3>1 DEF Text
  <2>2. buffer[p] \o Chunk(p) \in Text
    <3>1. buffer[p] \in Text
      BY DEF TypeInv, Shapes
    <3> QED BY <2>1, <3>1 DEF Text
  <2>3. offset' \in [Proc -> Nat]
    <3>1. offset \in [Proc -> Nat]
      BY DEF TypeInv, Shapes
    <3> QED BY <1>20, <2>1, <3>1 DEF Refill
  <2>4. Shapes'
    BY <1>20, <2>2, <2>3 DEF TypeInv, Shapes, Refill, ReadsNothing, files, history
  <2>5. Control'
    BY <1>20 DEF TypeInv, Shapes, Control, Inserting, Selecting, Statement, Refill
  <2> QED BY <2>4, <2>5 DEF TypeInv
<1>21. ASSUME NEW p \in Proc, NextLine(p) PROVE TypeInv'
  <2>1. SubSeq(buffer[p], LineLength(p) + 1, Len(buffer[p])) \in Text
    <3>1. buffer[p] \in Text /\ LineLength(p) \in Nat
      BY LineLengthType DEF TypeInv, Shapes
    <3> QED BY <3>1 DEF Text
  <2>2. Shapes'
    BY <1>21, <2>1 DEF TypeInv, Shapes, NextLine, files, history
  <2>3. Control'
    BY <1>21 DEF TypeInv, Shapes, Control, Inserting, Selecting, Statement, NextLine
  <2> QED BY <2>2, <2>3 DEF TypeInv
<1>22. CASE UNCHANGED vars
  BY <1>22 DEF TypeInv, Shapes, Control, Inserting, Selecting, Statement,
               vars, files, reader, history
<1> QED
  BY <1>1, <1>2, <1>3, <1>4, <1>5, <1>6, <1>7, <1>8, <1>9, <1>10, <1>11, <1>12,
     <1>13, <1>14, <1>15, <1>16, <1>17, <1>18, <1>19, <1>20, <1>21, <1>22
  DEF Next, Step, Insert, Select, Done

-----------------------------------------------------------------------------
\* A SELECT at work is on a table whose schema has been loaded.
Loaded == \A p \in Proc : pc[p] \in Selecting => ~LoadFails(File(p))

\* Every step keeps that; the table of a statement at work does not change.
LEMMA LoadedNext ==
  ASSUME TypeInv, Loaded, [Next]_vars
  PROVE  Loaded'
<1>0. pc \in [Proc -> {pc[q] : q \in Proc}] /\ next \in [Proc -> Nat \ {0}]
  BY DEF TypeInv, Shapes
<1> USE DEF Loaded, Selecting, File, Statement
<1>1. ASSUME NEW p \in Proc, Parse(p) PROVE Loaded'
  BY <1>0, <1>1 DEF Parse, Goto
<1>2. ASSUME NEW p \in Proc, Finish(p) PROVE Loaded'
  BY <1>0, <1>2 DEF Finish, Goto
<1>3. ASSUME NEW p \in Proc, BeginInsert(p) PROVE Loaded'
  BY <1>0, <1>3 DEF BeginInsert, Goto, AtStatement
<1>4. ASSUME NEW p \in Proc, RejectInsert(p) PROVE Loaded'
  BY <1>0, <1>4 DEF RejectInsert, Fail, Goto, AtStatement
<1>5. ASSUME NEW p \in Proc, OpenAppend(p) PROVE Loaded'
  BY <1>0, <1>5 DEF OpenAppend, Goto
<1>6. ASSUME NEW p \in Proc, Fputs(p) PROVE Loaded'
  BY <1>0, <1>6 DEF Fputs, Goto
<1>7. ASSUME NEW p \in Proc, FputsFails(p) PROVE Loaded'
  BY <1>0, <1>7 DEF FputsFails, Goto
<1>8. ASSUME NEW p \in Proc, Fclose(p) PROVE Loaded'
  BY <1>0, <1>8 DEF Fclose, Goto
<1>9. ASSUME NEW p \in Proc, ReportInsert(p) PROVE Loaded'
  BY <1>0, <1>9 DEF ReportInsert, Goto, Report
<1>10. ASSUME NEW p \in Proc, OpenFails(p) PROVE Loaded'
  BY <1>0, <1>10 DEF OpenFails, Fail, Goto
<1>11. ASSUME NEW p \in Proc, BeginSelect(p) PROVE Loaded'
  BY <1>0, <1>11 DEF BeginSelect, Goto, AtStatement, Selectable
<1>12. ASSUME NEW p \in Proc, RejectSelect(p) PROVE Loaded'
  BY <1>0, <1>12 DEF RejectSelect, Fail, Goto, AtStatement
<1>13. ASSUME NEW p \in Proc, OpenRead(p) PROVE Loaded'
  BY <1>0, <1>13 DEF OpenRead, Goto
<1>14. ASSUME NEW p \in Proc, MissingData(p) PROVE Loaded'
  BY <1>0, <1>14 DEF MissingData, Goto
<1>15. ASSUME NEW p \in Proc, CreateEmpty(p) PROVE Loaded'
  BY <1>0, <1>15 DEF CreateEmpty, Goto
<1>16. ASSUME NEW p \in Proc, Refill(p) PROVE Loaded'
  BY <1>0, <1>16 DEF Refill
<1>17. ASSUME NEW p \in Proc, NextLine(p) PROVE Loaded'
  BY <1>0, <1>17 DEF NextLine
<1>18. ASSUME NEW p \in Proc, BadLine(p) PROVE Loaded'
  BY <1>0, <1>18 DEF BadLine, Fail, Goto
<1>19. ASSUME NEW p \in Proc, EndSelect(p) PROVE Loaded'
  BY <1>0, <1>19 DEF EndSelect, Goto, Report
<1>20. ASSUME NEW p \in Proc, ReadFails(p) PROVE Loaded'
  BY <1>0, <1>20 DEF ReadFails, Goto, Report
<1>21. ASSUME NEW p \in Proc, Kill(p) PROVE Loaded'
  BY <1>0, <1>21 DEF Kill, Goto
<1>22. CASE UNCHANGED vars
  BY <1>22 DEF vars
<1> QED
  BY <1>1, <1>2, <1>3, <1>4, <1>5, <1>6, <1>7, <1>8, <1>9, <1>10, <1>11, <1>12,
     <1>13, <1>14, <1>15, <1>16, <1>17, <1>18, <1>19, <1>20, <1>21, <1>22
  DEF Next, Step, Insert, Select, Done

\* A step that makes a data file makes it for a table whose schema loads.
LEMMA NewFiles ==
  ASSUME TypeInv, Loaded, [Next]_vars, NEW t \in Table, ~exists[t], exists'[t]
  PROVE  ~LoadFails(t)
<1>0. exists \in [Table -> BOOLEAN]
  BY DEF TypeInv, Shapes
<1>1. ASSUME NEW p \in Proc, OpenAppend(p) PROVE ~LoadFails(t)
  <2>1. t = File(p)
    BY <1>0, <1>1 DEF OpenAppend
  <2> QED BY <1>1, <2>1 DEF OpenAppend, TypeInv, Control, Inserting, Insertable, File
<1>2. ASSUME NEW p \in Proc, CreateEmpty(p) PROVE ~LoadFails(t)
  <2>1. t = File(p)
    BY <1>0, <1>2 DEF CreateEmpty
  <2> QED BY <1>2, <2>1 DEF CreateEmpty, Loaded, Selecting
<1>3. ASSUME NEW p \in Proc, Step(p) \/ Kill(p), ~OpenAppend(p), ~CreateEmpty(p)
      PROVE  exists' = exists
  BY <1>3 DEF Step, Insert, Select, Kill, files, Parse, Finish, BeginInsert, RejectInsert, Fputs, FputsFails, Fclose, ReportInsert, OpenFails,
         BeginSelect, RejectSelect, OpenRead, MissingData, Refill, NextLine, BadLine, EndSelect, ReadFails,
         Fail
<1>4. CASE UNCHANGED vars
  BY <1>4 DEF vars, files
<1> QED BY <1>1, <1>2, <1>3, <1>4 DEF Next, Done

\* A data file comes into being only for a table whose schema loads, whatever
\* fails, however many invocations there are and whatever their scripts name.
THEOREM NoOrphanFiles == Spec => NoOrphanData
<1>1. Init => TypeInv /\ Loaded
  BY TypeInit DEF Init, Loaded, Selecting
<1>2. TypeInv /\ Loaded /\ [Next]_vars => (TypeInv /\ Loaded)'
  BY TypeNext, LoadedNext
<1>3. TypeInv /\ Loaded /\ [Next]_vars
      => [\A t \in Table : ~exists[t] /\ exists'[t] =>
                             Schema[t] # NoFile /\ Columns[t] # << <<>> >>]_vars
  BY NewFiles DEF LoadFails, Columns
<1> QED BY <1>1, <1>2, <1>3, PTL DEF Spec, NoOrphanData

-----------------------------------------------------------------------------
(* Files that only grow.                                                   *)

\* Statements at work are on tables that load, and none makes a data file anew.
Usable ==
  \A p \in Proc :
    /\ pc[p] \in Inserting \cup Selecting => ~LoadFails(File(p))
    /\ pc[p] \notin {"fopen wb", "fopen rb again"}

\* Every table that can be used has its data file.
Present == \A t \in Table : LoadFails(t) \/ exists[t]

GrowInv == TypeInv /\ Usable /\ Present

\* No call fails and every usable table has its data file: these steps are not taken.
LEMMA NotTaken ==
  ASSUME NothingErased, GrowInv, NEW p \in Proc
  PROVE  /\ ~FputsFails(p) /\ ~OpenFails(p) /\ ~ReadFails(p)
         /\ ~MissingData(p) /\ ~CreateEmpty(p)
<1>1. ~FputsFails(p) /\ ~OpenFails(p) /\ ~ReadFails(p)
  BY DEF NothingErased, FputsFails, OpenFails, ReadFails
<1>2. ~CreateEmpty(p)
  BY DEF GrowInv, Usable, CreateEmpty
<1>3. ASSUME pc[p] = "fopen rb" PROVE exists[File(p)]
  <2>1. File(p) \in Table /\ ~LoadFails(File(p))
    BY <1>3, CurrentStatement DEF GrowInv, Usable, Selecting
  <2> QED BY <2>1 DEF GrowInv, Present
<1>4. ~MissingData(p)
  BY <1>3 DEF NothingErased, MissingData
<1> QED BY <1>1, <1>2, <1>4

\* Statements at work have passed their checks.
LEMMA UsableNext ==
  ASSUME NothingErased, GrowInv, NEW p \in Proc, Step(p) \/ Kill(p)
  PROVE  Usable'
<1>0. pc \in [Proc -> {pc[q] : q \in Proc}] /\ next \in [Proc -> Nat \ {0}] /\ Usable
  BY DEF GrowInv, TypeInv, Shapes
<1> USE DEF Usable, Inserting, Selecting, Statement, File
<1>1. CASE Parse(p)
  BY <1>0, <1>1 DEF Parse, Goto
<1>2. CASE Finish(p)
  BY <1>0, <1>2 DEF Finish, Goto
<1>3. CASE BeginInsert(p)
  BY <1>0, <1>3 DEF BeginInsert, Goto, AtStatement, Insertable
<1>4. CASE RejectInsert(p)
  BY <1>0, <1>4 DEF RejectInsert, Fail, Goto, AtStatement
<1>5. CASE OpenAppend(p)
  BY <1>0, <1>5 DEF OpenAppend, Goto
<1>6. CASE BeginSelect(p)
  BY <1>0, <1>6 DEF BeginSelect, Goto, AtStatement, Selectable
<1>7. CASE RejectSelect(p)
  BY <1>0, <1>7 DEF RejectSelect, Fail, Goto, AtStatement
<1>8. CASE OpenRead(p)
  BY <1>0, <1>8 DEF OpenRead, Goto
<1>9. CASE Refill(p)
  BY <1>0, <1>9 DEF Refill
<1>10. CASE NextLine(p)
  BY <1>0, <1>10 DEF NextLine
<1>11. CASE BadLine(p)
  BY <1>0, <1>11 DEF BadLine, Fail, Goto
<1>12. CASE EndSelect(p)
  BY <1>0, <1>12 DEF EndSelect, Goto, Report
<1>13. CASE Kill(p)
  BY <1>0, <1>13 DEF Kill, Goto
<1>14. CASE ReportInsert(p)
  BY <1>0, <1>14 DEF ReportInsert, Goto, Report
<1>15. CASE Fclose(p)
  BY <1>0, <1>15 DEF Fclose, Goto
<1>16. CASE Fputs(p)
  BY <1>0, <1>16 DEF Fputs, Goto
<1> QED
  BY <1>1, <1>2, <1>3, <1>4, <1>5, <1>6, <1>7, <1>8, <1>9, <1>10, <1>11, <1>12, <1>13, <1>14,
     <1>15, <1>16, NotTaken DEF Step, Insert, Select

\* A step leaves a data file as it is or appends to it.
LEMMA FilesGrow ==
  ASSUME NothingErased, GrowInv, [Next]_vars, NEW t \in Table
  PROVE  /\ bytes[t] \in Text
         /\ \E s \in Text : bytes'[t] = bytes[t] \o s
         /\ exists[t] => exists'[t]
<1>1. /\ bytes \in [Table -> Text] /\ exists \in [Table -> BOOLEAN]
      /\ <<>> \in Text /\ bytes[t] \o <<>> = bytes[t]
  <2>1. bytes \in [Table -> Text] /\ exists \in [Table -> BOOLEAN]
    BY DEF GrowInv, TypeInv, Shapes
  <2> QED BY <2>1 DEF Text
<1>2. ASSUME NEW p \in Proc, NEW n \in 0 .. Len(pending[p]), AppendBytes(p, n)
      PROVE  \E s \in Text : bytes'[t] = bytes[t] \o s
  <2>1. SubSeq(pending[p], 1, n) \in Text
    <3>1. pending[p] \in Seq(Char)
      <4>1. pending[p] \in Text
        BY DEF GrowInv, TypeInv, Shapes
      <4> QED BY <4>1 DEF Text
    <3>2. SubSeq(pending[p], 1, n) \in Seq(Char)
      BY <3>1
    <3> QED BY <3>2 DEF Text
  <2>2. t = File(p) => bytes'[t] = bytes[t] \o SubSeq(pending[p], 1, n)
    BY <1>1, <1>2 DEF AppendBytes
  <2>3. t # File(p) => bytes'[t] = bytes[t]
    BY <1>1, <1>2 DEF AppendBytes
  <2> QED BY <1>1, <2>1, <2>2, <2>3
<1>3. ASSUME NEW p \in Proc, Fputs(p) \/ Fclose(p)
      PROVE  (\E s \in Text : bytes'[t] = bytes[t] \o s) /\ exists' = exists
  <2>1. Len(pending[p]) \in 0 .. Len(pending[p])
    <3>1. pending[p] \in Text
      BY DEF GrowInv, TypeInv, Shapes
    <3> QED BY <3>1 DEF Text
  <2>2. WholeBlocks(p) \in 0 .. Len(pending[p])
    BY WholeBlocksBound DEF GrowInv
  <2>3. Fclose(p) => AppendBytes(p, Len(pending[p]))
    BY DEF NothingErased, Fclose
  <2> QED BY <1>2, <1>3, <2>1, <2>2, <2>3 DEF Fputs, Fclose
<1>4. ASSUME NEW p \in Proc, OpenAppend(p) PROVE bytes' = bytes /\ (exists[t] => exists'[t])
  BY <1>1, <1>4 DEF OpenAppend
<1>5. ASSUME NEW p \in Proc, Step(p) \/ Kill(p), ~Fputs(p), ~Fclose(p), ~OpenAppend(p)
      PROVE  bytes' = bytes /\ exists' = exists
  BY <1>5, NotTaken DEF Step, Insert, Select, Kill, files, Parse, Finish, BeginInsert, RejectInsert,
         ReportInsert, BeginSelect, RejectSelect, OpenRead, Refill, NextLine, BadLine, EndSelect, Fail
<1>6. CASE UNCHANGED vars
  BY <1>1, <1>6 DEF vars, files
<1> QED BY <1>1, <1>3, <1>4, <1>5, <1>6 DEF Next, Done

\* The invariant holds at first and is kept.
LEMMA GrowInit ==
  ASSUME NothingErased, Init
  PROVE  GrowInv
<1>1. Usable
  BY DEF Init, Usable, Inserting, Selecting
<1>2. Present
  <2>1. PICK data \in InitialData : exists = [t \in Table |-> data[t] # NoFile]
    BY DEF Init
  <2> QED BY <2>1 DEF Present, NothingErased
<1> QED BY <1>1, <1>2, TypeInit DEF GrowInv

LEMMA GrowNext ==
  ASSUME NothingErased, GrowInv, [Next]_vars
  PROVE  GrowInv'
<1>1. TypeInv' /\ Present'
  BY TypeNext, FilesGrow DEF GrowInv, Present
<1>2. Usable'
  <2>1. ASSUME UNCHANGED vars PROVE Usable'
    BY <2>1 DEF GrowInv, Usable, Statement, File, vars
  <2> QED BY <2>1, UsableNext DEF Next, Done
<1> QED BY <1>1, <1>2 DEF GrowInv

\* A text is a prefix of what is appended to it.
LEMMA PrefixOfConcat ==
  ASSUME NEW text \in Text, NEW s \in Text
  PROVE  IsPrefix(text, text \o s)
<1>1. text \in Seq(Char) /\ s \in Seq(Char)
  BY DEF Text
<1>2. Len(text) <= Len(text \o s)
  BY <1>1
<1>3. SubSeq(text \o s, 1, Len(text)) = SubSeq(text, 1, Len(text))
  <2>1. CASE Len(text) = 0
    BY <1>1, <2>1
  <2>2. CASE Len(text) # 0
    <3>1. Len(text) \in Nat
      BY <1>1
    <3>2. 1 \in 1 .. Len(text) /\ Len(text) \in 1 .. Len(text)
      BY <2>2, <3>1
    <3> QED BY <1>1, <3>2, SubSeqOfConcat1
  <2> QED BY <2>1, <2>2
<1> QED BY <1>2, <1>3 DEF IsPrefix

\* When no call fails and the data files exist, a data file only grows: every
\* step of every invocation, SELECTs included, leaves what it held in place,
\* whatever it holds, however long the rows are and whoever is killed.
THEOREM OnlyGrows ==
  ASSUME NothingErased
  PROVE  Spec => AppendOnly
<1>1. Init => GrowInv
  BY GrowInit
<1>2. GrowInv /\ [Next]_vars => GrowInv'
  BY GrowNext
<1>3. GrowInv /\ [Next]_vars => [\A t \in Table : IsPrefix(bytes[t], bytes'[t])]_vars
  BY FilesGrow, PrefixOfConcat
<1> QED BY <1>1, <1>2, <1>3, PTL DEF Spec, AppendOnly

-----------------------------------------------------------------------------
(* Durability: acknowledged rows stay whole, every line stays a row, and   *)
(* no reader meets a line that it rejects.                                 *)
(*                                                                         *)
(* The invariant cannot speak of acknowledged rows only: a row is already  *)
(* safe when fclose has written it and INSERT 1 is still to be printed     *)
(* (Written), and fclose puts it on a line of its own only because fputs   *)
(* has written nothing of it (NothingWritten) and the file ends with a     *)
(* newline (WholeFiles).  A reader finds only whole lines because its      *)
(* buffer always begins where a line of its file begins (Readers).         *)

NothingWritten ==
  \A p \in Proc :
    pc[p] \in {"fopen ab", "fputs", "fclose"} => pending[p] = RowLine[Statement(p)]

WholeFiles ==
  \A t \in Table :
    ~LoadFails(t) => exists[t] /\ (bytes[t] = <<>> \/ Last(bytes[t]) = LF)

\* The row that p has written and not yet reported, as ReportInsert records it.
Record(p) == [proc |-> p, statement |-> next[p], table |-> File(p),
              line |-> RowLine[Statement(p)], at |-> began[p]]

Written == acked \cup {Record(p) : p \in {q \in Proc : pc[q] = "INSERT 1"}}

Row == [proc : Proc, statement : Nat \ {0}, table : Table, line : Text \ {<<>>}, at : Nat]

RowsKept ==
  /\ Written \subseteq Row
  /\ \A a \in Written : RowAt(a)
  /\ \A a, b \in Written : a # b /\ a.table = b.table => Disjoint(a, b)

DurableInv == TypeInv /\ NothingWritten /\ Usable /\ WholeFiles /\ RowsKept

-----------------------------------------------------------------------------
\* A row that has been written stays where it is when files only grow.
LEMMA RowStays ==
  ASSUME bytes \in [Table -> Text], NEW a \in Row, RowAt(a),
         NEW s \in Text, bytes'[a.table] = bytes[a.table] \o s
  PROVE  RowAt(a)'
<1> DEFINE text == bytes[a.table]
           n == Len(a.line)
<1>1. text \in Seq(Char) /\ s \in Seq(Char) /\ a.at \in Nat /\ a.line \in Seq(Char) \ {<<>>}
  BY DEF Row, Text
<1>2. bytes'[a.table] = text \o s
  OBVIOUS
<1>3. /\ a.at + n <= Len(text)
      /\ SubSeq(text, a.at + 1, a.at + n) = a.line
      /\ a.at = 0 \/ text[a.at] = LF
  BY DEF RowAt
<1> HIDE DEF text
<1>4. n \in Nat \ {0}
  BY <1>1
<1> HIDE DEF n
<1>5. /\ Len(text \o s) = Len(text) + Len(s) /\ Len(s) \in Nat
      /\ \A i \in 1 .. Len(text) : (text \o s)[i] = text[i]
  BY <1>1
<1>6. Len(text) \in Nat /\ a.at \in Nat /\ a.at + n <= Len(text)
  BY <1>1, <1>3
<1>7. SubSeq(text \o s, a.at + 1, a.at + n) = SubSeq(text, a.at + 1, a.at + n)
  <2>1. a.at + 1 \in 1 .. Len(text) /\ a.at + n \in 1 .. Len(text)
    BY <1>4, <1>6
  <2> QED BY <1>1, <2>1, SubSeqOfConcat1
<1>8. ASSUME a.at # 0 PROVE (text \o s)[a.at] = LF
  <2>1. a.at \in 1 .. Len(text)
    BY <1>4, <1>6, <1>8
  <2>2. text[a.at] = LF
    BY <1>3, <1>8
  <2> QED BY <1>5, <2>1, <2>2, Zenon
<1>9. a.at + n <= Len(text \o s)
  BY <1>4, <1>5, <1>6
<1> QED BY <1>2, <1>3, <1>7, <1>8, <1>9 DEF RowAt, n

\* Steps that change no data file and neither write nor report a row.
LEMMA RowsKeptQuietly ==
  ASSUME RowsKept, TypeInv, bytes' = bytes, acked' = acked, began' = began, script' = script,
         \A q \in Proc : pc'[q] = "INSERT 1" => pc[q] = "INSERT 1" /\ next'[q] = next[q]
  PROVE  RowsKept'
<1>1. ASSUME NEW q \in Proc, pc'[q] = "INSERT 1" PROVE Record(q)' = Record(q)
  BY <1>1 DEF Record, File, Statement
<1>2. Written' \subseteq Written
  BY <1>1 DEF Written
<1>3. \A a \in Written : RowAt(a)' = RowAt(a)
  BY DEF RowAt
<1>4. \A a \in Written' : RowAt(a)'
  BY <1>2, <1>3 DEF RowsKept
<1> QED BY <1>2, <1>4 DEF RowsKept, Disjoint, Row

\* A line appended to a text that is empty or ends with a newline.
LEMMA LineAppended ==
  ASSUME NEW text \in Text, text = <<>> \/ Last(text) = LF,
         NEW line \in Text \ {<<>>}, Last(line) = LF
  PROVE  /\ Len(text) + Len(line) <= Len(text \o line)
         /\ SubSeq(text \o line, Len(text) + 1, Len(text) + Len(line)) = line
         /\ Len(text) = 0 \/ (text \o line)[Len(text)] = LF
         /\ Last(text \o line) = LF
<1>1. text \in Seq(Char) /\ line \in Seq(Char) \ {<<>>}
  BY DEF Text
<1>2. Len(text) \in Nat /\ Len(line) \in Nat \ {0}
  BY <1>1
<1>3. /\ Len(text \o line) = Len(text) + Len(line)
      /\ \A i \in 1 .. Len(text) : (text \o line)[i] = text[i]
      /\ \A i \in 1 .. Len(line) : (text \o line)[Len(text) + i] = line[i]
  BY <1>1
<1>4. SubSeq(text \o line, Len(text) + 1, Len(text) + Len(line)) = line
  <2>1. /\ Len(text) + 1 \in Len(text) + 1 .. Len(text) + Len(line)
        /\ Len(text) + Len(line) \in Len(text) + 1 .. Len(text) + Len(line)
    BY <1>2
  <2>2. SubSeq(text \o line, Len(text) + 1, Len(text) + Len(line))
          = SubSeq(line, (Len(text) + 1) - Len(text), (Len(text) + Len(line)) - Len(text))
    BY <1>1, <2>1, SubSeqOfConcat2
  <2>3. (Len(text) + 1) - Len(text) = 1 /\ (Len(text) + Len(line)) - Len(text) = Len(line)
    BY <1>2
  <2>4. SubSeq(line, 1, Len(line)) = line
    BY <1>1
  <2> QED BY <2>2, <2>3, <2>4
<1>5. ASSUME Len(text) # 0 PROVE (text \o line)[Len(text)] = LF
  <2>1. Len(text) \in 1 .. Len(text) /\ text # <<>>
    BY <1>2, <1>5
  <2>2. text[Len(text)] = LF
    BY <2>1 DEF Last
  <2> QED BY <1>3, <2>1, <2>2
<1>6. Last(text \o line) = LF
  <2>1. Len(line) \in 1 .. Len(line) /\ line[Len(line)] = LF
    BY <1>2 DEF Last
  <2>2. (text \o line)[Len(text) + Len(line)] = LF
    BY <1>3, <2>1
  <2> QED BY <1>3, <2>2 DEF Last
<1> QED BY <1>2, <1>3, <1>4, <1>5, <1>6

\* fputs writes nothing, so that fclose appends the line as a whole.
LEMMA FputsEffect ==
  ASSUME Undisturbed, DurableInv, NEW p \in Proc, Fputs(p)
  PROVE  bytes' = bytes /\ pending' = pending /\ began' = began
<1>1. /\ pc[p] \in Inserting /\ pending[p] = RowLine[Statement(p)]
      /\ pending \in [Proc -> Text] /\ bytes \in [Table -> Text] /\ File(p) \in Table
      /\ Statement(p) \in Inserts
  BY CurrentStatement DEF Fputs, DurableInv, NothingWritten, TypeInv, Shapes, Inserting
<1>2. pending[p] \in Seq(Char) /\ Len(pending[p]) \in Nat /\ bytes[File(p)] \in Seq(Char)
  BY <1>1 DEF Text
<1>3. Len(pending[p]) < Block
  BY <1>1 DEF Undisturbed
<1>4. Len(pending[p]) % Block = Len(pending[p])
  BY <1>2, <1>3, RemainderSmall, SizeAssumption
<1>5. WholeBlocks(p) = 0
  BY <1>2, <1>4 DEF WholeBlocks
<1>6. SubSeq(pending[p], 1, 0) = <<>> /\ SubSeq(pending[p], 0 + 1, Len(pending[p])) = pending[p]
  BY <1>2
<1>7. bytes' = [bytes EXCEPT ![File(p)] = bytes[File(p)] \o <<>>]
  BY <1>5, <1>6 DEF Fputs, AppendBytes
<1>8. bytes[File(p)] \o <<>> = bytes[File(p)]
  BY <1>2
<1>9. pending' = [pending EXCEPT ![p] = pending[p]]
  BY <1>5, <1>6 DEF Fputs
<1>10. began' = began
  BY <1>5 DEF Fputs, RowBegins
<1> QED BY <1>1, <1>7, <1>8, <1>9, <1>10

\* fclose appends the line as a whole, where the file ended.
LEMMA FcloseEffect ==
  ASSUME Undisturbed, DurableInv, NEW p \in Proc, Fclose(p)
  PROVE  /\ File(p) \in Table /\ ~LoadFails(File(p))
         /\ RowLine[Statement(p)] \in Text \ {<<>>} /\ Last(RowLine[Statement(p)]) = LF
         /\ bytes' = [bytes EXCEPT ![File(p)] = @ \o RowLine[Statement(p)]]
         /\ began' = [began EXCEPT ![p] = Len(bytes[File(p)])]
<1>1. /\ pc[p] \in Inserting /\ pending[p] = RowLine[Statement(p)] /\ ~LoadFails(File(p))
      /\ bytes \in [Table -> Text] /\ File(p) \in Table
      /\ Statement(p) \in Inserts
  BY CurrentStatement DEF Fclose, DurableInv, NothingWritten, Usable, TypeInv, Shapes, Inserting
<1>2. RowLine[Statement(p)] \in Text \ {<<>>} /\ Last(RowLine[Statement(p)]) = LF
  BY <1>1, RowLineType
<1>3. pending[p] \in Seq(Char) /\ Len(pending[p]) \in Nat /\ Len(bytes[File(p)]) \in Nat
  BY <1>1, <1>2 DEF Text
<1>4. AppendBytes(p, Len(pending[p]))
  BY DEF Undisturbed, Fclose
<1>5. SubSeq(pending[p], 1, Len(pending[p])) = pending[p]
  BY <1>3
<1>6. bytes' = [bytes EXCEPT ![File(p)] = @ \o RowLine[Statement(p)]]
  BY <1>1, <1>4, <1>5 DEF AppendBytes
<1>7. Len(pending[p]) > 0
  BY <1>1, <1>2, <1>3 DEF Text
<1>8. began' = [began EXCEPT ![p] = Len(bytes[File(p)])]
  BY <1>1, <1>7 DEF Fclose, RowBegins
<1> QED BY <1>1, <1>2, <1>6, <1>8

\* The row that fclose writes is on lines of its own, after all others.
LEMMA FcloseRows ==
  ASSUME Undisturbed, DurableInv, NEW p \in Proc, Fclose(p)
  PROVE  RowsKept' /\ WholeFiles'
<1> DEFINE t    == File(p)
           line == RowLine[Statement(p)]
<1>0. PICK row : row = [proc |-> p, statement |-> next[p], table |-> t,
                        line |-> line, at |-> Len(bytes[t])]
  OBVIOUS
<1>1. /\ t \in Table /\ ~LoadFails(t) /\ line \in Text \ {<<>>} /\ Last(line) = LF
      /\ bytes' = [bytes EXCEPT ![t] = @ \o line]
      /\ began' = [began EXCEPT ![p] = Len(bytes[t])]
  BY FcloseEffect
<1>2. /\ bytes \in [Table -> Text] /\ began \in [Proc -> Nat]
      /\ next \in [Proc -> Nat \ {0}]
  BY DEF DurableInv, TypeInv, Shapes
<1>3. /\ \A q \in Proc \ {p} : pc'[q] = pc[q]
      /\ acked' = acked /\ next' = next /\ script' = script /\ exists' = exists
  BY DEF Fclose, Goto, DurableInv, TypeInv, Shapes
<1>4. bytes[t] \in Text /\ (bytes[t] = <<>> \/ Last(bytes[t]) = LF) /\ Len(bytes[t]) \in Nat
  <2>1. bytes[t] \in Text /\ (bytes[t] = <<>> \/ Last(bytes[t]) = LF)
    BY <1>1, <1>2 DEF DurableInv, WholeFiles
  <2> QED BY <2>1 DEF Text
<1>5. /\ bytes'[t] = bytes[t] \o line
      /\ \A u \in Table : u # t => bytes'[u] = bytes[u]
  BY <1>1, <1>2
<1>6. WholeFiles'
  <2>1. Last(bytes'[t]) = LF
    BY <1>1, <1>4, <1>5, LineAppended
  <2> SUFFICES ASSUME NEW u \in Table, ~LoadFails(u)
               PROVE  exists'[u] /\ (bytes'[u] = <<>> \/ Last(bytes'[u]) = LF)
    BY DEF WholeFiles
  <2>2. exists[u] /\ (bytes[u] = <<>> \/ Last(bytes[u]) = LF)
    BY DEF DurableInv, WholeFiles
  <2> QED BY <1>3, <1>5, <2>1, <2>2
<1>7. row \in Row
  BY <1>0, <1>1, <1>2, <1>4 DEF Row
<1>8. Written' \subseteq Written \cup {row}
  <2>1. ASSUME NEW q \in Proc, pc'[q] = "INSERT 1", q # p
        PROVE  pc[q] = "INSERT 1" /\ Record(q)' = Record(q)
    BY <1>1, <1>2, <1>3, <2>1, ZenonT(40) DEF Record, File, Statement
  <2>2. Record(p)' = row
    BY <1>0, <1>1, <1>2, <1>3, ZenonT(40) DEF Record, File, Statement
  <2> QED BY <1>3, <2>1, <2>2 DEF Written
<1>9. RowAt(row)'
  <2>1. /\ Len(bytes[t]) + Len(line) <= Len(bytes[t] \o line)
        /\ SubSeq(bytes[t] \o line, Len(bytes[t]) + 1, Len(bytes[t]) + Len(line)) = line
        /\ Len(bytes[t]) = 0 \/ (bytes[t] \o line)[Len(bytes[t])] = LF
    BY <1>1, <1>4, LineAppended
  <2>2. row.table = t /\ row.at = Len(bytes[t]) /\ row.line = line
    BY <1>0
  <2> HIDE DEF line, t
  <2>3. /\ row.at + Len(row.line) <= Len(bytes'[row.table])
        /\ SubSeq(bytes'[row.table], row.at + 1, row.at + Len(row.line)) = row.line
        /\ row.at = 0 \/ bytes'[row.table][row.at] = LF
    BY <1>5, <2>1, <2>2
  <2> QED BY <2>3 DEF RowAt
<1>10. ASSUME NEW a \in Written PROVE a \in Row /\ RowAt(a) /\ RowAt(a)'
  <2>1. a \in Row /\ RowAt(a)
    BY DEF DurableInv, RowsKept
  <2>2. a.table \in Table
    BY <2>1 DEF Row
  <2>3. CASE a.table = t
    BY <1>1, <1>2, <1>5, <2>1, <2>3, RowStays
  <2>4. CASE a.table # t
    BY <1>5, <2>1, <2>2, <2>4 DEF RowAt
  <2> QED BY <2>1, <2>3, <2>4
<1>11. ASSUME NEW a \in Written, a.table = t PROVE a.at + Len(a.line) <= row.at
  BY <1>0, <1>10, <1>11 DEF RowAt
<1>12. ASSUME NEW a \in Written', NEW b \in Written', a # b, a.table = b.table
       PROVE  Disjoint(a, b)
  <2>1. CASE a \in Written /\ b \in Written
    BY <1>12, <2>1 DEF DurableInv, RowsKept
  <2>2. CASE b = row
    <3>1. a \in Written /\ a.table = t
      BY <1>0, <1>8, <1>12, <2>2
    <3> QED BY <1>11, <2>2, <3>1 DEF Disjoint
  <2>3. CASE a = row
    <3>1. b \in Written /\ b.table = t
      BY <1>0, <1>8, <1>12, <2>3
    <3> QED BY <1>11, <2>3, <3>1 DEF Disjoint
  <2> QED BY <1>8, <2>1, <2>2, <2>3
<1>13. Written' \subseteq Row
  BY <1>7, <1>8, <1>10
<1>14. ASSUME NEW a \in Written' PROVE RowAt(a)'
  BY <1>8, <1>9, <1>10
<1>15. RowsKept'
  BY <1>12, <1>13, <1>14 DEF RowsKept, Disjoint, Row
<1> QED BY <1>6, <1>15

\* Where invocations cannot harm one another, files only grow.
LEMMA DurableGrows ==
  ASSUME Undisturbed, DurableInv
  PROVE  NothingErased /\ GrowInv
BY DEF Undisturbed, NothingErased, DurableInv, GrowInv, WholeFiles, Present

\* What the steps have in common that neither write nor report a row.
Quiet ==
  /\ bytes' = bytes /\ acked' = acked /\ began' = began /\ script' = script
  /\ \A t \in Table : exists[t] => exists'[t]
  /\ \A q \in Proc : pc'[q] = "INSERT 1" => pc[q] = "INSERT 1" /\ next'[q] = next[q]

\* Only fclose and the report of an INSERT touch rows.
LEMMA QuietSteps ==
  ASSUME Undisturbed, DurableInv, NEW p \in Proc, Step(p) \/ Kill(p),
         ~Fclose(p), ~ReportInsert(p)
  PROVE  Quiet
<1> USE DEF Quiet
<1>0. pc \in [Proc -> {pc[q] : q \in Proc}] /\ next \in [Proc -> Nat \ {0}] /\ exists \in [Table -> BOOLEAN]
  BY DEF DurableInv, TypeInv, Shapes
<1>1. CASE Parse(p)
  BY <1>0, <1>1 DEF Parse, Goto, files, reader, history
<1>2. CASE Finish(p)
  BY <1>0, <1>2 DEF Finish, Goto, files, reader, history
<1>3. CASE BeginInsert(p)
  BY <1>0, <1>3 DEF BeginInsert, Goto, AtStatement, files, reader, history
<1>4. CASE RejectInsert(p)
  BY <1>0, <1>4 DEF RejectInsert, Fail, Goto, AtStatement, files, reader, history
<1>5. CASE OpenAppend(p)
  BY <1>0, <1>5 DEF OpenAppend, Goto, reader, history
<1>6. CASE BeginSelect(p)
  BY <1>0, <1>6 DEF BeginSelect, Goto, AtStatement, files, reader, history
<1>7. CASE RejectSelect(p)
  BY <1>0, <1>7 DEF RejectSelect, Fail, Goto, AtStatement, files, reader, history
<1>8. CASE OpenRead(p)
  BY <1>0, <1>8 DEF OpenRead, Goto, files, history
<1>9. CASE Refill(p)
  BY <1>0, <1>9 DEF Refill, files, history
<1>10. CASE NextLine(p)
  BY <1>0, <1>10 DEF NextLine, files, history
<1>11. CASE BadLine(p)
  BY <1>0, <1>11 DEF BadLine, Fail, Goto, files, reader, history
<1>12. CASE EndSelect(p)
  BY <1>0, <1>12 DEF EndSelect, Goto, Report, files, reader, history
<1>13. CASE Kill(p)
  BY <1>0, <1>13 DEF Kill, Goto, files, reader, history
<1>14. CASE Fputs(p)
  BY <1>0, <1>14, FputsEffect DEF Fputs, Goto, reader, history
<1> QED
  BY <1>1, <1>2, <1>3, <1>4, <1>5, <1>6, <1>7, <1>8, <1>9, <1>10, <1>11, <1>12, <1>13, <1>14, NotTaken, DurableGrows DEF Step, Insert, Select

\* fputs leaves the whole line to fclose.
LEMMA ProcessSteps ==
  ASSUME Undisturbed, DurableInv, NEW p \in Proc, Step(p) \/ Kill(p)
  PROVE  NothingWritten'
<1>0. /\ pc \in [Proc -> {pc[q] : q \in Proc}] /\ next \in [Proc -> Nat \ {0}]
      /\ pending \in [Proc -> Text]
      /\ NothingWritten
  BY DEF DurableInv, TypeInv, Shapes
<1> USE DEF NothingWritten, Statement
<1>1. CASE Parse(p)
  BY <1>0, <1>1 DEF Parse, Goto
<1>2. CASE Finish(p)
  BY <1>0, <1>2 DEF Finish, Goto
<1>3. CASE BeginInsert(p)
  BY <1>0, <1>3 DEF BeginInsert, Goto, AtStatement
<1>4. CASE RejectInsert(p)
  BY <1>0, <1>4 DEF RejectInsert, Fail, Goto, AtStatement
<1>5. CASE OpenAppend(p)
  BY <1>0, <1>5 DEF OpenAppend, Goto
<1>6. CASE BeginSelect(p)
  BY <1>0, <1>6 DEF BeginSelect, Goto, AtStatement
<1>7. CASE RejectSelect(p)
  BY <1>0, <1>7 DEF RejectSelect, Fail, Goto, AtStatement
<1>8. CASE OpenRead(p)
  BY <1>0, <1>8 DEF OpenRead, Goto
<1>9. CASE Refill(p)
  BY <1>0, <1>9 DEF Refill
<1>10. CASE NextLine(p)
  BY <1>0, <1>10 DEF NextLine
<1>11. CASE BadLine(p)
  BY <1>0, <1>11 DEF BadLine, Fail, Goto
<1>12. CASE EndSelect(p)
  BY <1>0, <1>12 DEF EndSelect, Goto, Report
<1>13. CASE Kill(p)
  BY <1>0, <1>13 DEF Kill, Goto
<1>14. CASE ReportInsert(p)
  BY <1>0, <1>14 DEF ReportInsert, Goto, Report
<1>15. CASE Fclose(p)
  BY <1>0, <1>15 DEF Fclose, Goto
<1>16. CASE Fputs(p)
  BY <1>0, <1>16, FputsEffect DEF Fputs, Goto
<1> QED
  BY <1>1, <1>2, <1>3, <1>4, <1>5, <1>6, <1>7, <1>8, <1>9, <1>10, <1>11, <1>12, <1>13, <1>14, <1>15, <1>16, NotTaken, DurableGrows DEF Step, Insert, Select

\* Reporting a row moves it from the written to the acknowledged.
LEMMA ReportRows ==
  ASSUME DurableInv, NEW p \in Proc, ReportInsert(p)
  PROVE  RowsKept' /\ WholeFiles'
<1>1. /\ pc[p] = "INSERT 1" /\ bytes' = bytes /\ exists' = exists /\ began' = began
      /\ acked' = acked \cup {Record(p)} /\ script' = script
      /\ pc'[p] = "statement" /\ \A q \in Proc \ {p} : pc'[q] = pc[q] /\ next'[q] = next[q]
  BY DEF DurableInv, TypeInv, Shapes, ReportInsert, Report, Goto, Record, files
<1>2. ASSUME NEW q \in Proc, pc'[q] = "INSERT 1"
      PROVE  pc[q] = "INSERT 1" /\ Record(q)' = Record(q)
  BY <1>1, <1>2 DEF Record, File, Statement
<1>3. Written' \subseteq Written
  BY <1>1, <1>2 DEF Written
<1>4. \A a \in Written : RowAt(a)' = RowAt(a)
  BY <1>1 DEF RowAt
<1>5. \A a \in Written' : RowAt(a)'
  BY <1>3, <1>4 DEF DurableInv, RowsKept
<1>6. RowsKept'
  BY <1>3, <1>5 DEF DurableInv, RowsKept, Disjoint, Row
<1> QED BY <1>1, <1>6 DEF DurableInv, WholeFiles

\* The invariant holds when the processes are started.
LEMMA DurableInit ==
  ASSUME Undisturbed, Init
  PROVE  DurableInv
<1>1. TypeInv
  BY TypeInit
<1>2. NothingWritten /\ Usable
  BY DEF Init, NothingWritten, Usable, Inserting, Selecting
<1>3. WholeFiles
  <2>1. PICK data \in InitialData :
          /\ exists = [t \in Table |-> data[t] # NoFile]
          /\ bytes  = [t \in Table |-> IF data[t] = NoFile THEN <<>> ELSE data[t]]
    BY DEF Init
  <2> QED BY <2>1 DEF WholeFiles, Undisturbed
<1>4. Written = {}
  BY DEF Init, Written
<1> QED BY <1>1, <1>2, <1>3, <1>4 DEF DurableInv, RowsKept

\* Every step of every process keeps the invariant.
LEMMA DurableNext ==
  ASSUME Undisturbed, DurableInv, [Next]_vars
  PROVE  DurableInv'
<1>1. TypeInv'
  BY TypeNext DEF DurableInv
<1>2. ASSUME NEW p \in Proc, Step(p) \/ Kill(p) PROVE DurableInv'
  <2>1. NothingWritten' /\ Usable'
    BY <1>2, ProcessSteps, UsableNext, DurableGrows
  <2>2. CASE Fclose(p)
    BY <1>1, <2>1, <2>2, FcloseRows DEF DurableInv
  <2>3. CASE ReportInsert(p)
    BY <1>1, <2>1, <2>3, ReportRows DEF DurableInv
  <2>4. CASE ~Fclose(p) /\ ~ReportInsert(p)
    <3>1. Quiet
      BY <1>2, <2>4, QuietSteps
    <3>2. RowsKept'
      BY <3>1, RowsKeptQuietly DEF Quiet, DurableInv
    <3>3. WholeFiles'
      BY <3>1 DEF Quiet, DurableInv, WholeFiles
    <3> QED BY <1>1, <2>1, <3>2, <3>3 DEF DurableInv
  <2> QED BY <2>2, <2>3, <2>4
<1>3. CASE UNCHANGED vars
  <2>1. Quiet
    BY <1>3 DEF Quiet, vars, files, history
  <2>2. RowsKept'
    BY <2>1, RowsKeptQuietly DEF Quiet, DurableInv
  <2>3. NothingWritten' /\ Usable' /\ WholeFiles'
    BY <1>3 DEF DurableInv, NothingWritten, Usable, WholeFiles, Statement, File, vars, files
  <2> QED BY <1>1, <2>2, <2>3 DEF DurableInv
<1> QED BY <1>2, <1>3 DEF Next, Done

\* A step leaves a data file as it is or appends the line of one row to it.
LEMMA FileSteps ==
  ASSUME Undisturbed, DurableInv, [Next]_vars, NEW t \in Table
  PROVE  \/ bytes'[t] = bytes[t]
         \/ \E s \in Inserts : s.table = t /\ bytes'[t] = bytes[t] \o RowLine[s]
<1>1. bytes \in [Table -> Text]
  BY DEF DurableInv, TypeInv, Shapes
<1>2. ASSUME NEW p \in Proc, Fclose(p)
      PROVE  \/ bytes'[t] = bytes[t]
             \/ \E s \in Inserts : s.table = t /\ bytes'[t] = bytes[t] \o RowLine[s]
  <2>1. /\ Statement(p) \in Inserts /\ File(p) = Statement(p).table
        /\ bytes' = [bytes EXCEPT ![File(p)] = @ \o RowLine[Statement(p)]]
    BY <1>2, FcloseEffect, CurrentStatement DEF Fclose, File, Inserting, DurableInv
  <2> QED BY <1>1, <2>1
<1>3. ASSUME NEW p \in Proc, ReportInsert(p) PROVE bytes'[t] = bytes[t]
  BY <1>3 DEF ReportInsert, files
<1>4. ASSUME NEW p \in Proc, Step(p) \/ Kill(p), ~Fclose(p), ~ReportInsert(p)
      PROVE  bytes'[t] = bytes[t]
  BY <1>4, QuietSteps DEF Quiet
<1> QED BY <1>2, <1>3, <1>4 DEF Next, Done, vars, files

-----------------------------------------------------------------------------
\* Durability: when no call fails, rows fit into a stdio buffer and the data
\* files exist, no interleaving of any number of invocations and kills loses,
\* tears or overlaps a row that was reported with INSERT 1.
THEOREM Durable ==
  ASSUME Undisturbed
  PROVE  Spec => []AckedRowsDurable
<1>1. Init => DurableInv
  BY DurableInit
<1>2. DurableInv /\ [Next]_vars => DurableInv'
  BY DurableNext
<1>3. DurableInv => AckedRowsDurable
  BY DEF DurableInv, RowsKept, Written, AckedRowsDurable
<1> QED BY <1>1, <1>2, <1>3, PTL DEF Spec

-----------------------------------------------------------------------------
(* Rows stay rows.                                                         *)

\* A line appended to a text of whole lines is one more line of it.
LEMMA LinesAppended ==
  ASSUME NEW text \in Text, text = <<>> \/ Last(text) = LF,
         NEW line \in Text, {k \in DOMAIN line : line[k] = LF} = {Len(line)},
         NEW i \in DOMAIN (text \o line), NEW j \in i .. Len(text \o line),
         IsLine(text \o line, i, j)
  PROVE  \/ /\ i \in DOMAIN text /\ j \in i .. Len(text) /\ IsLine(text, i, j)
            /\ SubSeq(text \o line, i, j) = SubSeq(text, i, j)
         \/ SubSeq(text \o line, i, j) = line
<1> DEFINE m == Len(text)
           n == Len(line)
           both == text \o line
<1>0. text \in Seq(Char) /\ line \in Seq(Char)
  BY DEF Text
<1>1. /\ m \in Nat /\ n \in Nat /\ Len(both) = m + n /\ i \in 1 .. m + n /\ j \in i .. m + n
      /\ DOMAIN text = 1 .. m /\ DOMAIN line = 1 .. n
      /\ \A k \in 1 .. m : both[k] = text[k]
      /\ \A k \in 1 .. n : both[m + k] = line[k]
  <2>1. /\ m \in Nat /\ n \in Nat /\ Len(both) = m + n
        /\ DOMAIN text = 1 .. m /\ DOMAIN line = 1 .. n
        /\ \A k \in 1 .. m : both[k] = text[k]
        /\ \A k \in 1 .. n : both[m + k] = line[k]
    BY <1>0, SMTT(30)
  <2>2. i \in 1 .. m + n /\ j \in i .. m + n
    <3> HIDE DEF both
    <3> QED BY <2>1
  <2> QED BY <2>1, <2>2
<1>2. \A k \in 1 .. n : line[k] = LF <=> k = n
  BY <1>1
<1>3. m # 0 => text[m] = LF
  BY <1>0 DEF Last
<1>4. /\ i = 1 \/ both[i - 1] = LF
      /\ both[j] = LF
      /\ \A k \in i .. j - 1 : both[k] # LF
  BY DEF IsLine
<1>5. CASE j <= m
  <2>1. i \in 1 .. m /\ j \in i .. m /\ IsLine(text, i, j)
    BY <1>1, <1>4, <1>5 DEF IsLine
  <2>2. SubSeq(both, i, j) = SubSeq(text, i, j)
    BY <1>0, <2>1, SubSeqOfConcat1, SMTT(20)
  <2> QED BY <1>1, <2>1, <2>2
<1>6. CASE ~(j <= m)
  <2> HIDE DEF m, n, both
  <2>1. i > m
    <3> SUFFICES ASSUME ~(i > m) PROVE FALSE
      OBVIOUS
    <3>1. m \in 1 .. m /\ m \in i .. j - 1
      BY <1>1, <1>6
    <3> QED BY <1>1, <1>3, <1>4, <3>1
  <2>2. i = m + 1
    <3> SUFFICES ASSUME i # m + 1 PROVE FALSE
      OBVIOUS
    <3>1. (i - 1) - m \in 1 .. n - 1 /\ i - 1 = m + ((i - 1) - m) /\ i # 1
      BY <1>1, <2>1
    <3>2. both[i - 1] = line[(i - 1) - m]
      BY <1>1, <3>1
    <3> QED BY <1>1, <1>2, <1>4, <3>1, <3>2
  <2>3. j = m + n
    <3>1. j - m \in 1 .. n /\ j = m + (j - m)
      BY <1>1, <1>6
    <3>2. both[j] = line[j - m]
      BY <1>1, <3>1
    <3>3. j - m = n
      BY <1>2, <1>4, <3>1, <3>2
    <3> QED BY <1>1, <3>1, <3>3
  <2>4. n # 0
    BY <1>1, <2>2, <2>3
  <2>5. SubSeq(both, m + 1, m + n) = line
    <3>1. m + 1 \in m + 1 .. m + n /\ m + n \in m + 1 .. m + n
      BY <1>1, <2>4
    <3>2. SubSeq(both, m + 1, m + n) = SubSeq(line, (m + 1) - m, (m + n) - m)
      BY <1>0, <3>1, SubSeqOfConcat2 DEF m, n, both
    <3>3. (m + 1) - m = 1 /\ (m + n) - m = n
      BY <1>1
    <3>4. SubSeq(line, 1, n) = line
      BY <1>0 DEF n
    <3> QED BY <3>2, <3>3, <3>4
  <2> QED BY <2>2, <2>3, <2>5 DEF both
<1> QED BY <1>5, <1>6

\* A row appended to a text of whole rows makes a text of whole rows.
LEMMA WholeRowsAppended ==
  ASSUME NEW t, NEW text \in Text, WholeRows(t, text),
         NEW line \in Text, {k \in DOMAIN line : line[k] = LF} = {Len(line)},
         Len(SplitPipeLine(line)) = Len(Columns[t])
  PROVE  WholeRows(t, text \o line)
<1>1. /\ text = <<>> \/ Last(text) = LF
      /\ line \in Text \ {<<>>} /\ Last(line) = LF
  <2>1. Len(line) \in DOMAIN line /\ line[Len(line)] = LF
    OBVIOUS
  <2>2. line # <<>>
    BY <2>1
  <2> QED BY <2>1, <2>2 DEF WholeRows, Last
<1>2. \A i \in DOMAIN text : \A j \in i .. Len(text) :
         IsLine(text, i, j) => Len(SplitPipeLine(SubSeq(text, i, j))) = Len(Columns[t])
  BY DEF WholeRows, EveryLine
<1>3. Last(text \o line) = LF
  BY <1>1, LineAppended
<1>4. ASSUME NEW i \in DOMAIN (text \o line), NEW j \in i .. Len(text \o line),
             IsLine(text \o line, i, j)
      PROVE  Len(SplitPipeLine(SubSeq(text \o line, i, j))) = Len(Columns[t])
  <2>1. \/ /\ i \in DOMAIN text /\ j \in i .. Len(text) /\ IsLine(text, i, j)
           /\ SubSeq(text \o line, i, j) = SubSeq(text, i, j)
        \/ SubSeq(text \o line, i, j) = line
    BY <1>1, <1>4, LinesAppended
  <2>2. CASE SubSeq(text \o line, i, j) = line
    BY <2>2
  <2>3. CASE SubSeq(text \o line, i, j) # line
    <3>1. Len(SplitPipeLine(SubSeq(text, i, j))) = Len(Columns[t])
      BY <1>2, <2>1, <2>3
    <3> QED BY <2>1, <2>3, <3>1
  <2> QED BY <2>2, <2>3
<1> QED BY <1>3, <1>4 DEF WholeRows, EveryLine

AllRows  == \A t \in Table : LoadFails(t) \/ WholeRows(t, bytes[t])
AllShort == \A t \in Table :
              LoadFails(t) \/ EveryLine(bytes[t], LAMBDA line : Len(line) < LineBuf)

\* Every file keeps whole rows.
LEMMA RowsNext ==
  ASSUME Undisturbed, DurableInv, AllRows, [Next]_vars
  PROVE  AllRows'
<1> SUFFICES ASSUME NEW t \in Table, ~LoadFails(t) PROVE WholeRows(t, bytes'[t])
  BY DEF AllRows
<1>1. WholeRows(t, bytes[t]) /\ bytes[t] \in Text
  BY DEF AllRows, DurableInv, TypeInv, Shapes
<1>2. ASSUME NEW s \in Inserts, s.table = t, bytes'[t] = bytes[t] \o RowLine[s]
      PROVE  WholeRows(t, bytes'[t])
  <2>1. PICK text, line : text = bytes[t] /\ line = RowLine[s]
    OBVIOUS
  <2>2. /\ text \in Text /\ WholeRows(t, text) /\ line \in Text \ {<<>>}
        /\ {k \in DOMAIN line : line[k] = LF} = {Len(line)}
        /\ Len(SplitPipeLine(line)) = Len(Columns[t])
    BY <1>1, <1>2, <2>1, RowLineType
  <2>3. WholeRows(t, text \o line)
    BY <2>2, WholeRowsAppended
  <2> QED BY <1>2, <2>1, <2>3
<1> QED BY <1>1, <1>2, FileSteps

\* No file gets a line too long for one fgets.
LEMMA ShortNext ==
  ASSUME Undisturbed, ShortLines, DurableInv, AllShort, [Next]_vars
  PROVE  AllShort'
<1> SUFFICES ASSUME NEW t \in Table, ~LoadFails(t)
             PROVE  EveryLine(bytes'[t], LAMBDA line : Len(line) < LineBuf)
  BY DEF AllShort, EveryLine
<1>1. /\ EveryLine(bytes[t], LAMBDA line : Len(line) < LineBuf)
      /\ bytes[t] \in Text /\ (bytes[t] = <<>> \/ Last(bytes[t]) = LF)
  BY DEF AllShort, DurableInv, WholeFiles, TypeInv, Shapes
<1>2. ASSUME NEW s \in Inserts, s.table = t, bytes'[t] = bytes[t] \o RowLine[s]
      PROVE  EveryLine(bytes'[t], LAMBDA line : Len(line) < LineBuf)
  <2> DEFINE text == bytes[t]
             row  == RowLine[s]
  <2>1. /\ text \in Text /\ (text = <<>> \/ Last(text) = LF)
        /\ row \in Text /\ {k \in DOMAIN row : row[k] = LF} = {Len(row)}
        /\ Len(row) < LineBuf
    BY <1>1, RowLineType DEF ShortLines
  <2>2. \A i \in DOMAIN text : \A j \in i .. Len(text) :
           IsLine(text, i, j) => Len(SubSeq(text, i, j)) < LineBuf
    BY <1>1 DEF EveryLine
  <2>3. bytes'[t] = text \o row
    BY <1>2
  <2> HIDE DEF text, row
  <2>4. ASSUME NEW i \in DOMAIN (text \o row), NEW j \in i .. Len(text \o row),
               IsLine(text \o row, i, j)
        PROVE  Len(SubSeq(text \o row, i, j)) < LineBuf
    BY <2>1, <2>2, <2>4, LinesAppended
  <2> QED BY <2>3, <2>4 DEF EveryLine
<1> QED BY <1>1, <1>2, FileSteps

\* What the files hold at first.
LEMMA FilesAtFirst ==
  ASSUME Undisturbed, Init, NEW t \in Table, ~LoadFails(t)
  PROVE  /\ RowsAtFirst => WholeRows(t, bytes[t])
         /\ ShortLines => EveryLine(bytes[t], LAMBDA line : Len(line) < LineBuf)
<1>1. PICK data \in InitialData :
        bytes = [u \in Table |-> IF data[u] = NoFile THEN <<>> ELSE data[u]]
  BY DEF Init
<1>2. bytes[t] = data[t]
  BY <1>1 DEF Undisturbed
<1> QED BY <1>2 DEF RowsAtFirst, ShortLines

\* In the same circumstances, and when the data files hold whole rows at first,
\* they always do: no statement can make a table unreadable, whatever the values
\* it inserts, whatever the columns it leaves out, whoever else is at work.
THEOREM RowsStayRows ==
  ASSUME Undisturbed, RowsAtFirst
  PROVE  Spec => []EveryLineIsARow
<1>1. Init => DurableInv /\ AllRows
  BY DurableInit, FilesAtFirst DEF AllRows
<1>2. DurableInv /\ AllRows /\ [Next]_vars => (DurableInv /\ AllRows)'
  BY DurableNext, RowsNext
<1>3. DurableInv /\ AllRows => EveryLineIsARow
  BY DEF AllRows, EveryLineIsARow
<1> QED BY <1>1, <1>2, <1>3, PTL DEF Spec

-----------------------------------------------------------------------------
(* Readers.                                                                *)

\* A stream over text with buf read ahead of what fgets has returned: buf is the
\* part of the text before the offset, it begins where a line does, and the end
\* of the file was met at the end of a line.
ReadsText(text, off, buf, atEnd) ==
  /\ Len(buf) <= off /\ off <= Len(text)
  /\ \A i \in 1 .. Len(buf) : buf[i] = text[(off - Len(buf)) + i]
  /\ off = Len(buf) \/ text[off - Len(buf)] = LF
  /\ atEnd => buf = <<>> \/ buf[Len(buf)] = LF

Readers ==
  \A p \in Proc : pc[p] = "fgets" => ReadsText(bytes[File(p)], offset[p], buffer[p], eof[p])

\* Other processes append behind what has been read.
LEMMA ReadsGrownText ==
  ASSUME NEW text \in Text, NEW s \in Text, NEW off \in Nat, NEW buf \in Text, NEW atEnd,
         ReadsText(text, off, buf, atEnd)
  PROVE  ReadsText(text \o s, off, buf, atEnd)
<1>1. /\ Len(text) \in Nat /\ Len(s) \in Nat /\ Len(buf) \in Nat
      /\ Len(text \o s) = Len(text) + Len(s)
      /\ \A i \in 1 .. Len(text) : (text \o s)[i] = text[i]
  BY DEF Text
<1>2. Len(buf) <= off /\ off <= Len(text)
  BY DEF ReadsText
<1>3. \A i \in 1 .. Len(buf) : (off - Len(buf)) + i \in 1 .. Len(text)
  BY <1>1, <1>2
<1>4. off # Len(buf) => off - Len(buf) \in 1 .. Len(text)
  BY <1>1, <1>2
<1>5. off <= Len(text \o s)
  BY <1>1, <1>2
<1> QED BY <1>1, <1>2, <1>3, <1>4, <1>5 DEF ReadsText

\* What one read returns: nothing only at the end of the file.
LEMMA ChunkIs ==
  ASSUME TypeInv, NEW p \in Proc, NEW text \in Text, text = bytes[File(p)],
         NEW off \in Nat, off = offset[p], off <= Len(text)
  PROVE  /\ Chunk(p) \in Text
         /\ off + Len(Chunk(p)) <= Len(text)
         /\ Chunk(p) = <<>> => off = Len(text)
         /\ \A i \in 1 .. Len(Chunk(p)) : Chunk(p)[i] = text[off + i]
<1> DEFINE last == Min({off + Block, Len(text)})
<1>0. text \in Seq(Char) /\ Len(text) \in Nat /\ Block \in Nat \ {0}
  BY SizeAssumption DEF Text
<1>1. PICK k \in Nat : last = off + k /\ off + k <= Len(text) /\ (k = 0 => off = Len(text))
  <2>1. last \in Nat /\ last <= Len(text) /\ (last = off + Block \/ last = Len(text))
    BY <1>0, MinOfTwo, SMTT(20)
  <2> HIDE DEF last
  <2>2. last - off \in Nat /\ last = off + (last - off) /\ (last - off = 0 => off = Len(text))
    BY <1>0, <2>1
  <2> QED BY <2>1, <2>2
<1>2. Chunk(p) = SubSeq(text, off + 1, off + k)
  BY <1>1 DEF Chunk
<1> HIDE DEF last
<1>3. \A i \in off + 1 .. off + k : text[i] \in Char
  BY <1>0, <1>1
<1>4. off + 1 \in Int /\ off + k \in Int /\ (off + k) - (off + 1) + 1 = k
  OBVIOUS
<1>5. /\ Chunk(p) \in Seq(Char)
      /\ Len(Chunk(p)) = IF off + 1 <= off + k THEN (off + k) - (off + 1) + 1 ELSE 0
      /\ \A i \in 1 .. (off + k) - (off + 1) + 1 : Chunk(p)[i] = text[(off + 1) + i - 1]
  <2> DEFINE a == off + 1
             b == off + k
  <2>1. a \in Int /\ b \in Int /\ \A i \in a .. b : text[i] \in Char
    BY <1>3, <1>4
  <2> HIDE DEF a, b
  <2>2. /\ SubSeq(text, a, b) \in Seq(Char)
        /\ Len(SubSeq(text, a, b)) = IF a <= b THEN b - a + 1 ELSE 0
        /\ \A i \in 1 .. b - a + 1 : SubSeq(text, a, b)[i] = text[a + i - 1]
    BY <2>1, SubSeqProperties
  <2> QED BY <1>2, <2>2 DEF a, b
<1> HIDE DEF Chunk
<1>6. Len(Chunk(p)) = k
  BY <1>4, <1>5
<1>7. \A i \in 1 .. k : (off + 1) + i - 1 = off + i
  OBVIOUS
<1>8. Chunk(p) = <<>> => k = 0
  BY <1>6
<1> QED BY <1>1, <1>4, <1>5, <1>6, <1>7, <1>8 DEF Text

\* One read of the next characters of the text.
LEMMA ReadsNextBlock ==
  ASSUME NEW text \in Text, text = <<>> \/ Last(text) = LF,
         NEW off \in Nat, NEW buf \in Text, NEW atEnd,
         ReadsText(text, off, buf, atEnd),
         NEW chunk \in Text, off + Len(chunk) <= Len(text), chunk = <<>> => off = Len(text),
         \A i \in 1 .. Len(chunk) : chunk[i] = text[off + i]
  PROVE  ReadsText(text, off + Len(chunk), buf \o chunk, chunk = <<>>)
<1> DEFINE m == Len(text)
           n == Len(buf)
           k == Len(chunk)
<1>0. text \in Seq(Char) /\ buf \in Seq(Char) /\ chunk \in Seq(Char)
  BY DEF Text
<1>1. /\ m \in Nat /\ n \in Nat /\ k \in Nat /\ n <= off /\ off <= m
      /\ off + k <= m
  BY <1>0 DEF ReadsText
<1>3. /\ \A i \in 1 .. n : buf[i] = text[(off - n) + i]
      /\ off = n \/ text[off - n] = LF
  BY DEF ReadsText
<1>4. m # 0 => text[m] = LF
  BY <1>0 DEF Last
<1>5. /\ \A i \in 1 .. k : chunk[i] = text[off + i]
      /\ chunk = <<>> => k = 0 /\ off = m
  OBVIOUS
<1>6. /\ buf \o chunk \in Seq(Char) /\ Len(buf \o chunk) = n + k
      /\ \A i \in 1 .. n : (buf \o chunk)[i] = buf[i]
      /\ \A i \in 1 .. k : (buf \o chunk)[n + i] = chunk[i]
  BY <1>0
<1>7. off + Len(chunk) = off + k /\ (off + Len(chunk)) - Len(buf \o chunk) = off - n
  BY <1>1, <1>5, <1>6
<1> HIDE DEF m, n, k
<1>8. ASSUME NEW i \in 1 .. n + k PROVE (buf \o chunk)[i] = text[(off - n) + i]
  <2>1. CASE i <= n
    <3>1. i \in 1 .. n
      BY <1>1, <2>1
    <3> QED BY <1>3, <1>6, <3>1
  <2>2. CASE ~(i <= n)
    <3>1. i - n \in 1 .. k /\ i = n + (i - n) /\ (off - n) + i = off + (i - n)
      BY <1>1, <2>2
    <3>2. (buf \o chunk)[n + (i - n)] = chunk[i - n] /\ chunk[i - n] = text[off + (i - n)]
      BY <1>5, <1>6, <3>1
    <3> QED BY <3>1, <3>2
  <2> QED BY <2>1, <2>2
<1>9. ASSUME chunk = <<>> PROVE buf \o chunk = <<>> \/ (buf \o chunk)[Len(buf \o chunk)] = LF
  <2>1. buf \o chunk = buf /\ k = 0
    BY <1>0, <1>5, <1>9
  <2>2. off = m
    BY <1>5, <1>9
  <2>3. ASSUME n # 0 PROVE buf[n] = LF
    <3>1. n \in 1 .. n /\ (off - n) + n = m /\ m # 0
      BY <1>1, <2>2, <2>3
    <3> QED BY <1>3, <1>4, <3>1
  <2>4. n = 0 => buf = <<>>
    BY <1>0 DEF n
  <2> QED BY <2>1, <2>3, <2>4 DEF n
<1>10. Len(buf \o chunk) <= off + Len(chunk) /\ off + Len(chunk) <= m
  BY <1>1, <1>6, <1>7
<1>11. off + Len(chunk) = Len(buf \o chunk) \/ text[off - n] = LF
  BY <1>1, <1>3, <1>6, <1>7
<1> QED BY <1>6, <1>7, <1>8, <1>9, <1>10, <1>11 DEF ReadsText, m

\* fgets returns the next line of the text: when no line is too long for it, the
\* text ends with a newline, and fgets returns at all, it finds a newline.
LEMMA ReadsWholeLine ==
  ASSUME TypeInv, NEW p \in Proc, NEW text \in Text, text = <<>> \/ Last(text) = LF,
         EveryLine(text, LAMBDA line : Len(line) < LineBuf),
         ReadsText(text, offset[p], buffer[p], eof[p]),
         LineReady(p), buffer[p] # <<>>
  PROVE  LET start == offset[p] - Len(buffer[p])
         IN  /\ LineLength(p) \in 1 .. Len(buffer[p])
             /\ buffer[p][LineLength(p)] = LF
             /\ start + 1 \in DOMAIN text /\ start + LineLength(p) \in start + 1 .. Len(text)
             /\ IsLine(text, start + 1, start + LineLength(p))
             /\ SubSeq(buffer[p], 1, LineLength(p)) = SubSeq(text, start + 1, start + LineLength(p))
<1> DEFINE buf == buffer[p]
           off == offset[p]
           n   == Len(buf)
           m   == Len(text)
           w   == Window(p)
           start == off - n
<1>0. text \in Seq(Char) /\ buf \in Seq(Char) /\ off \in Nat /\ buf # <<>>
  BY DEF Text, TypeInv, Shapes
<1>1. /\ n \in Nat \ {0} /\ m \in Nat /\ n <= off /\ off <= m
      /\ \A i \in 1 .. n : buf[i] = text[start + i]
      /\ start = 0 \/ text[start] = LF
      /\ eof[p] => buf[n] = LF
  BY <1>0 DEF ReadsText
<1>2. /\ Len(w) \in Nat /\ Len(w) <= n /\ Len(w) <= LineBuf - 1
      /\ Len(w) = LineBuf - 1 \/ Len(w) = n
      /\ \A i \in 1 .. Len(w) : w[i] = buf[i]
      /\ LineBuf - 1 \in Nat
  BY WindowType, SizeAssumption DEF Text
<1>3. m # 0 /\ text[m] = LF
  BY <1>0, <1>1 DEF Last
<1>4. \A i \in 1 .. m : \A j \in i .. m : IsLine(text, i, j) => Len(SubSeq(text, i, j)) < LineBuf
  BY <1>0 DEF EveryLine
<1>5. start \in Nat /\ start + n <= m
  BY <1>0, <1>1
<1>6. LineEnd(p) # 0
  <2> SUFFICES ASSUME LineEnd(p) = 0 PROVE FALSE
    OBVIOUS
  <2>1. \A i \in 1 .. Len(w) : w[i] # LF
    BY LineEndIs
  <2>2. CASE Len(w) = LineBuf - 1
    <3> DEFINE T == {k \in start + 1 .. m : text[k] = LF}
    <3>1. T \subseteq Nat /\ m \in T
      BY <1>1, <1>3, <1>5
    <3>2. PICK j \in T : \A k \in T : j <= k
      <4> HIDE DEF T
      <4> QED BY <3>1, LeastNat
    <3>3. j \in start + 1 .. m /\ text[j] = LF /\ \A k \in start + 1 .. j - 1 : text[k] # LF
      BY <1>1, <1>5, <3>2
    <3>4. IsLine(text, start + 1, j)
      <4>1. start + 1 = 1 \/ text[(start + 1) - 1] = LF
        BY <1>1, <1>5
      <4> QED BY <3>3, <4>1 DEF IsLine
    <3>5. start + 1 \in 1 .. m /\ j \in start + 1 .. m
      BY <1>5, <3>3
    <3>6. Len(SubSeq(text, start + 1, j)) = j - start
      <4>1. \A k \in start + 1 .. j : text[k] \in Char
        BY <1>0, <1>5, <3>5
      <4>2. j - (start + 1) + 1 = j - start /\ start + 1 <= j
        BY <1>5, <3>5
      <4> HIDE DEF start
      <4> QED BY <1>5, <3>5, <4>1, <4>2, SubSeqProperties
    <3>7. j - start < LineBuf
      BY <1>4, <3>4, <3>5, <3>6
    <3>8. j - start \in 1 .. Len(w) /\ start + (j - start) = j
      BY <1>2, <1>5, <2>2, <3>5, <3>7, SizeAssumption
    <3>9. w[j - start] = text[j]
      BY <1>1, <1>2, <3>8
    <3> QED BY <2>1, <3>3, <3>8, <3>9
  <2>3. CASE Len(w) # LineBuf - 1
    <3>1. eof[p] /\ Len(w) = n
      BY <1>2, <2>3 DEF LineReady
    <3>2. n \in 1 .. Len(w) /\ w[n] = LF
      BY <1>1, <1>2, <3>1
    <3> QED BY <2>1, <3>2
  <2> QED BY <2>2, <2>3
<1>7. /\ LineEnd(p) \in 1 .. Len(w) /\ w[LineEnd(p)] = LF
      /\ \A i \in 1 .. LineEnd(p) - 1 : w[i] # LF
  BY <1>6, LineEndIs
<1>8. PICK e : e = LineLength(p)
  OBVIOUS
<1>9. /\ e \in 1 .. Len(w) /\ w[e] = LF /\ \A i \in 1 .. e - 1 : w[i] # LF
  <2>1. LineLength(p) = LineEnd(p)
    BY <1>2, <1>7 DEF LineLength
  <2> QED BY <1>7, <1>8, <2>1
<1>15. DOMAIN text = 1 .. m
  BY <1>0
<1> HIDE DEF w, n, m, start, buf, off
<1>10. e \in 1 .. n /\ buf[e] = LF /\ text[start + e] = LF
  BY <1>1, <1>2, <1>9
<1>11. ASSUME NEW k \in start + 1 .. (start + e) - 1 PROVE text[k] # LF
  <2>1. k - start \in 1 .. e - 1 /\ k - start \in 1 .. n /\ start + (k - start) = k
        /\ k - start \in 1 .. Len(w)
    <3>1. start \in Nat /\ e \in 1 .. n /\ n \in Nat /\ e \in 1 .. Len(w) /\ Len(w) \in Nat
      BY <1>1, <1>2, <1>5, <1>9, <1>10
    <3> QED BY <3>1
  <2>2. w[k - start] = buf[k - start] /\ buf[k - start] = text[k]
    BY <1>1, <1>2, <2>1
  <2> QED BY <1>9, <2>1, <2>2
<1>12. IsLine(text, start + 1, start + e)
  <2>1. start + 1 = 1 \/ text[(start + 1) - 1] = LF
    BY <1>1, <1>5
  <2> QED BY <1>10, <1>11, <2>1 DEF IsLine
<1>13. start + 1 \in 1 .. m /\ start + e \in start + 1 .. m
  BY <1>1, <1>5, <1>10
<1>14. SubSeq(buf, 1, e) = SubSeq(text, start + 1, start + e)
  <2>1. \A i \in 1 .. e : buf[i] \in Char /\ buf[i] = text[start + i]
    BY <1>0, <1>1, <1>10 DEF n
  <2>2. \A k \in start + 1 .. start + e : text[k] \in Char
    BY <1>0, <1>5, <1>13 DEF m
  <2>3. /\ e \in Int /\ start + 1 \in Int /\ start + e \in Int /\ 1 <= e /\ start + 1 <= start + e
        /\ e - 1 + 1 = e /\ (start + e) - (start + 1) + 1 = e
        /\ \A i \in 1 .. e : 1 + i - 1 = i /\ (start + 1) + i - 1 = start + i
    <3>1. start \in Nat /\ e \in Nat \ {0}
      BY <1>1, <1>5, <1>10
    <3> QED BY <3>1
  <2>4. /\ SubSeq(buf, 1, e) \in Seq(Char) /\ Len(SubSeq(buf, 1, e)) = e
        /\ \A i \in 1 .. e : SubSeq(buf, 1, e)[i] = buf[i]
    <3>1. e \in Nat /\ e <= Len(buf)
      BY <1>1, <1>10 DEF n
    <3> QED BY <1>0, <3>1
  <2>5. /\ SubSeq(text, start + 1, start + e) \in Seq(Char)
        /\ Len(SubSeq(text, start + 1, start + e)) = e
        /\ \A i \in 1 .. e : SubSeq(text, start + 1, start + e)[i] = text[start + i]
    BY <2>2, <2>3, SubSeqProperties
  <2> QED BY <2>1, <2>4, <2>5, SeqEqual
<1> QED BY <1>8, <1>10, <1>12, <1>13, <1>14, <1>15 DEF n, m, start, off, buf

\* What is left in the buffer when fgets has returned a line.
LEMMA ReadsRest ==
  ASSUME NEW text \in Text, NEW off \in Nat, NEW buf \in Text, NEW atEnd,
         ReadsText(text, off, buf, atEnd), NEW e \in 1 .. Len(buf), buf[e] = LF
  PROVE  ReadsText(text, off, SubSeq(buf, e + 1, Len(buf)), atEnd)
<1> DEFINE n == Len(buf)
           rest == SubSeq(buf, e + 1, n)
<1>0. buf \in Seq(Char)
  BY DEF Text
<1>1. /\ n \in Nat /\ e \in 1 .. n /\ n <= off /\ off <= Len(text)
      /\ \A i \in 1 .. n : buf[i] = text[(off - n) + i]
      /\ atEnd => buf = <<>> \/ buf[n] = LF
  BY <1>0 DEF ReadsText
<1>2. rest \in Seq(Char) /\ Len(rest) = n - e /\ \A i \in 1 .. n - e : rest[i] = buf[e + i]
  BY <1>0
<1>3. buf # <<>>
  BY <1>0
<1> HIDE DEF n, rest
<1>4. (off - (n - e)) = (off - n) + e /\ n - e <= off
  BY <1>1
<1>5. ASSUME NEW i \in 1 .. n - e PROVE rest[i] = text[((off - n) + e) + i]
  <2>1. e + i \in 1 .. n /\ ((off - n) + e) + i = (off - n) + (e + i)
    BY <1>1
  <2> QED BY <1>1, <1>2, <2>1
<1>6. text[(off - n) + e] = LF
  BY <1>1
<1>7. ASSUME atEnd, n - e # 0 PROVE rest[n - e] = LF
  <2>1. n - e \in 1 .. n - e /\ e + (n - e) = n
    BY <1>1, <1>7
  <2> QED BY <1>1, <1>2, <1>3, <1>7, <2>1
<1>8. n - e = 0 => rest = <<>>
  BY <1>2
<1> QED BY <1>1, <1>2, <1>4, <1>5, <1>6, <1>7, <1>8 DEF ReadsText, rest, n

\* A process that is reading goes on, as far as its stream is concerned.
Reads(q) ==
  pc'[q] = "fgets" => /\ pc[q] = "fgets" /\ File(q)' = File(q)
                      /\ offset'[q] = offset[q] /\ buffer'[q] = buffer[q] /\ eof'[q] = eof[q]

\* No process touches the stream of another; its own only in three steps.
LEMMA StreamSteps ==
  ASSUME DurableInv, NEW p \in Proc, Step(p) \/ Kill(p), NEW q \in Proc
  PROVE  Reads(q) \/ (q = p /\ (OpenRead(p) \/ Refill(p) \/ NextLine(p)))
<1>0. /\ pc \in [Proc -> {pc[r] : r \in Proc}] /\ next \in [Proc -> Nat \ {0}]
      /\ offset \in [Proc -> Nat] /\ buffer \in [Proc -> Text] /\ eof \in [Proc -> BOOLEAN]
  BY DEF DurableInv, TypeInv, Shapes
<1> USE DEF Reads, Statement, File
<1>1. CASE Parse(p)
  BY <1>0, <1>1 DEF Parse, Goto, reader
<1>2. CASE Finish(p)
  BY <1>0, <1>2 DEF Finish, Goto, reader
<1>3. CASE BeginInsert(p)
  BY <1>0, <1>3 DEF BeginInsert, Goto, reader
<1>4. CASE RejectInsert(p)
  BY <1>0, <1>4 DEF RejectInsert, Fail, Goto, reader
<1>5. CASE OpenAppend(p)
  BY <1>0, <1>5 DEF OpenAppend, Goto, reader
<1>6. CASE Fputs(p)
  BY <1>0, <1>6 DEF Fputs, Goto, reader
<1>7. CASE FputsFails(p)
  BY <1>0, <1>7 DEF FputsFails, Goto, reader
<1>8. CASE Fclose(p)
  BY <1>0, <1>8 DEF Fclose, Goto, reader
<1>9. CASE ReportInsert(p)
  BY <1>0, <1>9 DEF ReportInsert, Report, Goto, reader
<1>10. CASE BeginSelect(p)
  BY <1>0, <1>10 DEF BeginSelect, Goto, reader
<1>11. CASE RejectSelect(p)
  BY <1>0, <1>11 DEF RejectSelect, Fail, Goto, reader
<1>12. CASE OpenRead(p)
  BY <1>0, <1>12 DEF OpenRead, Goto
<1>13. CASE MissingData(p)
  BY <1>0, <1>13 DEF MissingData, Goto, reader
<1>14. CASE CreateEmpty(p)
  BY <1>0, <1>14 DEF CreateEmpty, Goto, reader
<1>15. CASE Refill(p)
  BY <1>0, <1>15 DEF Refill
<1>16. CASE NextLine(p)
  BY <1>0, <1>16 DEF NextLine
<1>17. CASE BadLine(p)
  BY <1>0, <1>17 DEF BadLine, Fail, Goto, reader
<1>18. CASE EndSelect(p)
  BY <1>0, <1>18 DEF EndSelect, Report, Goto, reader
<1>19. CASE ReadFails(p)
  BY <1>0, <1>19 DEF ReadFails, Report, Goto, reader
<1>20. CASE OpenFails(p)
  BY <1>0, <1>20 DEF OpenFails, Fail, Goto, reader
<1>21. CASE Kill(p)
  BY <1>0, <1>21 DEF Kill, Goto, reader
<1> QED
  BY <1>1, <1>2, <1>3, <1>4, <1>5, <1>6, <1>7, <1>8, <1>9, <1>10, <1>11, <1>12, <1>13, <1>14,
     <1>15, <1>16, <1>17, <1>18, <1>19, <1>20, <1>21 DEF Step, Insert, Select

\* Streams, and the file under each of them.
LEMMA ReaderType ==
  ASSUME DurableInv, NEW q \in Proc, pc[q] \in Selecting
  PROVE  /\ File(q) \in Table /\ ~LoadFails(File(q))
         /\ bytes[File(q)] \in Text /\ (bytes[File(q)] = <<>> \/ Last(bytes[File(q)]) = LF)
         /\ offset[q] \in Nat /\ buffer[q] \in Text
<1>1. File(q) \in Table /\ ~LoadFails(File(q))
  BY CurrentStatement DEF DurableInv, Usable
<1> QED BY <1>1 DEF DurableInv, WholeFiles, TypeInv, Shapes

\* A stream stays where it is while the file grows.
LEMMA ReaderStays ==
  ASSUME Undisturbed, DurableInv, Readers, [Next]_vars, NEW q \in Proc, Reads(q), pc'[q] = "fgets"
  PROVE  ReadsText(bytes[File(q)], offset[q], buffer[q], eof[q])'
<1> DEFINE text == bytes[File(q)]
<1>1. /\ File(q) \in Table /\ text \in Text /\ offset[q] \in Nat /\ buffer[q] \in Text
      /\ ReadsText(text, offset[q], buffer[q], eof[q])
      /\ offset'[q] = offset[q] /\ buffer'[q] = buffer[q] /\ eof'[q] = eof[q]
      /\ File(q)' = File(q)
  BY ReaderType DEF Reads, Readers, Selecting
<1>2. bytes'[File(q)] = text \/ \E s \in Text : bytes'[File(q)] = text \o s
  BY <1>1, FileSteps, RowLineType
<1> HIDE DEF text
<1>3. ASSUME NEW s \in Text PROVE ReadsText(text \o s, offset[q], buffer[q], eof[q])
  BY <1>1, ReadsGrownText
<1>4. ReadsText(bytes'[File(q)], offset[q], buffer[q], eof[q])
  BY <1>1, <1>2, <1>3
<1> QED BY <1>1, <1>4

\* Every stream stays at a line of its file.
LEMMA ReadersNext ==
  ASSUME Undisturbed, DurableInv, AllShort, Readers, [Next]_vars
  PROVE  Readers'
<1> SUFFICES ASSUME NEW q \in Proc, pc'[q] = "fgets"
             PROVE  ReadsText(bytes[File(q)], offset[q], buffer[q], eof[q])'
  BY DEF Readers
<1>0. /\ TypeInv /\ pc \in [Proc -> {pc[r] : r \in Proc}] /\ offset \in [Proc -> Nat]
      /\ buffer \in [Proc -> Text] /\ eof \in [Proc -> BOOLEAN]
  BY DEF DurableInv, TypeInv, Shapes
<1>1. CASE Reads(q)
  BY <1>1, ReaderStays
<1>2. CASE OpenRead(q)
  <2>1. /\ bytes' = bytes /\ File(q)' = File(q)
        /\ offset'[q] = 0 /\ buffer'[q] = <<>> /\ eof'[q] = FALSE
    BY <1>0, <1>2 DEF OpenRead, files, File, Statement
  <2>2. bytes[File(q)] \in Text
    BY <1>2, ReaderType DEF OpenRead, Selecting
  <2>3. ReadsText(bytes[File(q)], 0, <<>>, FALSE)
    BY <2>2 DEF ReadsText, Text
  <2> QED BY <2>1, <2>3
<1>3. CASE Refill(q)
  <2> DEFINE text == bytes[File(q)]
             off  == offset[q]
             buf  == buffer[q]
             chunk == Chunk(q)
  <2>1. /\ bytes' = bytes /\ File(q)' = File(q)
        /\ offset'[q] = off + Len(chunk) /\ buffer'[q] = buf \o chunk
        /\ eof'[q] = (chunk = <<>>)
    BY <1>0, <1>3 DEF Refill, ReadsNothing, files, File, Statement
  <2>2. /\ text \in Text /\ (text = <<>> \/ Last(text) = LF) /\ off \in Nat /\ buf \in Text
        /\ ReadsText(text, off, buf, eof[q]) /\ off <= Len(text)
    BY <1>3, ReaderType DEF Refill, Selecting, Readers, ReadsText
  <2>3. /\ chunk \in Text /\ off + Len(chunk) <= Len(text)
        /\ chunk = <<>> => off = Len(text)
        /\ \A i \in 1 .. Len(chunk) : chunk[i] = text[off + i]
    BY <1>0, <2>2, ChunkIs
  <2> HIDE DEF text, off, buf, chunk
  <2>4. ReadsText(text, off + Len(chunk), buf \o chunk, chunk = <<>>)
    BY <2>2, <2>3, ReadsNextBlock
  <2> QED BY <2>1, <2>4 DEF text
<1>4. CASE NextLine(q)
  <2> DEFINE text == bytes[File(q)]
             buf  == buffer[q]
             e    == LineLength(q)
  <2>1. /\ bytes' = bytes /\ File(q)' = File(q)
        /\ offset'[q] = offset[q] /\ buffer'[q] = SubSeq(buf, e + 1, Len(buf))
        /\ eof'[q] = eof[q] /\ LineReady(q) /\ buf # <<>> /\ pc[q] = "fgets"
    BY <1>0, <1>4 DEF NextLine, files, File, Statement
  <2>2. /\ text \in Text /\ (text = <<>> \/ Last(text) = LF)
        /\ offset[q] \in Nat /\ buf \in Text
        /\ ReadsText(text, offset[q], buf, eof[q])
        /\ EveryLine(text, LAMBDA line : Len(line) < LineBuf)
    BY <2>1, ReaderType DEF Selecting, Readers, AllShort, EveryLine
  <2>3. e \in 1 .. Len(buf) /\ buf[e] = LF
    BY <1>0, <2>1, <2>2, ReadsWholeLine
  <2> HIDE DEF text, buf, e
  <2>4. ReadsText(text, offset[q], SubSeq(buf, e + 1, Len(buf)), eof[q])
    BY <2>2, <2>3, ReadsRest
  <2> QED BY <2>1, <2>4 DEF text
<1>5. CASE UNCHANGED vars
  <2>1. Reads(q)
    BY <1>5 DEF Reads, File, Statement, vars, reader
  <2> QED BY <2>1, <1>1
<1> QED BY <1>1, <1>2, <1>3, <1>4, <1>5, StreamSteps DEF Next, Done

\* In the same circumstances, and when no line is too long for one fgets, a
\* SELECT that has begun to read never meets a line that it rejects: block reads
\* and line splitting lose nothing while any number of processes append or die.
THEOREM ReadersSucceed ==
  ASSUME Undisturbed, RowsAtFirst, ShortLines
  PROVE  Spec => ReadersNeverFail
<1> DEFINE ReadInv == DurableInv /\ AllRows /\ AllShort /\ Readers
<1>1. Init => ReadInv
  BY DurableInit, FilesAtFirst DEF AllRows, AllShort, Readers, Init, EveryLine
<1>2. ReadInv /\ [Next]_vars => ReadInv'
  BY DurableNext, RowsNext, ShortNext, ReadersNext
<1>3. ReadInv => \A p \in Proc : ~BadLine(p)
  <2> SUFFICES ASSUME ReadInv, NEW p \in Proc, BadLine(p) PROVE FALSE
    OBVIOUS
  <2> DEFINE text == bytes[File(p)]
             start == offset[p] - Len(buffer[p])
             line == SubSeq(buffer[p], 1, LineLength(p))
  <2>1. pc[p] = "fgets" /\ LineReady(p) /\ buffer[p] # <<>> /\ ~WellFormed(p)
    BY DEF BadLine
  <2>2. /\ TypeInv /\ text \in Text /\ (text = <<>> \/ Last(text) = LF)
        /\ ReadsText(text, offset[p], buffer[p], eof[p])
        /\ EveryLine(text, LAMBDA l : Len(l) < LineBuf)
        /\ WholeRows(File(p), text)
    BY <2>1, ReaderType DEF DurableInv, Selecting, Readers, AllShort, AllRows, EveryLine
  <2>3. /\ start + 1 \in DOMAIN text /\ start + LineLength(p) \in start + 1 .. Len(text)
        /\ IsLine(text, start + 1, start + LineLength(p))
        /\ line = SubSeq(text, start + 1, start + LineLength(p))
    BY <2>1, <2>2, ReadsWholeLine
  <2>4. Len(SplitPipeLine(line)) = Len(Columns[File(p)])
    <3>1. \A i \in DOMAIN text : \A j \in i .. Len(text) :
             IsLine(text, i, j) => Len(SplitPipeLine(SubSeq(text, i, j))) = Len(Columns[File(p)])
      BY <2>2 DEF WholeRows, EveryLine
    <3>2. PICK i, j : i = start + 1 /\ j = start + LineLength(p)
      OBVIOUS
    <3> HIDE DEF text, start, line
    <3> QED BY <2>3, <3>1, <3>2
  <2> QED BY <2>1, <2>4 DEF WellFormed, LineValues
<1>4. ReadInv /\ [Next]_vars => [\A p \in Proc : ~BadLine(p)]_vars
  BY <1>3
<1> HIDE DEF ReadInv
<1> QED BY <1>1, <1>2, <1>4, PTL DEF Spec, ReadersNeverFail
=============================================================================
