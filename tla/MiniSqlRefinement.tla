------------------------- MODULE MiniSqlRefinement -------------------------
(***************************************************************************)
(* The refinement mapping under which MiniSql implements TableLog: the log *)
(* of a table is what its data file decodes to, line by line, and a SELECT *)
(* fixes its answer when its stream meets the end of the file.             *)
(***************************************************************************)
EXTENDS MiniSql

LowerCase(name) == [i \in DOMAIN name |-> ToLower[name[i]]]

LowerColumns ==
  [t \in Table |-> IF LoadFails(t) THEN <<>>
                   ELSE [i \in DOMAIN Columns[t] |-> LowerCase(Columns[t][i])]]

\* The mapping needs columns to be told apart by name.
ASSUME DistinctColumns == \A t \in Table : IsInjective(LowerColumns[t])

RowOf(t, line) ==
  LET columns == LowerColumns[t]
      values  == SplitPipeLine(line)
  IN  [c \in Range(columns) |-> values[CHOOSE i \in DOMAIN columns : columns[i] = c]]

Decoded(t, text) ==
  LET lines == Lines(text) IN [k \in DOMAIN lines |-> RowOf(t, lines[k])]

DecodedLog == [t \in Table |-> Decoded(t, bytes[t])]

\* An INSERT has taken effect once its line is whole in the file.
FixedAnswer ==
  [p \in Proc |->
     IF pc[p] = "fgets" /\ eof[p] THEN <<[kind |-> "SELECT", rows |-> rows[p]]>>
     ELSE IF pc[p] = "INSERT 1" \/ (pc[p] = "fclose" /\ pending[p] = <<>>)
     THEN <<[kind |-> "INSERT", affected |-> 1]>>
     ELSE <<>>]

Abstract == INSTANCE TableLog WITH
  ColumnNames <- LowerColumns,
  Canon       <- LowerCase,
  log         <- DecodedLog,
  answer      <- FixedAnswer

\* Linearizability: concurrent invocations behave as if every INSERT were one
\* indivisible append of a row of named columns and every SELECT answered from
\* the whole table at one instant, although rows are written, and read in
\* blocks, by separate system calls.
ImplementsTableLog == Abstract!Spec
=============================================================================
