----------------------------- MODULE Statements -----------------------------
(***************************************************************************)
(* What src/storage.c computes for one statement from the schema file, and *)
(* before or between its accesses to the data file: the name resolution of *)
(* load_table_definition and find_column_index, the row that               *)
(* append_insert_row writes, and the filter and projection of              *)
(* run_select_query.                                                       *)
(*                                                                         *)
(* A statement is what the parser hands over:                              *)
(*   [type |-> "INSERT", table, columns, values]                           *)
(*   [type |-> "SELECT", table, selectAll, columns, where]                 *)
(* with where = [enabled, column, value].                                  *)
(***************************************************************************)
EXTENDS RowFormat

CONSTANTS Table,       \* the tables statements may name, one pair of paths each
          Schema,      \* the text of each table's .schema file, or NoFile
          NoFile

ASSUME SchemaAssumption ==
  /\ Schema \in [Table -> Text \cup {NoFile}]
  /\ NoFile \notin Text

\* The columns of every table whose schema file can be opened.
Columns == [t \in {u \in Table : Schema[u] # NoFile} |-> SplitPipeLine(Schema[t])]

\* Mutant: an empty schema is accepted.
LoadFails_EmptyAccepted(t) == t \notin DOMAIN Columns

\* The schema file cannot be opened, or its first line is empty.
LoadFails(t) == t \notin DOMAIN Columns \/ Columns[t] = << <<>> >>

\* The first column of that name, case ignored; 0 (the code's -1) if there is none.
FindColumnIndex(columns, name) ==
  SelectInSeq(columns, LAMBDA c : SameName(c, name))

-----------------------------------------------------------------------------
(* INSERT                                                                  *)

TargetIndex(s, i) == FindColumnIndex(Columns[s.table], s.columns[i])

\* Mutant: the check for a column named twice is missing.
Insertable_Duplicates(s) ==
  /\ Len(s.columns) = Len(s.values)
  /\ ~LoadFails(s.table)
  /\ \A i \in DOMAIN s.columns : TargetIndex(s, i) # 0

\* Every check of append_insert_row: each named column exists, none twice.
Insertable(s) ==
  /\ Len(s.columns) = Len(s.values)
  /\ ~LoadFails(s.table)
  /\ \A i \in DOMAIN s.columns :
        /\ TargetIndex(s, i) # 0
        /\ \A j \in 1 .. i - 1 : TargetIndex(s, j) # TargetIndex(s, i)

\* Mutant: the values in the order of the statement.
OrderedValues_AsGiven(s) ==
  [k \in DOMAIN Columns[s.table] |-> IF k \in DOMAIN s.values THEN s.values[k] ELSE <<>>]

\* The values in schema order; a column the statement does not name is empty.
OrderedValues(s) ==
  [k \in DOMAIN Columns[s.table] |->
     IF \E i \in DOMAIN s.columns : TargetIndex(s, i) = k
     THEN s.values[CHOOSE i \in DOMAIN s.columns : TargetIndex(s, i) = k]
     ELSE <<>>]

InsertLine(s) == SerializeRow(OrderedValues(s))

-----------------------------------------------------------------------------
(* SELECT                                                                  *)

SelectedIndexes(s) ==
  IF s.selectAll THEN [i \in DOMAIN Columns[s.table] |-> i]
                 ELSE [i \in DOMAIN s.columns |-> TargetIndex(s, i)]

WhereIndex(s) == FindColumnIndex(Columns[s.table], s.where.column)

\* Every check of run_select_query before it opens the data file.
Selectable(s) ==
  /\ ~LoadFails(s.table)
  /\ \A i \in DOMAIN SelectedIndexes(s) : SelectedIndexes(s)[i] # 0
  /\ s.where.enabled => WhereIndex(s) # 0

\* Values are compared by strcmp: case matters here.
Matches(s, values) == s.where.enabled => values[WhereIndex(s)] = s.where.value

Project(s, values) ==
  [i \in DOMAIN SelectedIndexes(s) |-> values[SelectedIndexes(s)[i]]]
=============================================================================
