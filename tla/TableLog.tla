------------------------------ MODULE TableLog ------------------------------
(***************************************************************************)
(* What mini_sql promises its users, without files: a table is a sequence  *)
(* of rows, a row gives every column of the table a value, and columns are *)
(* known by name, not by position.  Each statement takes effect at one     *)
(* instant between its start and its report: an INSERT adds one row, a     *)
(* SELECT answers from the whole table as it is then.                      *)
(***************************************************************************)
EXTENDS Naturals, SequencesExt

CONSTANTS Proc, Table, Text, Scripts, NoScript,
          ColumnNames,  \* per table: its column names in lower case, <<>> if it has none
          Canon(_)      \* a name in lower case

VARIABLES script,       \* per process: the statements it is to execute
          log,          \* per table: its rows
          answer,       \* per process: the result of its current statement, once fixed
          stdout        \* per process: the results reported

vars == <<script, log, answer, stdout>>

Names(t) == Range(ColumnNames[t])
Given(s) == [i \in DOMAIN s.columns |-> Canon(s.columns[i])]

-----------------------------------------------------------------------------
CanInsert(s) ==
  /\ ColumnNames[s.table] # <<>>
  /\ Len(s.columns) = Len(s.values)
  /\ IsInjective(Given(s))
  /\ Range(Given(s)) \subseteq Names(s.table)

NewRow(s) ==
  [c \in Names(s.table) |->
     IF c \in Range(Given(s)) THEN s.values[CHOOSE i \in DOMAIN Given(s) : Given(s)[i] = c]
                              ELSE <<>>]

Wanted(s) == IF s.selectAll THEN ColumnNames[s.table] ELSE Given(s)

CanSelect(s) ==
  /\ ColumnNames[s.table] # <<>>
  /\ Range(Wanted(s)) \subseteq Names(s.table)
  /\ s.where.enabled => Canon(s.where.column) \in Names(s.table)

Kept(s, row) == s.where.enabled => row[Canon(s.where.column)] = s.where.value

\* The columns that s wants of the rows that it keeps, in the order of the table.
Answer(s, table) ==
  LET wanted(row) == [i \in DOMAIN Wanted(s) |-> row[Wanted(s)[i]]]
      answers[n \in 0 .. Len(table)] ==
        IF n = 0 THEN <<>>
        ELSE IF Kept(s, table[n]) THEN Append(answers[n - 1], wanted(table[n]))
                                  ELSE answers[n - 1]
  IN  answers[Len(table)]

-----------------------------------------------------------------------------
Init ==
  /\ script \in [Proc -> Scripts]
  /\ \A t \in Table : log[t] \in Seq([Names(t) -> Text])
  /\ answer = [p \in Proc |-> <<>>]
  /\ stdout = [p \in Proc |-> <<>>]

\* The statement p is at: one more than it has reported.
Current(p) == script[p][Len(stdout[p]) + 1]

At(p, type) ==
  /\ script[p] # NoScript
  /\ Len(stdout[p]) < Len(script[p])
  /\ Current(p).type = type

Insert(p) ==
  /\ At(p, "INSERT") /\ CanInsert(Current(p))
  /\ answer[p] = <<>>
  /\ log'    = [log EXCEPT ![Current(p).table] = Append(@, NewRow(Current(p)))]
  /\ answer' = [answer EXCEPT ![p] = <<[kind |-> "INSERT", affected |-> 1]>>]
  /\ UNCHANGED <<script, stdout>>

Select(p) ==
  /\ At(p, "SELECT") /\ CanSelect(Current(p))
  /\ answer[p] = <<>>
  /\ answer' = [answer EXCEPT ![p] =
                  <<[kind |-> "SELECT", rows |-> Answer(Current(p), log[Current(p).table])]>>]
  /\ UNCHANGED <<script, log, stdout>>

\* The result is fixed by one of the steps above and reported later ...
Reply(p) ==
  /\ answer[p] # <<>>
  /\ stdout' = [stdout EXCEPT ![p] = Append(@, Head(answer[p]))]
  /\ answer' = [answer EXCEPT ![p] = <<>>]
  /\ UNCHANGED <<script, log>>

\* ... unless the process is killed in between.
Abandon(p) ==
  /\ answer[p] # <<>>
  /\ answer' = [answer EXCEPT ![p] = <<>>]
  /\ UNCHANGED <<script, log, stdout>>

Next == \E p \in Proc : Insert(p) \/ Select(p) \/ Reply(p) \/ Abandon(p)

Spec == Init /\ [][Next]_vars
=============================================================================
