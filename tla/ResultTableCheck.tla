-------------------------- MODULE ResultTableCheck --------------------------
(***************************************************************************)
(* What is drawn, looked at as a reader of the terminal sees it, for every *)
(* result of a few columns and rows whose texts are taken from two sets:   *)
(* the result grows by one row at a step.                                  *)
(***************************************************************************)
EXTENDS ResultTable, Ordered

CONSTANTS ColumnName,   \* the texts of the header
          Cell,         \* and of the rows
          MaxColumns,   \* bounds on the results that are looked at
          MaxRows

ASSUME TableAssumption == MaxColumns \in Nat /\ MaxRows \in Nat

VARIABLES columns, rows

TableInit == columns \in UNION {[1 .. n -> ColumnName] : n \in 0 .. MaxColumns} /\ rows = <<>>
TableNext ==
  /\ columns # <<>>
  /\ Len(rows) < MaxRows
  /\ \E row \in [DOMAIN columns -> Cell] : rows' = Append(rows, row)
  /\ UNCHANGED columns

TableSpec == TableInit /\ [][TableNext]_<<columns, rows>>

-----------------------------------------------------------------------------
Printed == Drawing(columns, rows).table

Places(text, c) == InOrder({i \in DOMAIN text : text[i] = c}, Len(text))

\* The lines of a terminal.
Screen(text) ==
  LET ends == Places(text, LF)
  IN  [k \in DOMAIN ends |-> SubSeq(text, IF k = 1 THEN 1 ELSE ends[k - 1] + 1, ends[k] - 1)]

\* The header and every row are one line each, between separators, and all lines
\* are as wide as the first: header and body are drawn to the same widths.
Aligned ==
  LET screen == Screen(Printed)
  IN  /\ Len(screen) = Len(rows) + 4
      /\ \A line \in Range(screen) : Len(line) = Len(screen[1])

\* The columns of the table are where its first line has its crosses.  Column by
\* column, each line shows the text of its own row, from the second place on and
\* followed by blanks only, and a bar under every cross: no value runs into the
\* next column or is shown under another name.
CellsInPlace ==
  LET screen  == Screen(Printed)
      crosses == Places(screen[1], "+")
      shown(line, text) ==
        /\ \A i \in Range(crosses) : line[i] = "|"
        /\ \A c \in DOMAIN columns :
             SubSeq(line, crosses[c] + 1, crosses[c + 1] - 1)
               = <<Space>> \o text[c] \o Fill(Space, crosses[c + 1] - crosses[c] - Len(text[c]) - 2)
  IN  /\ Len(crosses) = Len(columns) + 1
      /\ shown(screen[2], columns)
      /\ \A r \in DOMAIN rows : shown(screen[r + 3], rows[r])
=============================================================================
