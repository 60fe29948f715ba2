---------------------------- MODULE ResultTable ----------------------------
(***************************************************************************)
(* The table that print_execution_result draws: the widths of its columns, *)
(* its three separators, its header and its rows.  What printf("%-*s")     *)
(* does is padding; a text that is longer than the width is not cut.       *)
(***************************************************************************)
EXTENDS Characters

Space == "blank"

Fill(c, n) == [i \in 1 .. n |-> c]

\* Mutant: only the column names count.
Widths_NamesOnly(columns, rows) == [c \in DOMAIN columns |-> Len(columns[c])]

\* The longest text of every column, its name included.
Widths(columns, rows) ==
  [c \in DOMAIN columns |->
     Max({Len(columns[c])} \cup {Len(rows[r][c]) : r \in DOMAIN rows})]

\* print_separator
Separator(widths) ==
  <<"+">> \o FlattenSeq([c \in DOMAIN widths |-> Append(Fill("-", widths[c] + 2), "+")]) \o <<LF>>

Padded(text, width) ==
  IF Len(text) < width THEN text \o Fill(Space, width - Len(text)) ELSE text

\* Mutant: the columns are one blank apart on the left only.
TableLine_NoBlank(widths, cells) ==
  <<"|">> \o FlattenSeq([c \in DOMAIN widths |-> Padded(cells[c], widths[c]) \o <<Space, Space, "|">>])
          \o <<LF>>

TableLine(widths, cells) ==
  <<"|">> \o FlattenSeq([c \in DOMAIN widths |-> <<Space>> \o Padded(cells[c], widths[c]) \o <<Space, "|">>])
          \o <<LF>>

\* All that is printed of a SELECT; the last line is "(<count> rows)".
Drawing(columns, rows) ==
  LET widths == Widths(columns, rows)
  IN  [table |-> Separator(widths) \o TableLine(widths, columns) \o Separator(widths)
                 \o FlattenSeq([r \in DOMAIN rows |-> TableLine(widths, rows[r])])
                 \o Separator(widths),
       count |-> Len(rows)]
=============================================================================
