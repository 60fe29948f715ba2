----------------------------- MODULE RowFormat -----------------------------
(***************************************************************************)
(* The text format of the .schema and .data files: how src/storage.c turns *)
(* the values of a row into one line (escape_field, serialize_row) and one *)
(* line back into values (split_pipe_line).                                *)
(***************************************************************************)
EXTENDS Characters

ASSUME CharAssumption == {Bslash, LF, CR, "|", "n", "r"} \subseteq Char

-----------------------------------------------------------------------------
(* Writing: escape_field and serialize_row.                                *)

\* Mutants: one character of the format left as it is, or given another letter.
EscapeChar_BarKept(c) == IF c = Bslash THEN <<Bslash, Bslash>>
                         ELSE IF c = LF THEN <<Bslash, "n">>
                         ELSE IF c = CR THEN <<Bslash, "r">> ELSE <<c>>
EscapeChar_ReturnKept(c) == IF c \in {Bslash, "|"} THEN <<Bslash, c>>
                            ELSE IF c = LF THEN <<Bslash, "n">> ELSE <<c>>
EscapeChar_NewlineKept(c) == IF c \in {Bslash, "|"} THEN <<Bslash, c>>
                             ELSE IF c = CR THEN <<Bslash, "r">> ELSE <<c>>
EscapeChar_Letter(c) == IF c \in {Bslash, "|"} THEN <<Bslash, c>>
                        ELSE IF c \in {LF, CR} THEN <<Bslash, "t">> ELSE <<c>>

EscapeChar(c) ==
  CASE c = Bslash -> <<Bslash, Bslash>>
    [] c = "|"    -> <<Bslash, "|">>
    [] c = LF     -> <<Bslash, "n">>
    [] c = CR     -> <<Bslash, "r">>
    [] OTHER      -> <<c>>

EscapeField(value) == FlattenSeq([i \in DOMAIN value |-> EscapeChar(value[i])])

\* Mutant: the separator instead of the newline after the last field.
SerializeRow_NoNewline(values) ==
  FlattenSeq([i \in DOMAIN values |-> Append(EscapeField(values[i]), "|")])

\* Every field but the last is followed by the separator, the line by a newline.
SerializeRow(values) ==
  LET cell(i) == IF i < Len(values) THEN Append(EscapeField(values[i]), "|")
                                    ELSE EscapeField(values[i])
  IN  Append(FlattenSeq([i \in DOMAIN values |-> cell(i)]), LF)

-----------------------------------------------------------------------------
(* Reading: split_pipe_line.  fields[i] is the list of values that the     *)
(* scan yields for the part of the line that starts at i; the scan stops   *)
(* at the first newline or at the end of the text.                         *)

Unescaped(c) == CASE c = "n" -> LF [] c = "r" -> CR [] OTHER -> c

\* Mutant: an escaped backslash is not recognised.
IsEscape_NoBackslash(line, i) ==
  line[i] = Bslash /\ i < Len(line) /\ line[i + 1] \in {"n", "r", "|"}

IsEscape(line, i) ==
  /\ line[i] = Bslash
  /\ i < Len(line)
  /\ line[i + 1] \in {"n", "r", "|", Bslash}

SplitPipeLine(line) ==
  LET fields[i \in 1 .. Len(line) + 1] ==
        IF i > Len(line) \/ line[i] = LF THEN << <<>> >>
        ELSE IF line[i] = CR      THEN fields[i + 1]
        ELSE IF line[i] = "|"     THEN << <<>> >> \o fields[i + 1]
        ELSE IF IsEscape(line, i) THEN [fields[i + 2] EXCEPT ![1] = <<Unescaped(line[i + 1])>> \o @]
        ELSE                           [fields[i + 1] EXCEPT ![1] = <<line[i]>> \o @]
  IN  fields[1]
=============================================================================
