--------------------------- MODULE RowFormatCheck ---------------------------
(***************************************************************************)
(* The row format against a reference definition, over every line of at    *)
(* most MaxLine characters: the line grows by one character at a step.     *)
(***************************************************************************)
EXTENDS RowFormat, Ordered

CONSTANT MaxLine       \* bound on the lines that are looked at

VARIABLE line

LineInit == line = <<>>
LineNext == Len(line) < MaxLine /\ \E c \in Char : line' = Append(line, c)

LineSpec == LineInit /\ [][LineNext]_line

-----------------------------------------------------------------------------
(* The reference reads a line without scanning it: a backslash starts an   *)
(* escape when an even number of backslashes comes right before it and the *)
(* character after it can be escaped.                                      *)

Run(text, i) == i - 1 - Max({0} \cup {j \in 1 .. i - 1 : text[j] # Bslash})

Starts(text) ==
  {i \in 1 .. Len(text) - 1 : /\ text[i] = Bslash
                              /\ Run(text, i) % 2 = 0
                              /\ text[i + 1] \in {"n", "r", "|", Bslash}}

Escaped(text)    == {i + 1 : i \in Starts(text)}
Separators(text) == {i \in DOMAIN text : text[i] = "|"} \ Escaped(text)

\* The characters that count, and what each stands for.
Kept(text) == {i \in DOMAIN text \ Starts(text) : text[i] # CR}
Meant(text, i) == IF i \in Escaped(text) THEN Unescaped(text[i]) ELSE text[i]

Between(text, left, right) ==
  LET kept == InOrder(Kept(text) \cap left + 1 .. right - 1, right - 1)
  IN  [k \in DOMAIN kept |-> Meant(text, kept[k])]

ReferenceSplit(text) ==
  LET stop   == SelectInSeq(Append(text, LF), LAMBDA c : c = LF)
      body   == SubSeq(text, 1, stop - 1)
      bounds == <<0>> \o InOrder(Separators(body), stop - 1) \o <<stop>>
  IN  [k \in 1 .. Len(bounds) - 1 |-> Between(body, bounds[k], bounds[k + 1])]

-----------------------------------------------------------------------------
\* split_pipe_line finds the values the format defines, whatever the line:
\* runs of backslashes, a backslash before a character that is not escaped or
\* at the end of the line, carriage returns anywhere, text after the newline.
SplitMatchesReference == SplitPipeLine(line) = ReferenceSplit(line)

\* What serialize_row writes, split_pipe_line reads back: no value is lost or
\* changed by the escapes, whichever characters it holds.
RoundTrip == SplitPipeLine(SerializeRow(SplitPipeLine(line))) = SplitPipeLine(line)

\* A serialized row is exactly one line: its only newline is its last character.
OneLinePerRow ==
  LET row == SerializeRow(SplitPipeLine(line))
  IN  {i \in DOMAIN row : row[i] = LF} = {Len(row)}
=============================================================================
