----------------------------- MODULE MCFormats -----------------------------
(***************************************************************************)
(* What the program does to texts: the lines of the row format, the table  *)
(* that shows a result, and the buffers in which texts and lists are built.*)
(* The three have no variable in common; the first state decides which of  *)
(* them moves.                                                             *)
(***************************************************************************)
EXTENDS RowFormatCheck, ResultTableCheck, Buffers

MCChar    == {Bslash, LF, CR, "|", "n", "r", "a"}
MCToLower == [c \in MCChar |-> c]

PlainCells == {<<>>, <<"a">>, <<"|">>, <<"b", Space, "+">>, <<"-", "a">>}
PlainNames == {<<>>, <<"a">>, <<"a", "b">>}
BrokenCells == {<<"a">>, <<"a", LF, "b">>}

lvars == line
svars == <<columns, rows>>

FormatsInit == LineInit /\ TableInit /\ Init

Reads  == LineNext /\ Init /\ columns = <<>> /\ UNCHANGED <<svars, vars>>
Shows  == TableNext /\ UNCHANGED <<lvars, vars>>
Builds == Next /\ line = <<>> /\ columns = <<>> /\ UNCHANGED <<lvars, svars>>

FormatsNext == Reads \/ Shows \/ Builds
FormatsSpec == FormatsInit /\ [][FormatsNext]_<<lvars, svars, vars>>
=============================================================================
