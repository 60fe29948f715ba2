------------------------------ MODULE Buffers ------------------------------
(***************************************************************************)
(* The buffers that grow while they are filled: each has a test that       *)
(* decides when to reallocate, a rule for the new capacity, and writes     *)
(* that the test must have made room for, the terminating NUL of a text    *)
(* among them.  The contents are left out.  The invocation fills one       *)
(* buffer at a time; a buffer is any of the five kinds, and serialize_row  *)
(* allocates the row once, for a length it has added up before.            *)
(***************************************************************************)
EXTENDS Naturals

CONSTANTS MaxLength,        \* bound: characters or items that are put into a buffer
          MaxFields         \* bound: fields of a row

ASSUME BoundsAssumption == MaxLength \in Nat /\ MaxFields \in Nat

VARIABLES kind,             \* what is being filled, or "none"
          capacity,         \* of the buffer; 0 while it is NULL; serialize_row's total
          length,           \* characters or items put into it
          written,          \* the highest index written to, plus one
          left              \* serialize_row: the characters and the fields still to copy

vars == <<kind, capacity, length, written, left>>

Kinds  == {"list", "tokens", "field", "literal", "escaped", "measure", "row"}
Nothing == [chars |-> 0, fields |-> 0]

Init ==
  /\ kind = "none"
  /\ capacity = 0
  /\ length = 0
  /\ written = 0
  /\ left = Nothing

\* memset, or the declarations of a function that begins to fill a buffer.
\* escape_field and serialize_row do not begin with nothing.
Begin(k, c) ==
  /\ kind = "none"
  /\ kind' = k
  /\ capacity' = c
  /\ length' = 0
  /\ written' = 0
  /\ left' = Nothing

BeginList    == Begin("list", 0)
BeginTokens  == Begin("tokens", 0)
BeginField   == Begin("field", 0)
BeginLiteral == Begin("literal", 0)
BeginEscaped == Begin("escaped", 16)
BeginMeasure == Begin("measure", 2)

Finish == kind' = "none" /\ UNCHANGED <<capacity, length, left>>

\* n indices are written, beginning with index length.
Put(n) ==
  /\ length + n <= MaxLength
  /\ length' = length + n
  /\ written' = length + n
  /\ UNCHANGED <<kind, left>>

\* Lists of strings, statements and result rows begin with 4, tokens with 16.
Doubled(first) == IF capacity = 0 THEN first ELSE capacity * 2

\* string_list_append, script_append, query_result_append_row.
ListAppend ==
  /\ kind = "list"
  /\ capacity' = IF length = capacity THEN Doubled(4) ELSE capacity
  /\ Put(1)

\* token_list_append, and the end of read_string_token.
TokenAppend ==
  /\ kind = "tokens"
  /\ capacity' = IF length = capacity THEN Doubled(16) ELSE capacity
  /\ Put(1)

\* Mutant: no room is kept for the NUL.
FieldChar_NoNul ==
  /\ kind = "field"
  /\ capacity' = IF length >= capacity THEN Doubled(16) ELSE capacity
  /\ Put(1)

\* split_pipe_line: a character, or a pair that stands for one.
FieldChar ==
  /\ kind = "field"
  /\ capacity' = IF length + 2 >= capacity THEN Doubled(16) ELSE capacity
  /\ Put(1)

\* read_string_token: a character, or a doubled quote.
LiteralChar ==
  /\ kind = "literal"
  /\ capacity' = IF length + 1 >= capacity THEN Doubled(16) ELSE capacity
  /\ Put(1)

\* The NUL at the end.  Without a character there is no buffer yet: malloc(1).
TextEnd ==
  /\ kind \in {"field", "literal"}
  /\ kind' = "none"
  /\ capacity' = IF capacity = 0 THEN 1 ELSE capacity
  /\ written' = length + 1
  /\ UNCHANGED <<length, left>>

\* escape_field: a character, or the pair that stands for it.
EscapedChar ==
  /\ kind = "escaped"
  /\ \E extra \in {1, 2} :
       /\ capacity' = IF length + extra + 1 >= capacity THEN capacity * 2 + extra + 1 ELSE capacity
       /\ Put(extra)

EscapedEnd ==
  /\ kind = "escaped"
  /\ written' = length + 1
  /\ Finish

\* serialize_row, first loop: the next field has n characters.
MeasureField ==
  /\ kind = "measure"
  /\ \E n \in 0 .. MaxLength :
       /\ left.chars + n <= MaxLength
       /\ left.fields < MaxFields
       /\ capacity' = capacity + n + 1
       /\ left' = [chars |-> left.chars + n, fields |-> left.fields + 1]
  /\ UNCHANGED <<kind, length, written>>

\* malloc(total), and output[0] = '\0'.
AllocateRow ==
  /\ kind = "measure"
  /\ kind' = "row"
  /\ written' = 1
  /\ UNCHANGED <<capacity, length, left>>

\* strcat of a field of n characters, and of the bar unless it is the last;
\* strcat ends what it writes with a NUL.
CopyField ==
  /\ kind = "row"
  /\ left.fields > 0
  /\ \E n \in 0 .. MaxLength :
       /\ n <= left.chars
       /\ left.fields = 1 => n = left.chars
       /\ left' = [chars |-> left.chars - n, fields |-> left.fields - 1]
       /\ length' = length + n + (IF left.fields > 1 THEN 1 ELSE 0)
       /\ written' = length' + 1
  /\ UNCHANGED <<kind, capacity>>

\* strcat(output, "\n").
CopyNewline ==
  /\ kind = "row"
  /\ left.fields = 0
  /\ length' = length + 1
  /\ written' = length + 2
  /\ kind' = "none"
  /\ UNCHANGED <<capacity, left>>

ListEnd == kind \in {"list", "tokens"} /\ Finish /\ UNCHANGED written

Next ==
  \/ BeginList \/ BeginTokens \/ BeginField \/ BeginLiteral \/ BeginEscaped \/ BeginMeasure
  \/ ListAppend \/ TokenAppend \/ ListEnd
  \/ FieldChar \/ LiteralChar \/ TextEnd
  \/ EscapedChar \/ EscapedEnd
  \/ MeasureField \/ AllocateRow \/ CopyField \/ CopyNewline

Spec == Init /\ [][Next]_vars

-----------------------------------------------------------------------------
TypeOK ==
  /\ kind \in Kinds \cup {"none"}
  /\ capacity \in Nat
  /\ length \in Nat
  /\ written \in Nat
  /\ left \in [chars : Nat, fields : Nat]

\* No character, no item and no terminating NUL is written behind the end of its
\* buffer, and none into a buffer that has not been allocated, whatever is put
\* into it and whenever it ends.
InBounds == written <= capacity

\* What makes it so: the room that each kind of buffer keeps between two steps.
Room ==
  /\ kind \in {"list", "tokens"} => length <= capacity
  /\ kind \in {"field", "literal"} =>
       IF capacity = 0 THEN length = 0 ELSE length + 1 <= capacity
  /\ kind = "escaped" => length + 1 <= capacity
  /\ kind = "measure" => length = 0 /\ capacity = 2 + left.chars + left.fields
  /\ kind = "row" => length + left.chars + left.fields + 2 <= capacity

BuffersInv == TypeOK /\ InBounds /\ Room
=============================================================================
