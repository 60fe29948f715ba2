-------------------------- MODULE RowFormatProofs --------------------------
(***************************************************************************)
(* What the writers and the reader of a row are sure to return, for every  *)
(* alphabet and for values and lines of every length.                      *)
(***************************************************************************)
EXTENDS RowFormat, SeqLemmas

\* escape_field turns a text into a text.
LEMMA EscapeFieldType ==
  ASSUME NEW value \in Text
  PROVE  EscapeField(value) \in Text
<1> DEFINE ss == [i \in DOMAIN value |-> EscapeChar(value[i])]
<1>1. ASSUME NEW c \in Char PROVE EscapeChar(c) \in Seq(Char)
  BY CharAssumption DEF EscapeChar, Bslash, LF, CR
<1>2. ss \in Seq(Seq(Char))
  <2>1. DOMAIN value = 1 .. Len(value) /\ Len(value) \in Nat
    BY DEF Text
  <2>2. ASSUME NEW i \in DOMAIN value PROVE EscapeChar(value[i]) \in Seq(Char)
    BY <1>1 DEF Text
  <2> QED BY <2>1, <2>2
<1> HIDE DEF ss
<1>3. FlattenSeq(ss) \in Seq(Char)
  BY <1>2, FlattenSeqType
<1> QED BY <1>3 DEF EscapeField, Text, ss

\* serialize_row returns a text that is not empty and ends with a newline,
\* whatever the values.
LEMMA SerializeRowType ==
  ASSUME NEW values \in Seq(Text)
  PROVE  /\ SerializeRow(values) \in Text
         /\ SerializeRow(values) # <<>>
         /\ Last(SerializeRow(values)) = LF
<1> DEFINE cell(i) == IF i < Len(values) THEN Append(EscapeField(values[i]), "|")
                                         ELSE EscapeField(values[i])
           ss == [i \in DOMAIN values |-> cell(i)]
<1>1. ASSUME NEW i \in DOMAIN values PROVE cell(i) \in Seq(Char)
  <2>1. EscapeField(values[i]) \in Seq(Char)
    BY EscapeFieldType DEF Text
  <2>2. "|" \in Char
    BY CharAssumption
  <2> QED BY <2>1, <2>2
<1>2. ss \in Seq(Seq(Char))
  <2>1. DOMAIN values = 1 .. Len(values) /\ Len(values) \in Nat
    OBVIOUS
  <2> HIDE DEF cell
  <2> QED BY <2>1, <1>1
<1>3. SerializeRow(values) = Append(FlattenSeq(ss), LF)
  BY DEF SerializeRow
<1> HIDE DEF ss
<1>4. FlattenSeq(ss) \in Seq(Char)
  BY <1>2, FlattenSeqType
<1>5. LF \in Char
  BY CharAssumption
<1> QED BY <1>3, <1>4, <1>5 DEF Text, Last

-----------------------------------------------------------------------------
(* split_pipe_line.                                                        *)

ValueLists == Seq(Text) \ {<<>>}

\* One turn of the scan of a line at i, when f holds what the scan yields after i.
Turn(line, f, i) ==
  IF i > Len(line) \/ line[i] = LF THEN << <<>> >>
  ELSE IF line[i] = CR      THEN f[i + 1]
  ELSE IF line[i] = "|"     THEN << <<>> >> \o f[i + 1]
  ELSE IF IsEscape(line, i) THEN [f[i + 2] EXCEPT ![1] = <<Unescaped(line[i + 1])>> \o @]
  ELSE                           [f[i + 1] EXCEPT ![1] = <<line[i]>> \o @]

\* The scan of any line is well defined, and what it yields from any place on
\* is a list of at least one value, each a text.
LEMMA SplitPipeLineScan ==
  ASSUME NEW line \in Text
  PROVE  \E f : /\ \A i \in 1 .. Len(line) + 1 : f[i] \in ValueLists /\ f[i] = Turn(line, f, i)
               /\ SplitPipeLine(line) = f[1]
<1> DEFINE N == Len(line)
           Body(f, i) ==
             IF i > Len(line) \/ line[i] = LF THEN << <<>> >>
             ELSE IF line[i] = CR      THEN f[i + 1]
             ELSE IF line[i] = "|"     THEN << <<>> >> \o f[i + 1]
             ELSE IF IsEscape(line, i) THEN [f[i + 2] EXCEPT ![1] = <<Unescaped(line[i + 1])>> \o @]
             ELSE                           [f[i + 1] EXCEPT ![1] = <<line[i]>> \o @]
           Dom(n) == (N + 1 - n) .. (N + 1)
           Good(n) == \E f : f = [i \in Dom(n) |-> Body(f, i)]
           Row == Seq(Text) \ {<<>>}
<1>0. N \in Nat /\ DOMAIN line = 1 .. N /\ \A i \in 1 .. N : line[i] \in Char
  BY DEF Text
<1>1. ASSUME NEW f, NEW g, NEW i \in 1 .. N + 1,
             \A j \in i + 1 .. N + 1 : f[j] = g[j]
      PROVE  Body(f, i) = Body(g, i)
  <2>1. i # N + 1 => f[i + 1] = g[i + 1]
    BY <1>0, <1>1
  <2>2. IsEscape(line, i) => f[i + 2] = g[i + 2]
    BY <1>0, <1>1 DEF IsEscape
  <2>3. CASE i = N + 1
    BY <1>0, <2>3
  <2>4. CASE i # N + 1
    BY <2>1, <2>2, <2>4, Zenon
  <2> QED BY <2>3, <2>4
<1>2. Good(0)
  <2> DEFINE e == [i \in Dom(0) |-> Body(<<>>, i)]
  <2>1. ASSUME NEW i \in Dom(0) PROVE Body(<<>>, i) = Body(e, i)
    <3>1. i = N + 1 /\ i \in 1 .. N + 1
      BY <1>0
    <3> HIDE DEF e, Body
    <3> QED BY <1>0, <1>1, <3>1
  <2>2. e = [i \in Dom(0) |-> Body(e, i)]
    <3> HIDE DEF Body, Dom
    <3> QED BY <2>1
  <2> QED BY <2>2
<1>3. ASSUME NEW n \in Nat, n + 1 <= N, Good(n) PROVE Good(n + 1)
  <2> HIDE DEF Body
  <2>1. PICK f : f = [i \in Dom(n) |-> Body(f, i)]
    BY <1>3
  <2> DEFINE i0 == N - n
             g == [i \in Dom(n + 1) |-> IF i = i0 THEN Body(f, i) ELSE f[i]]
  <2>2. /\ Dom(n) \subseteq Dom(n + 1) /\ Dom(n + 1) \subseteq 1 .. N + 1
        /\ i0 \in Dom(n + 1) /\ i0 \notin Dom(n)
        /\ \A i \in Dom(n + 1) : i \in Dom(n) \/ i = i0
        /\ \A i \in Dom(n + 1) : \A j \in i + 1 .. N + 1 : j \in Dom(n)
    <3>1. N \in Nat /\ n + 1 <= N
      BY <1>0, <1>3
    <3> HIDE DEF N, g
    <3> QED BY <3>1
  <2> HIDE DEF Dom, i0
  <2>3. \A i \in Dom(n) : g[i] = f[i]
    BY <2>2
  <2>4. ASSUME NEW i \in Dom(n + 1) PROVE g[i] = Body(g, i)
    <3>1. \A j \in i + 1 .. N + 1 : f[j] = g[j]
      BY <2>2, <2>3
    <3>2. Body(f, i) = Body(g, i)
      <4> HIDE DEF g, N
      <4> QED BY <1>1, <2>2, <3>1
    <3>3. g[i] = Body(f, i)
      BY <2>1, <2>2
    <3> QED BY <3>2, <3>3
  <2>5. g = [i \in Dom(n + 1) |-> Body(g, i)]
    BY <2>4
  <2> QED BY <2>5
<1>4. Good(N)
  <2> DEFINE G == {n \in Nat : n <= N => Good(n)}
  <2> HIDE DEF Good
  <2>1. 0 \in G
    BY <1>2
  <2>2. ASSUME NEW n \in Nat, n \in G PROVE n + 1 \in G
    <3>1. n + 1 <= N => n <= N
      BY <1>0
    <3> QED BY <3>1, <1>3, <2>2
  <2>3. Nat \subseteq G
    <3> HIDE DEF G
    <3> QED BY <2>1, <2>2, SetInduction
  <2> QED BY <2>3, <1>0
<1> DEFINE fields == CHOOSE f : f = [i \in 1 .. N + 1 |-> Body(f, i)]
<1>5. fields = [i \in 1 .. N + 1 |-> Body(fields, i)]
  <2>1. Dom(N) = 1 .. N + 1
    BY <1>0
  <2> HIDE DEF Dom, Body
  <2> QED BY <1>4, <2>1
<1>6. SplitPipeLine(line) = fields[1]
  BY DEF SplitPipeLine
<1> HIDE DEF fields
<1>7. ASSUME NEW c \in Char, NEW fs \in Row PROVE [fs EXCEPT ![1] = <<c>> \o @] \in Row
  <2>1. 1 \in 1 .. Len(fs) /\ fs \in Seq(Text)
    OBVIOUS
  <2>2. <<c>> \o fs[1] \in Text
    BY <2>1 DEF Text
  <2>3. [fs EXCEPT ![1] = <<c>> \o fs[1]] \in Seq(Text)
    BY <2>1, <2>2, ExceptSeq
  <2>4. Len([fs EXCEPT ![1] = <<c>> \o fs[1]]) = Len(fs)
    BY <2>1, <2>2, ExceptSeq
  <2> QED BY <2>1, <2>3, <2>4
<1>8. ASSUME NEW i \in 1 .. N + 1, \A j \in i + 1 .. N + 1 : fields[j] \in Row
      PROVE  fields[i] \in Row
  <2> HIDE DEF Row
  <2>1. fields[i] = Body(fields, i)
    <3> HIDE DEF Body
    <3> QED BY <1>5
  <2>2. << <<>> >> \in Row
    BY DEF Row, Text
  <2>3. i # N + 1 => fields[i + 1] \in Row
    BY <1>0, <1>8
  <2>4. IsEscape(line, i) => fields[i + 2] \in Row /\ Unescaped(line[i + 1]) \in Char
    BY <1>0, <1>8, CharAssumption DEF IsEscape, Unescaped
  <2>5. i # N + 1 => << <<>> >> \o fields[i + 1] \in Row
    BY <2>3 DEF Row, Text
  <2>6. CASE i = N + 1
    BY <2>1, <2>2, <2>6, <1>0
  <2>7. CASE i # N + 1
    <3>1. line[i] \in Char
      BY <1>0, <2>7
    <3> QED BY <2>1, <2>2, <2>3, <2>4, <2>5, <2>7, <3>1, <1>7, Zenon
  <2> QED BY <2>6, <2>7
<1>9. \A i \in Dom(N) : fields[i] \in Row
  <2> HIDE DEF Row
  <2> DEFINE H == {n \in Nat : n <= N => \A i \in Dom(n) : fields[i] \in Row}
  <2>1. 0 \in H
    BY <1>0, <1>8
  <2>2. ASSUME NEW n \in Nat, n \in H PROVE n + 1 \in H
    <3> SUFFICES ASSUME n + 1 <= N, NEW i \in Dom(n + 1) PROVE fields[i] \in Row
      OBVIOUS
    <3>1. \A j \in Dom(n) : fields[j] \in Row
      BY <2>2, <1>0
    <3>2. i \in 1 .. N + 1 /\ \A j \in i + 1 .. N + 1 : j \in Dom(n)
      BY <1>0
    <3> HIDE DEF Dom
    <3> QED BY <3>1, <3>2, <1>8
  <2>3. Nat \subseteq H
    <3> HIDE DEF H
    <3> QED BY <2>1, <2>2, SetInduction
  <2> QED BY <2>3, <1>0
<1>10. ASSUME NEW i \in 1 .. N + 1
       PROVE  fields[i] \in ValueLists /\ fields[i] = Turn(line, fields, i)
  <2>1. fields[i] = Body(fields, i)
    <3> HIDE DEF Body
    <3> QED BY <1>5
  <2>2. Body(fields, i) = Turn(line, fields, i)
    BY DEF Turn
  <2>3. i \in Dom(N)
    BY <1>0
  <2> HIDE DEF Dom
  <2> QED BY <1>9, <2>1, <2>2, <2>3 DEF ValueLists
<1> QED BY <1>6, <1>10

\* split_pipe_line returns at least one value, and each is a text, whatever
\* the line.
LEMMA SplitPipeLineType ==
  ASSUME NEW line \in Text
  PROVE  SplitPipeLine(line) \in Seq(Text) \ {<<>>}
<1>1. 1 \in 1 .. Len(line) + 1
  BY DEF Text
<1> QED BY <1>1, SplitPipeLineScan DEF ValueLists

-----------------------------------------------------------------------------
(* Reading inverts writing.                                                *)

\* What the scan yields from a place on depends only on the text from there on.
LEMMA ScanOfSuffix ==
  ASSUME NEW u \in Text, NEW w \in Text, NEW f, NEW g,
         \A i \in 1 .. Len(u \o w) + 1 : f[i] = Turn(u \o w, f, i),
         \A i \in 1 .. Len(w) + 1 : g[i] = Turn(w, g, i)
  PROVE  \A i \in 1 .. Len(w) + 1 : f[Len(u) + i] = g[i]
<1> DEFINE line == u \o w
           k == Len(u)
           N == Len(w)
           Same(n) == \A i \in N + 1 - n .. N + 1 : f[k + i] = g[i]
<1>0. /\ k \in Nat /\ N \in Nat /\ Len(line) = k + N
      /\ \A i \in 1 .. N : line[k + i] = w[i]
  BY DEF Text
<1>1. /\ \A i \in 1 .. k + N + 1 : f[i] = Turn(line, f, i)
      /\ \A i \in 1 .. N + 1 : g[i] = Turn(w, g, i)
  BY <1>0
<1> HIDE DEF line, k, N
<1>2. ASSUME NEW i \in 1 .. N + 1, \A j \in i + 1 .. N + 1 : f[k + j] = g[j]
      PROVE  f[k + i] = g[i]
  <2>1. f[k + i] = Turn(line, f, k + i) /\ g[i] = Turn(w, g, i)
    <3>1. k + i \in 1 .. k + N + 1
      BY <1>0
    <3> QED BY <1>1, <3>1
  <2>2. CASE i = N + 1
    <3>1. k + i > Len(line) /\ i > Len(w)
      BY <1>0, <2>2 DEF N
    <3> QED BY <2>1, <3>1 DEF Turn
  <2>3. CASE i # N + 1
    <3>1. i \in 1 .. N /\ ~(k + i > Len(line)) /\ ~(i > Len(w)) /\ line[k + i] = w[i]
      BY <1>0, <2>3 DEF N
    <3>2. i + 1 \in i + 1 .. N + 1 /\ (k + i) + 1 = k + (i + 1) /\ (k + i) + 2 = k + (i + 2)
      BY <1>0, <2>3
    <3>3. f[(k + i) + 1] = g[i + 1]
      BY <1>2, <3>2
    <3>4. IsEscape(line, k + i) = IsEscape(w, i)
      <4>1. CASE i < Len(w)
        <5>1. i + 1 \in 1 .. N /\ k + i < Len(line)
          BY <1>0, <4>1 DEF N
        <5>2. line[(k + i) + 1] = w[i + 1]
          BY <1>0, <3>2, <5>1
        <5> QED BY <3>1, <4>1, <5>1, <5>2, Zenon DEF IsEscape
      <4>2. CASE ~(i < Len(w))
        <5>1. ~(k + i < Len(line))
          BY <1>0, <4>2 DEF N
        <5> QED BY <4>2, <5>1, Zenon DEF IsEscape
      <4> QED BY <4>1, <4>2
    <3>5. ASSUME IsEscape(w, i)
          PROVE  f[(k + i) + 2] = g[i + 2] /\ line[(k + i) + 1] = w[i + 1]
      <4>1. i < N
        BY <3>5 DEF IsEscape, N
      <4>2. i + 2 \in i + 1 .. N + 1 /\ i + 1 \in 1 .. N
        BY <1>0, <4>1
      <4> QED BY <1>0, <1>2, <3>2, <4>2
    <3>6. Turn(line, f, k + i) = Turn(w, g, i)
      BY <3>1, <3>3, <3>4, <3>5, Zenon DEF Turn
    <3> QED BY <2>1, <3>6
  <2> QED BY <2>2, <2>3
<1> DEFINE H == {n \in Nat : n <= N => Same(n)}
<1>3. 0 \in H
  BY <1>0, <1>2
<1>4. ASSUME NEW n \in Nat, n \in H PROVE n + 1 \in H
  <2> SUFFICES ASSUME n + 1 <= N, NEW i \in N + 1 - (n + 1) .. N + 1
               PROVE  f[k + i] = g[i]
    OBVIOUS
  <2>1. Same(n)
    BY <1>0, <1>4
  <2>2. i \in 1 .. N + 1 /\ \A j \in i + 1 .. N + 1 : j \in N + 1 - n .. N + 1
    BY <1>0
  <2>3. \A j \in i + 1 .. N + 1 : f[k + j] = g[j]
    BY <2>1, <2>2
  <2> HIDE DEF H, Same
  <2> QED BY <1>2, <2>2, <2>3
<1>5. Nat \subseteq H
  <2> HIDE DEF H
  <2> QED BY <1>3, <1>4, SetInduction
<1>6. Same(N)
  BY <1>0, <1>5
<1> QED BY <1>0, <1>6 DEF k, N

\* Reading a text that begins with u: one turn at its first character, with
\* the values of the rest of the text at hand.
LEMMA SplitFirstTurn ==
  ASSUME NEW u \in Text, NEW w \in Text
  PROVE  \E f : /\ SplitPipeLine(u \o w) = Turn(u \o w, f, 1)
               /\ f[Len(u) + 1] = SplitPipeLine(w)
<1>1. u \o w \in Text /\ 1 \in 1 .. Len(u \o w) + 1 /\ 1 \in 1 .. Len(w) + 1
  BY DEF Text
<1>2. PICK f : /\ \A i \in 1 .. Len(u \o w) + 1 : f[i] = Turn(u \o w, f, i)
               /\ SplitPipeLine(u \o w) = f[1]
  BY <1>1, SplitPipeLineScan
<1>3. PICK g : /\ \A i \in 1 .. Len(w) + 1 : g[i] = Turn(w, g, i)
               /\ SplitPipeLine(w) = g[1]
  BY SplitPipeLineScan
<1>4. f[Len(u) + 1] = g[1]
  <2>1. /\ \A i \in 1 .. Len(u \o w) + 1 : f[i] = Turn(u \o w, f, i)
        /\ \A i \in 1 .. Len(w) + 1 : g[i] = Turn(w, g, i)
    BY <1>2, <1>3
  <2>2. \A i \in 1 .. Len(w) + 1 : f[Len(u) + i] = g[i]
    BY <2>1, ScanOfSuffix
  <2> QED BY <1>1, <2>2
<1>5. f[1] = Turn(u \o w, f, 1)
  BY <1>1, <1>2
<1> QED BY <1>2, <1>3, <1>4, <1>5

\* A separator ends a value, a newline the line.
LEMMA SplitAtMark ==
  ASSUME NEW w \in Text
  PROVE  /\ SplitPipeLine(<<LF>>) = << <<>> >>
         /\ SplitPipeLine(<<"|">> \o w) = << <<>> >> \o SplitPipeLine(w)
<1>0. LF \in Char /\ "|" \in Char /\ "|" # LF /\ "|" # CR
  BY CharAssumption DEF LF, CR
<1>1. SplitPipeLine(<<LF>>) = << <<>> >>
  <2>1. <<LF>> \in Text /\ <<>> \in Text /\ <<LF>> \o <<>> = <<LF>> /\ <<LF>>[1] = LF
    BY <1>0 DEF Text
  <2>2. PICK f : SplitPipeLine(<<LF>> \o <<>>) = Turn(<<LF>> \o <<>>, f, 1)
    BY <2>1, SplitFirstTurn
  <2> QED BY <2>1, <2>2 DEF Turn
<1>2. SplitPipeLine(<<"|">> \o w) = << <<>> >> \o SplitPipeLine(w)
  <2> DEFINE line == <<"|">> \o w
  <2>1. <<"|">> \in Text /\ Len(<<"|">>) = 1 /\ line[1] = "|" /\ ~(1 > Len(line))
    BY <1>0 DEF Text
  <2>2. PICK f : SplitPipeLine(line) = Turn(line, f, 1) /\ f[1 + 1] = SplitPipeLine(w)
    BY <2>1, SplitFirstTurn
  <2> HIDE DEF line
  <2>3. Turn(line, f, 1) = << <<>> >> \o f[1 + 1]
    BY <1>0, <2>1, Zenon DEF Turn
  <2> QED BY <2>2, <2>3 DEF line
<1> QED BY <1>1, <1>2

\* values with text put before its first value.
Prefixed(text, values) == [values EXCEPT ![1] = text \o @]

\* The characters that stand for c are read as c, whatever follows them.
LEMMA SplitAtChar ==
  ASSUME NEW c \in Char, NEW w \in Text
  PROVE  /\ EscapeChar(c) \in Text
         /\ SplitPipeLine(EscapeChar(c) \o w) = Prefixed(<<c>>, SplitPipeLine(w))
<1> DEFINE u == EscapeChar(c)
           line == u \o w
<1>0. /\ {Bslash, LF, CR, "|", "n", "r"} \subseteq Char
      /\ Bslash # LF /\ Bslash # CR /\ Bslash # "|" /\ LF # CR /\ "n" # "r"
      /\ LF # "|" /\ CR # "|" /\ "|" # "n" /\ "|" # "r" /\ Bslash # "n" /\ Bslash # "r"
  BY CharAssumption DEF Bslash, LF, CR
<1>1. CASE c \notin {Bslash, LF, CR, "|"}
  <2>1. u = <<c>>
    BY <1>0, <1>1 DEF EscapeChar
  <2>2. u \in Text /\ Len(u) = 1 /\ line[1] = c /\ ~(1 > Len(line))
    BY <2>1 DEF Text
  <2>3. PICK f : SplitPipeLine(line) = Turn(line, f, 1) /\ f[1 + 1] = SplitPipeLine(w)
    BY <2>2, SplitFirstTurn
  <2> HIDE DEF line, u
  <2>4. ~IsEscape(line, 1)
    BY <1>1, <2>2, Zenon DEF IsEscape
  <2>5. Turn(line, f, 1) = [f[1 + 1] EXCEPT ![1] = <<c>> \o @]
    BY <1>1, <2>2, <2>4, Zenon DEF Turn
  <2> QED BY <2>2, <2>3, <2>5 DEF line, u, Prefixed
<1>2. CASE c \in {Bslash, LF, CR, "|"}
  <2>1. PICK d \in {"n", "r", "|", Bslash} : u = <<Bslash, d>> /\ Unescaped(d) = c
    BY <1>0, <1>2 DEF EscapeChar, Unescaped
  <2>2. /\ u \in Text /\ Len(u) = 2 /\ line[1] = Bslash /\ line[1 + 1] = d
        /\ ~(1 > Len(line)) /\ 1 < Len(line)
    BY <1>0, <2>1 DEF Text
  <2>3. PICK f : SplitPipeLine(line) = Turn(line, f, 1) /\ f[2 + 1] = SplitPipeLine(w)
    BY <2>2, SplitFirstTurn
  <2> HIDE DEF line, u
  <2>4. IsEscape(line, 1)
    BY <2>2, Zenon DEF IsEscape
  <2>5. 1 + 2 = 2 + 1
    OBVIOUS
  <2>6. Turn(line, f, 1) = [f[1 + 2] EXCEPT ![1] = <<Unescaped(d)>> \o @]
    BY <1>0, <2>2, <2>4, Zenon DEF Turn
  <2> QED BY <2>1, <2>2, <2>3, <2>5, <2>6 DEF line, u, Prefixed
<1> QED BY <1>1, <1>2

\* Putting texts before the first value one after the other.
LEMMA PrefixedTwice ==
  ASSUME NEW v \in Text, NEW u \in Text, NEW values \in ValueLists
  PROVE  /\ Prefixed(v, Prefixed(u, values)) = Prefixed(v \o u, values)
         /\ Prefixed(<<>>, values) = values
         /\ Prefixed(v, << <<>> >> \o values) = <<v>> \o values
         /\ Prefixed(v, << <<>> >>) = <<v>>
<1>1. values \in Seq(Text) /\ 1 \in DOMAIN values /\ values[1] \in Seq(Char)
      /\ u \in Seq(Char) /\ v \in Seq(Char)
  BY DEF ValueLists, Text
<1>2. v \o (u \o values[1]) = (v \o u) \o values[1]
  BY <1>1
<1>3. <<>> \o values[1] = values[1] /\ v \o <<>> = v
  BY <1>1
<1>4. Prefixed(v, << <<>> >>) = <<v>>
  BY <1>3 DEF Prefixed
<1>5. Prefixed(v, << <<>> >> \o values) = <<v>> \o values
  <2>1. << <<>> >> \o values \in Seq(Text) /\ <<v>> \o values \in Seq(Text)
    BY <1>1 DEF Text
  <2>2. /\ Len(<< <<>> >> \o values) = Len(values) + 1 /\ Len(<<v>> \o values) = Len(values) + 1
        /\ (<< <<>> >> \o values)[1] = <<>> /\ (<<v>> \o values)[1] = v
        /\ \A i \in 2 .. Len(values) + 1 : (<< <<>> >> \o values)[i] = (<<v>> \o values)[i]
    BY <1>1
  <2> DEFINE a == << <<>> >> \o values
             b == <<v>> \o values
             N == Len(values) + 1
  <2>3. /\ DOMAIN a = 1 .. N /\ DOMAIN b = 1 .. N /\ N \in Nat
        /\ a = [i \in 1 .. N |-> a[i]] /\ b = [i \in 1 .. N |-> b[i]]
        /\ a[1] = <<>> /\ b[1] = v /\ \A i \in 1 .. N : i # 1 => a[i] = b[i]
    BY <1>1, <2>1, <2>2
  <2> HIDE DEF a, b, N
  <2>4. \A i \in 1 .. N : [a EXCEPT ![1] = v \o @][i] = b[i]
    BY <1>3, <2>3
  <2>5. [a EXCEPT ![1] = v \o @] = b
    BY <2>3, <2>4
  <2> QED BY <2>5 DEF a, b, Prefixed
<1>6. Prefixed(v, Prefixed(u, values)) = Prefixed(v \o u, values)
  BY <1>1, <1>2 DEF Prefixed
<1>7. Prefixed(<<>>, values) = values
  BY <1>1, <1>3 DEF Prefixed
<1> QED BY <1>4, <1>5, <1>6, <1>7

\* escape_field goes through the value from left to right.
LEMMA EscapeFieldAppend ==
  ASSUME NEW value \in Text, NEW c \in Char
  PROVE  /\ EscapeField(<<>>) = <<>>
         /\ EscapeField(Append(value, c)) = EscapeField(value) \o EscapeChar(c)
<1> DEFINE ss == [i \in DOMAIN value |-> EscapeChar(value[i])]
           longer == [i \in DOMAIN Append(value, c) |-> EscapeChar(Append(value, c)[i])]
<1>0. value \in Seq(Char) /\ DOMAIN value = 1 .. Len(value) /\ Len(value) \in Nat
  BY DEF Text
<1>1. ASSUME NEW d \in Char PROVE EscapeChar(d) \in Seq(Char)
  BY <1>1, SplitAtChar DEF Text
<1>2. ss \in Seq(Seq(Char))
  <2>1. ASSUME NEW i \in DOMAIN value PROVE EscapeChar(value[i]) \in Seq(Char)
    BY <1>0, <1>1
  <2> QED BY <1>0, <2>1
<1>3. longer = Append(ss, EscapeChar(c))
  <2>1. /\ DOMAIN Append(value, c) = 1 .. Len(value) + 1
        /\ \A i \in 1 .. Len(value) : Append(value, c)[i] = value[i]
        /\ Append(value, c)[Len(value) + 1] = c
    BY <1>0
  <2>2. Len(ss) = Len(value) /\ \A i \in 1 .. Len(value) : ss[i] = EscapeChar(value[i])
    BY <1>0
  <2>3. \A i \in 1 .. Len(value) + 1 : Append(value, c)[i] \in Char
    BY <1>0
  <2>4. longer \in Seq(Seq(Char)) /\ Len(longer) = Len(value) + 1
    BY <1>0, <1>1, <2>1, <2>3
  <2>5. (\A i \in 1 .. Len(value) : longer[i] = ss[i]) /\ longer[Len(value) + 1] = EscapeChar(c)
    BY <1>0, <2>1, <2>2
  <2> HIDE DEF ss, longer
  <2> QED BY <1>1, <1>2, <2>2, <2>4, <2>5, IsAppend
<1>4. FlattenSeq(Append(ss, EscapeChar(c))) = FlattenSeq(ss) \o EscapeChar(c)
  <2> HIDE DEF ss
  <2> QED BY <1>1, <1>2, FlattenSeqAppend
<1>5. EscapeField(<<>>) = <<>>
  BY DEF EscapeField, FlattenSeq
<1>6. EscapeField(value) = FlattenSeq(ss) /\ EscapeField(Append(value, c)) = FlattenSeq(longer)
  BY DEF EscapeField
<1> HIDE DEF ss, longer
<1> QED BY <1>3, <1>4, <1>5, <1>6

\* Texts may be joined in any order.  (The two definitions keep the prover from
\* looking at every character where the lemma is cited.)
Joined(x, a, b)       == x = a \o b
Regrouped(x, a, b, t) == x \o t = a \o (b \o t)

LEMMA TextJoins ==
  ASSUME NEW a, a \in Text, NEW b, b \in Text, NEW t, t \in Text, NEW x, Joined(x, a, b)
  PROVE  x \in Text /\ Regrouped(x, a, b, t)
<1>1. a \in Seq(Char) /\ b \in Seq(Char) /\ t \in Seq(Char) /\ x = a \o b
  BY DEF Text, Joined
<1>2. x \in Text
  BY <1>1 DEF Text
<1>3. (a \o b) \o t = a \o (b \o t)
  BY <1>1, ConcatAssociative
<1> QED BY <1>1, <1>2, <1>3, Zenon DEF Regrouped

LEMMA TextAppends ==
  ASSUME NEW a, a \in Text, NEW c, c \in Char
  PROVE  <<c>> \in Text /\ Joined(Append(a, c), a, <<c>>)
<1>1. a \in Seq(Char) /\ c \in Char
  BY DEF Text
<1>2. <<c>> \in Text
  BY <1>1 DEF Text
<1>3. Append(a, c) = a \o <<c>>
  BY <1>1, AppendIsConcat
<1> QED BY <1>2, <1>3, Zenon DEF Joined

\* An escaped value is read back whole, whatever follows it.
LEMMA SplitAtField ==
  ASSUME NEW value \in Text, NEW w \in Text
  PROVE  SplitPipeLine(EscapeField(value) \o w) = Prefixed(value, SplitPipeLine(w))
<1> DEFINE G == {v \in Text : \A t \in Text :
                    SplitPipeLine(EscapeField(v) \o t) = Prefixed(v, SplitPipeLine(t))}
<1>1. <<>> \in G
  <2> SUFFICES ASSUME NEW t \in Text
               PROVE  SplitPipeLine(EscapeField(<<>>) \o t) = Prefixed(<<>>, SplitPipeLine(t))
    BY DEF Text
  <2>1. EscapeField(<<>>) \o t = t
    BY DEF Text, EscapeField, FlattenSeq
  <2>2. SplitPipeLine(t) \in ValueLists /\ <<>> \in Text
    BY SplitPipeLineType DEF ValueLists, Text
  <2> QED BY <2>1, <2>2, PrefixedTwice
<1>2. ASSUME NEW v \in Seq(Char), NEW c \in Char, v \in G PROVE Append(v, c) \in G
  <2>0. v \in Text /\ Append(v, c) \in Text /\ <<c>> \in Text /\ v \o <<c>> = Append(v, c)
    BY DEF Text
  <2> SUFFICES ASSUME NEW t \in Text
               PROVE  SplitPipeLine(EscapeField(Append(v, c)) \o t) = Prefixed(Append(v, c), SplitPipeLine(t))
    BY <2>0
  <2>1. EscapeChar(c) \in Text /\ EscapeField(v) \in Text
    BY <2>0, SplitAtChar, EscapeFieldType
  <2>2. EscapeField(Append(v, c)) = EscapeField(v) \o EscapeChar(c)
    BY <2>0, EscapeFieldAppend
  <2>3. EscapeField(Append(v, c)) \o t = EscapeField(v) \o (EscapeChar(c) \o t)
    <3>1. Joined(EscapeField(Append(v, c)), EscapeField(v), EscapeChar(c))
      BY <2>2, Zenon DEF Joined
    <3>2. Regrouped(EscapeField(Append(v, c)), EscapeField(v), EscapeChar(c), t)
      BY <2>1, <3>1, TextJoins
    <3> QED BY <3>2, Zenon DEF Regrouped
  <2>4. EscapeChar(c) \o t \in Text
    BY <2>1 DEF Text
  <2>5. SplitPipeLine(EscapeField(v) \o (EscapeChar(c) \o t)) = Prefixed(v, SplitPipeLine(EscapeChar(c) \o t))
    BY <1>2, <2>4
  <2>6. SplitPipeLine(EscapeChar(c) \o t) = Prefixed(<<c>>, SplitPipeLine(t))
    BY SplitAtChar
  <2>7. SplitPipeLine(t) \in ValueLists
    BY SplitPipeLineType DEF ValueLists
  <2>8. Prefixed(v, Prefixed(<<c>>, SplitPipeLine(t))) = Prefixed(v \o <<c>>, SplitPipeLine(t))
    BY <2>0, <2>7, PrefixedTwice
  <2> QED BY <2>0, <2>3, <2>5, <2>6, <2>8
<1>3. Seq(Char) \subseteq G
  <2> HIDE DEF G
  <2> QED BY <1>1, <1>2, SnocInduction
<1> QED BY <1>3 DEF Text

\* The texts of the fields that are followed by another one.
Fields(values) == [i \in DOMAIN values |-> Append(EscapeField(values[i]), "|")]

LEMMA FieldsType ==
  ASSUME NEW values \in Seq(Text)
  PROVE  /\ Fields(values) \in Seq(Text) /\ Len(Fields(values)) = Len(values)
         /\ \A i \in 1 .. Len(values) : Fields(values)[i] = Append(EscapeField(values[i]), "|")
<1>1. DOMAIN values = 1 .. Len(values) /\ Len(values) \in Nat
  OBVIOUS
<1>2. ASSUME NEW i \in 1 .. Len(values) PROVE Append(EscapeField(values[i]), "|") \in Text
  BY EscapeFieldType, CharAssumption DEF Text
<1> QED BY <1>1, <1>2 DEF Fields

\* serialize_row goes through the values from left to right: the line of a row
\* with one more value, and the fields before it.
LEMMA FieldsAppend ==
  ASSUME NEW values \in Seq(Text), NEW v \in Text
  PROVE  /\ FlattenSeq(Fields(values)) \in Text
         /\ FlattenSeq(Fields(Append(values, v)))
              = FlattenSeq(Fields(values)) \o Append(EscapeField(v), "|")
         /\ SerializeRow(Append(values, v))
              = Append(FlattenSeq(Fields(values)) \o EscapeField(v), LF)
<1> DEFINE n    == Len(values)
           more == Append(values, v)
           cell(i) == IF i < Len(more) THEN Append(EscapeField(more[i]), "|")
                                       ELSE EscapeField(more[i])
           row  == [i \in DOMAIN more |-> cell(i)]
<1>1. /\ n \in Nat /\ more \in Seq(Text) /\ Len(more) = n + 1 /\ more[n + 1] = v
      /\ \A i \in 1 .. n : more[i] = values[i]
  OBVIOUS
<1>2. /\ EscapeField(v) \in Text /\ Append(EscapeField(v), "|") \in Text
      /\ Text = Seq(Char)
  BY EscapeFieldType, CharAssumption DEF Text
<1>3. Fields(values) \in Seq(Text) /\ Len(Fields(values)) = n
  BY FieldsType
<1>4. FlattenSeq(Fields(values)) \in Text
  BY <1>2, <1>3, FlattenSeqType
<1>5. FlattenSeq(Fields(more)) = FlattenSeq(Fields(values)) \o Append(EscapeField(v), "|")
  <2>1. /\ Fields(more) \in Seq(Text) /\ Len(Fields(more)) = n + 1
        /\ \A i \in 1 .. n + 1 : Fields(more)[i] = Append(EscapeField(more[i]), "|")
        /\ \A i \in 1 .. n : Fields(values)[i] = Append(EscapeField(values[i]), "|")
    BY <1>1, FieldsType
  <2>2. /\ \A i \in 1 .. n : Fields(more)[i] = Fields(values)[i]
        /\ Fields(more)[n + 1] = Append(EscapeField(v), "|")
    <3>1. n + 1 \in 1 .. n + 1 /\ \A i \in 1 .. n : i \in 1 .. n + 1
      BY <1>1
    <3> HIDE DEF n, more
    <3> QED BY <1>1, <2>1, <3>1
  <2> HIDE DEF n, more
  <2>3. Fields(more) = Append(Fields(values), Append(EscapeField(v), "|"))
    BY <1>2, <1>3, <2>1, <2>2, IsAppend
  <2> QED BY <1>2, <1>3, <2>3, FlattenSeqAppend
<1>6. FlattenSeq(row) = FlattenSeq(Fields(values)) \o EscapeField(v)
  <2>1. ASSUME NEW i \in 1 .. n PROVE cell(i) = Fields(values)[i]
    <3>1. i < Len(more) /\ more[i] = values[i]
      BY <1>1
    <3> QED BY <3>1, FieldsType
  <2>2. cell(n + 1) = EscapeField(v)
    BY <1>1
  <2>3. ASSUME NEW i \in 1 .. n + 1 PROVE cell(i) \in Text
    <3>1. i \in 1 .. n \/ i = n + 1
      BY <1>1
    <3> HIDE DEF cell
    <3> QED BY <1>2, <1>3, <2>1, <2>2, <3>1
  <2>4. DOMAIN more = 1 .. n + 1
    BY <1>1
  <2> HIDE DEF cell, more
  <2>5. row \in Seq(Text) /\ Len(row) = n + 1
    BY <1>1, <2>3, <2>4
  <2>6. (\A i \in 1 .. n : row[i] = Fields(values)[i]) /\ row[n + 1] = EscapeField(v)
    BY <1>1, <2>1, <2>2, <2>4
  <2> HIDE DEF row, n
  <2>7. row = Append(Fields(values), EscapeField(v))
    BY <1>2, <1>3, <2>5, <2>6, IsAppend
  <2> QED BY <1>2, <1>3, <2>7, FlattenSeqAppend
<1>7. SerializeRow(more) = Append(FlattenSeq(row), LF)
  BY DEF SerializeRow
<1> HIDE DEF row
<1> QED BY <1>4, <1>5, <1>6, <1>7

\* The fields of a row are read back, whatever follows them.
LEMMA SplitAtFields ==
  ASSUME NEW values \in Seq(Text), NEW w \in Text
  PROVE  SplitPipeLine(FlattenSeq(Fields(values)) \o w) = values \o SplitPipeLine(w)
<1> DEFINE G == {vs \in Seq(Text) : \A t \in Text :
                    SplitPipeLine(FlattenSeq(Fields(vs)) \o t) = vs \o SplitPipeLine(t)}
<1>1. <<>> \in G
  <2>1. FlattenSeq(Fields(<<>>)) = <<>>
    BY DEF Fields, FlattenSeq
  <2>2. ASSUME NEW t \in Text PROVE <<>> \o t = t /\ <<>> \o SplitPipeLine(t) = SplitPipeLine(t)
    BY SplitPipeLineType DEF Text
  <2>3. <<>> \in Seq(Text)
    OBVIOUS
  <2> QED BY <2>1, <2>2, <2>3, Zenon
<1>2. ASSUME NEW vs \in Seq(Text), NEW v \in Text, vs \in G PROVE Append(vs, v) \in G
  <2>0. Append(vs, v) \in Seq(Text)
    OBVIOUS
  <2> SUFFICES ASSUME NEW t \in Text
               PROVE  SplitPipeLine(FlattenSeq(Fields(Append(vs, v))) \o t) = Append(vs, v) \o SplitPipeLine(t)
    BY <2>0, Zenon
  <2> DEFINE bar == <<"|">> \o t
             u   == EscapeField(v) \o bar
  <2>1. /\ FlattenSeq(Fields(vs)) \in Text /\ EscapeField(v) \in Text
        /\ FlattenSeq(Fields(Append(vs, v))) = FlattenSeq(Fields(vs)) \o Append(EscapeField(v), "|")
    BY FieldsAppend, EscapeFieldType
  <2>2. bar \in Text /\ u \in Text
    BY <2>1, CharAssumption DEF Text
  <2>3. FlattenSeq(Fields(Append(vs, v))) \o t = FlattenSeq(Fields(vs)) \o u
    <3>1. PICK a, b, m : a = FlattenSeq(Fields(vs)) /\ b = EscapeField(v) /\ m = <<"|">>
      OBVIOUS
    <3>2. PICK bm, all : bm = Append(b, "|") /\ all = FlattenSeq(Fields(Append(vs, v)))
      OBVIOUS
    <3>3. a \in Text /\ b \in Text /\ "|" \in Char
      BY <2>1, <3>1, CharAssumption
    <3>4. m \in Text /\ Joined(bm, b, m)
      BY <3>1, <3>2, <3>3, TextAppends
    <3>5. bm \in Text /\ Regrouped(bm, b, m, t)
      BY <3>3, <3>4, TextJoins
    <3>6. Joined(all, a, bm)
      BY <2>1, <3>1, <3>2, Zenon DEF Joined
    <3>7. Regrouped(all, a, bm, t)
      BY <3>3, <3>5, <3>6, TextJoins
    <3> QED BY <3>1, <3>2, <3>5, <3>7, Zenon DEF Regrouped
  <2>4. SplitPipeLine(FlattenSeq(Fields(vs)) \o u) = vs \o SplitPipeLine(u)
    BY <1>2, <2>2
  <2>5. SplitPipeLine(u) = Prefixed(v, << <<>> >> \o SplitPipeLine(t))
    BY <2>2, SplitAtField, SplitAtMark
  <2>6. SplitPipeLine(t) \in ValueLists /\ <<>> \in Text
    BY SplitPipeLineType DEF ValueLists, Text
  <2>7. SplitPipeLine(u) = <<v>> \o SplitPipeLine(t)
    BY <2>5, <2>6, PrefixedTwice
  <2>8. vs \o (<<v>> \o SplitPipeLine(t)) = Append(vs, v) \o SplitPipeLine(t)
    BY <2>6 DEF ValueLists
  <2> HIDE DEF u
  <2> QED BY <2>3, <2>4, <2>7, <2>8
<1>3. Seq(Text) \subseteq G
  <2> HIDE DEF G
  <2> QED BY <1>1, <1>2, SnocInduction
<1> QED BY <1>3

\* What serialize_row writes, split_pipe_line reads back, for every row of at
\* least one value, whatever characters its values hold.
LEMMA SplitSerializeRow ==
  ASSUME NEW values \in ValueLists
  PROVE  SplitPipeLine(SerializeRow(values)) = values
<1>1. PICK vs \in Seq(Text), v \in Text : values = Append(vs, v)
  <2> DEFINE front == [i \in 1 .. Len(values) - 1 |-> values[i]]
  <2>1. values \in Seq(Text) /\ Len(values) \in Nat \ {0}
    BY DEF ValueLists
  <2>2. front \in Seq(Text) /\ Len(front) = Len(values) - 1 /\ values[Len(values)] \in Text
    BY <2>1
  <2>3. values = Append(front, values[Len(values)])
    BY <2>1
  <2> HIDE DEF front
  <2> QED BY <2>2, <2>3
<1>2. /\ FlattenSeq(Fields(vs)) \in Text /\ EscapeField(v) \in Text
      /\ SerializeRow(values) = Append(FlattenSeq(Fields(vs)) \o EscapeField(v), LF)
  BY <1>1, FieldsAppend, EscapeFieldType
<1>3. LF \in Char /\ <<LF>> \in Text /\ EscapeField(v) \o <<LF>> \in Text
  BY <1>2, CharAssumption DEF Text
<1>4. SerializeRow(values) = FlattenSeq(Fields(vs)) \o (EscapeField(v) \o <<LF>>)
  <2>1. PICK a, b, m : a = FlattenSeq(Fields(vs)) /\ b = EscapeField(v) /\ m = <<LF>>
    OBVIOUS
  <2>2. PICK ab, all : ab = a \o b /\ all = SerializeRow(values)
    OBVIOUS
  <2>3. a \in Text /\ b \in Text /\ LF \in Char /\ Joined(ab, a, b)
    BY <1>2, <1>3, <2>1, <2>2, Zenon DEF Joined
  <2>4. m \in Text
    BY <1>3, <2>1
  <2>5. ab \in Text /\ Regrouped(ab, a, b, m)
    BY <2>3, <2>4, TextJoins
  <2>6. Joined(all, ab, m)
    <3>1. all = Append(ab, LF)
      BY <1>2, <2>1, <2>2, Zenon
    <3> QED BY <2>1, <2>3, <2>5, <3>1, TextAppends
  <2> QED BY <2>1, <2>2, <2>5, <2>6, Zenon DEF Joined, Regrouped
<1>5. SplitPipeLine(SerializeRow(values)) = vs \o SplitPipeLine(EscapeField(v) \o <<LF>>)
  BY <1>3, <1>4, SplitAtFields
<1>6. SplitPipeLine(EscapeField(v) \o <<LF>>) = Prefixed(v, << <<>> >>)
  BY <1>3, SplitAtField, SplitAtMark
<1>7. Prefixed(v, << <<>> >>) = <<v>>
  <2>1. << <<>> >> \in ValueLists /\ <<>> \in Text
    BY DEF ValueLists, Text
  <2> QED BY <2>1, PrefixedTwice
<1>8. vs \o <<v>> = Append(vs, v)
  OBVIOUS
<1> QED BY <1>1, <1>5, <1>6, <1>7, <1>8

\* The only newline of a row is its last character, whatever its values hold.
LEMMA SerializeRowOneLine ==
  ASSUME NEW values \in Seq(Text)
  PROVE  {i \in DOMAIN SerializeRow(values) : SerializeRow(values)[i] = LF} = {Len(SerializeRow(values))}
<1> DEFINE Safe == Char \ {LF}
           cell(i) == IF i < Len(values) THEN Append(EscapeField(values[i]), "|")
                                         ELSE EscapeField(values[i])
           ss   == [i \in DOMAIN values |-> cell(i)]
           flat == FlattenSeq(ss)
<1>0. {Bslash, "|", "n", "r"} \subseteq Safe
  BY CharAssumption DEF Bslash, LF
<1>1. ASSUME NEW c \in Char PROVE EscapeChar(c) \in Seq(Safe)
  <2>1. CASE c \in {Bslash, "|", LF, CR}
    <3>1. PICK d \in {Bslash, "|", "n", "r"} : EscapeChar(c) = <<Bslash, d>>
      BY <2>1 DEF EscapeChar, Bslash, LF, CR
    <3>2. Bslash \in Safe /\ d \in Safe
      BY <1>0
    <3> HIDE DEF Safe
    <3> QED BY <3>1, <3>2
  <2>2. CASE c \notin {Bslash, "|", LF, CR}
    <3>1. EscapeChar(c) = <<c>> /\ c \in Safe
      BY <2>2 DEF EscapeChar
    <3> HIDE DEF Safe
    <3> QED BY <3>1
  <2> QED BY <2>1, <2>2
<1> HIDE DEF Safe
<1>2. ASSUME NEW value \in Text PROVE EscapeField(value) \in Seq(Safe)
  <2> DEFINE es == [i \in DOMAIN value |-> EscapeChar(value[i])]
  <2>1. es \in Seq(Seq(Safe))
    <3>1. DOMAIN value = 1 .. Len(value) /\ Len(value) \in Nat
      BY DEF Text
    <3>2. ASSUME NEW i \in DOMAIN value PROVE EscapeChar(value[i]) \in Seq(Safe)
      BY <1>1 DEF Text
    <3> QED BY <3>1, <3>2
  <2> HIDE DEF es
  <2>2. FlattenSeq(es) \in Seq(Safe)
    BY <2>1, FlattenSeqType
  <2> QED BY <2>2 DEF EscapeField, es
<1>3. ASSUME NEW i \in DOMAIN values PROVE cell(i) \in Seq(Safe)
  BY <1>0, <1>2
<1>4. ss \in Seq(Seq(Safe))
  <2>1. DOMAIN values = 1 .. Len(values) /\ Len(values) \in Nat
    OBVIOUS
  <2> HIDE DEF cell
  <2> QED BY <2>1, <1>3
<1>5. SerializeRow(values) = Append(flat, LF)
  BY DEF SerializeRow
<1> HIDE DEF ss
<1>6. flat \in Seq(Safe)
  BY <1>4, FlattenSeqType
<1> HIDE DEF flat
<1>7. /\ Len(flat) \in Nat /\ DOMAIN Append(flat, LF) = 1 .. Len(flat) + 1
      /\ Len(Append(flat, LF)) = Len(flat) + 1 /\ Append(flat, LF)[Len(flat) + 1] = LF
      /\ \A i \in 1 .. Len(flat) : Append(flat, LF)[i] = flat[i] /\ flat[i] \in Safe
  BY <1>6
<1>8. \A i \in 1 .. Len(flat) : Append(flat, LF)[i] # LF
  BY <1>7 DEF Safe
<1>9. \A i \in 1 .. Len(flat) + 1 : Append(flat, LF)[i] = LF <=> i = Len(flat) + 1
  BY <1>7, <1>8
<1> QED BY <1>5, <1>7, <1>9
=============================================================================
