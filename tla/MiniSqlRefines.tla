--------------------------- MODULE MiniSqlRefines ---------------------------
(***************************************************************************)
(* MiniSql implements TableLog, for any number of invocations, any         *)
(* scripts, tables and buffer sizes, kills included, in the circumstances  *)
(* of durability: the concurrent program is linearizable.  On the way, the *)
(* type invariant, whatever fails; and at the end what a SELECT answers    *)
(* from, when files may hold anything and rows may be torn.                *)
(***************************************************************************)
EXTENDS MiniSqlProofs, MiniSqlRefinement

-----------------------------------------------------------------------------
(* The lines of a text.                                                    *)

\* The newlines of a text that is one character longer.
LEMMA EndsSnoc ==
  ASSUME NEW text \in Text, NEW c \in Char
  PROVE  /\ Ends(<<>>) = <<>>
         /\ Ends(Append(text, c)) = IF c = LF THEN Append(Ends(text), Len(text) + 1) ELSE Ends(text)
<1> DEFINE K(x) == {n \in 1 .. Len(x) : x[n] = LF}
           id == [n \in Nat |-> n]
           scan(x) == CHOOSE f : f = [n \in 0 .. Len(x) |->
                         IF n = 0 THEN <<>>
                         ELSE IF x[n] = LF THEN Append(f[n - 1], n) ELSE f[n - 1]]
<1>1. ASSUME NEW x \in Text
      PROVE  scan(x) = [n \in 0 .. Len(x) |-> ScanBody(K(x), id, scan(x), n)]
  <2>1. ASSUME NEW f
        PROVE  [n \in 0 .. Len(x) |-> ScanBody(K(x), id, f, n)]
                 = [n \in 0 .. Len(x) |-> IF n = 0 THEN <<>>
                         ELSE IF x[n] = LF THEN Append(f[n - 1], n) ELSE f[n - 1]]
    <3>1. ASSUME NEW n \in 0 .. Len(x)
          PROVE  ScanBody(K(x), id, f, n)
                   = IF n = 0 THEN <<>> ELSE IF x[n] = LF THEN Append(f[n - 1], n) ELSE f[n - 1]
      <4>1. Len(x) \in Nat
        BY DEF Text
      <4>2. n # 0 => (n \in K(x) <=> x[n] = LF) /\ id[n] = n
        BY <4>1
      <4> HIDE DEF K, id
      <4> QED BY <4>2 DEF ScanBody
    <3> HIDE DEF K, id
    <3> QED BY <3>1
  <2>2. \E f : f = [n \in 0 .. Len(x) |-> ScanBody(K(x), id, f, n)]
    <3>1. Len(x) \in Nat
      BY DEF Text
    <3> HIDE DEF K, id
    <3> QED BY <3>1, ScanExists DEF IsScan
  <2> HIDE DEF K, id
  <2>3. \E f : f = [n \in 0 .. Len(x) |->
                         IF n = 0 THEN <<>>
                         ELSE IF x[n] = LF THEN Append(f[n - 1], n) ELSE f[n - 1]]
    <3>1. PICK f : f = [n \in 0 .. Len(x) |-> ScanBody(K(x), id, f, n)]
      BY <2>2, Zenon
    <3>2. f = [n \in 0 .. Len(x) |-> IF n = 0 THEN <<>>
                         ELSE IF x[n] = LF THEN Append(f[n - 1], n) ELSE f[n - 1]]
      BY <2>1, <3>1, ZenonT(40)
    <3> QED BY <3>2, ZenonT(40)
  <2>4. scan(x) = [n \in 0 .. Len(x) |->
                         IF n = 0 THEN <<>>
                         ELSE IF x[n] = LF THEN Append(scan(x)[n - 1], n) ELSE scan(x)[n - 1]]
    BY <2>3
  <2> HIDE DEF scan
  <2> QED BY <2>1, <2>4
<1>2. ASSUME NEW x \in Text PROVE Ends(x) = scan(x)[Len(x)]
  BY DEF Ends
<1> DEFINE longer == Append(text, c)
<1>3. /\ text \in Text /\ <<>> \in Text /\ longer \in Text /\ Len(text) \in Nat
      /\ Len(longer) = Len(text) + 1 /\ longer[Len(text) + 1] = c
      /\ \A n \in 1 .. Len(text) : longer[n] = text[n]
  BY DEF Text
<1>4. Ends(<<>>) = <<>>
  <2>1. Len(<<>>) = 0 /\ 0 \in 0 .. 0
    OBVIOUS
  <2> HIDE DEF scan
  <2>2. scan(<<>>)[0] = ScanBody(K(<<>>), id, scan(<<>>), 0)
    <3> HIDE DEF K, id
    <3> QED BY <1>1, <1>3, <2>1
  <2> QED BY <1>2, <1>3, <2>1, <2>2 DEF ScanBody
<1>5. \A n \in 1 .. Len(text) : (n \in K(text) <=> n \in K(longer)) /\ id[n] = id[n]
  <2> HIDE DEF longer
  <2> QED BY <1>3
<1>6. Len(text) + 1 \in K(longer) <=> c = LF
  <2> HIDE DEF longer
  <2> QED BY <1>3
<1>7. id[Len(text) + 1] = Len(text) + 1
  BY <1>3
<1> HIDE DEF K, id, scan, longer
<1>8. /\ IsScan(Len(text), K(text), id, scan(text))
      /\ IsScan(Len(text) + 1, K(longer), id, scan(longer))
  BY <1>1, <1>3 DEF IsScan
<1>9. scan(longer)[Len(text) + 1]
        = IF Len(text) + 1 \in K(longer) THEN Append(scan(text)[Len(text)], id[Len(text) + 1])
                                          ELSE scan(text)[Len(text)]
  <2>0. PICK N \in Nat : N = Len(text)
    BY <1>3
  <2>1. PICK A, B, f, g :
          A = K(text) /\ B = K(longer) /\ f = scan(text) /\ g = scan(longer)
    OBVIOUS
  <2>2. IsScan(N, A, id, f) /\ IsScan(N + 1, B, id, g)
    BY <1>8, <2>0, <2>1
  <2>3. \A n \in 1 .. N : (n \in A <=> n \in B) /\ id[n] = id[n]
    BY <1>5, <2>0, <2>1
  <2>4. g[N + 1] = IF N + 1 \in B THEN Append(f[N], id[N + 1]) ELSE f[N]
    BY <2>2, <2>3, ScanOneMore
  <2> QED BY <2>0, <2>1, <2>4
<1>10. Ends(longer) = IF c = LF THEN Append(Ends(text), Len(text) + 1) ELSE Ends(text)
  BY <1>2, <1>3, <1>6, <1>7, <1>9
<1> QED BY <1>4, <1>10 DEF longer

\* e lists the ends of the lines of the text, in order.
LineStart(e, k) == IF k = 1 THEN 1 ELSE e[k - 1] + 1
LineEnds(text, e) ==
  /\ e \in Seq(1 .. Len(text))
  /\ \A k \in 1 .. Len(e) : /\ LineStart(e, k) \in 1 .. e[k]
                            /\ IsLine(text, LineStart(e, k), e[k])
  /\ \A i \in LineStart(e, Len(e) + 1) .. Len(text) : text[i] # LF

\* One more character ends a line or does not.
LEMMA LineEndsSnoc ==
  ASSUME NEW text \in Text, NEW c \in Char, NEW e, LineEnds(text, e)
  PROVE  LineEnds(Append(text, c), IF c = LF THEN Append(e, Len(text) + 1) ELSE e)
<1> DEFINE m == Len(text)
           n == Len(e)
           longer == Append(text, c)
           e2 == IF c = LF THEN Append(e, m + 1) ELSE e
<1>1. /\ m \in Nat /\ Len(longer) = m + 1 /\ longer[m + 1] = c
      /\ \A i \in 1 .. m : longer[i] = text[i]
  BY DEF Text
<1>2. /\ e \in Seq(1 .. m) /\ n \in Nat /\ \A k \in 1 .. n : e[k] \in 1 .. m
      /\ \A k \in 1 .. n : LineStart(e, k) \in 1 .. e[k] /\ IsLine(text, LineStart(e, k), e[k])
      /\ \A i \in LineStart(e, n + 1) .. m : text[i] # LF
      /\ LineStart(e, n + 1) \in 1 .. m + 1
      /\ LineStart(e, n + 1) = 1 \/ text[LineStart(e, n + 1) - 1] = LF
  <2>1. e \in Seq(1 .. m) /\ n \in Nat /\ \A k \in 1 .. n : e[k] \in 1 .. m
    BY <1>1 DEF LineEnds
  <2>2. LineStart(e, n + 1) = IF n = 0 THEN 1 ELSE e[n] + 1
    BY <2>1 DEF LineStart
  <2>3. n # 0 => n \in 1 .. n /\ e[n] \in 1 .. m /\ (e[n] + 1) - 1 = e[n]
    BY <2>1
  <2>4. n # 0 => text[e[n]] = LF
    BY <2>3 DEF LineEnds, IsLine
  <2> HIDE DEF m, n
  <2>5. /\ LineStart(e, n + 1) \in 1 .. m + 1
        /\ LineStart(e, n + 1) = 1 \/ text[LineStart(e, n + 1) - 1] = LF
    BY <1>1, <2>1, <2>2, <2>3, <2>4
  <2> QED BY <2>1, <2>5 DEF LineEnds, m, n
<1>3. ASSUME NEW k \in 1 .. n PROVE IsLine(longer, LineStart(e, k), e[k])
  <2>1. PICK i \in Nat, j \in Nat : i = LineStart(e, k) /\ j = e[k]
    BY <1>2
  <2>2. i \in 1 .. j /\ j \in 1 .. m /\ IsLine(text, i, j)
    BY <1>2, <2>1
  <2> HIDE DEF m, n, longer
  <2>3. (i # 1 => i - 1 \in 1 .. m) /\ \A x \in i .. j - 1 : x \in 1 .. m
    BY <1>1, <2>2
  <2>4. IsLine(longer, i, j)
    BY <1>1, <2>2, <2>3 DEF IsLine
  <2> QED BY <2>1, <2>4
<1>4. CASE c # LF
  <2>1. e2 = e
    BY <1>4
  <2>2. ASSUME NEW i \in LineStart(e, n + 1) .. m + 1 PROVE longer[i] # LF
    <3>1. i = m + 1 \/ i \in LineStart(e, n + 1) .. m
      BY <1>1, <1>2
    <3>2. i \in LineStart(e, n + 1) .. m => i \in 1 .. m
      BY <1>1, <1>2
    <3> HIDE DEF m, n, longer
    <3> QED BY <1>1, <1>2, <1>4, <3>1, <3>2
  <2>3. e \in Seq(1 .. m + 1)
    BY <1>1, <1>2
  <2> HIDE DEF longer, m, e2
  <2> QED BY <1>1, <1>2, <1>3, <2>1, <2>2, <2>3 DEF LineEnds, e2, longer, m
<1>5. CASE c = LF
  <2>1. e2 = Append(e, m + 1)
    BY <1>5
  <2> HIDE DEF e2
  <2>2. /\ e2 \in Seq(1 .. m + 1) /\ Len(e2) = n + 1 /\ e2[n + 1] = m + 1
        /\ \A k \in 1 .. n : e2[k] = e[k]
    BY <1>1, <1>2, <2>1
  <2> HIDE DEF m, n, longer
  <2>3. ASSUME NEW k \in 1 .. n + 1 PROVE LineStart(e2, k) = LineStart(e, k)
    BY <1>2, <2>2 DEF LineStart
  <2>4. IsLine(longer, LineStart(e, n + 1), m + 1)
    <3>1. PICK i \in 1 .. m + 1 : i = LineStart(e, n + 1)
      BY <1>2
    <3>2. (i # 1 => i - 1 \in 1 .. m) /\ \A x \in i .. (m + 1) - 1 : x \in 1 .. m /\ x \in i .. m
      BY <1>1, <3>1
    <3>3. IsLine(longer, i, m + 1)
      BY <1>1, <1>2, <1>5, <3>1, <3>2 DEF IsLine
    <3> QED BY <3>1, <3>3
  <2>5. ASSUME NEW k \in 1 .. n + 1
        PROVE  LineStart(e2, k) \in 1 .. e2[k] /\ IsLine(longer, LineStart(e2, k), e2[k])
    <3>1. k \in 1 .. n \/ k = n + 1
      BY <1>2
    <3>2. CASE k \in 1 .. n
      BY <1>2, <1>3, <2>2, <2>3, <3>2
    <3>3. CASE k = n + 1
      BY <1>2, <2>2, <2>3, <2>4, <3>3
    <3> QED BY <3>1, <3>2, <3>3
  <2>6. \A i \in LineStart(e2, (n + 1) + 1) .. m + 1 : FALSE
    <3>1. (n + 1) + 1 # 1 /\ ((n + 1) + 1) - 1 = n + 1
      BY <1>2
    <3>2. LineStart(e2, (n + 1) + 1) = (m + 1) + 1
      BY <2>2, <3>1 DEF LineStart
    <3> QED BY <1>1, <3>2
  <2> QED BY <1>1, <2>2, <2>5, <2>6 DEF LineEnds, e2, m, n, longer
<1> QED BY <1>4, <1>5

\* Ends finds the ends of the lines.
LEMMA EndsAreLineEnds ==
  ASSUME NEW text \in Text
  PROVE  LineEnds(text, Ends(text))
<1> DEFINE G == {x \in Text : LineEnds(x, Ends(x))}
<1>1. <<>> \in G
  <2>1. Ends(<<>>) = <<>> /\ <<>> \in Text
    <3>1. <<>> \in Text /\ LF \in Char
      BY CharAssumption DEF Text
    <3> QED BY <3>1, EndsSnoc
  <2>2. <<>> \in Seq(1 .. Len(<<>>)) /\ Len(<<>>) = 0
    OBVIOUS
  <2>3. LineStart(<<>>, 0 + 1) = 1
    BY DEF LineStart
  <2>4. LineEnds(<<>>, <<>>)
    BY <2>2, <2>3 DEF LineEnds
  <2> QED BY <2>1, <2>4
<1>2. ASSUME NEW x \in Seq(Char), NEW c \in Char, x \in G PROVE Append(x, c) \in G
  <2>1. x \in Text /\ Append(x, c) \in Text /\ LineEnds(x, Ends(x))
    BY <1>2 DEF Text
  <2>2. Ends(Append(x, c)) = IF c = LF THEN Append(Ends(x), Len(x) + 1) ELSE Ends(x)
    BY <2>1, EndsSnoc
  <2>3. LineEnds(Append(x, c), IF c = LF THEN Append(Ends(x), Len(x) + 1) ELSE Ends(x))
    BY <2>1, LineEndsSnoc
  <2> QED BY <2>1, <2>2, <2>3
<1>3. Seq(Char) \subseteq G
  <2> HIDE DEF G
  <2> QED BY <1>1, <1>2, SnocInduction
<1> QED BY <1>3 DEF Text

\* A line at the end of a text has one end more.
LEMMA EndsAppend ==
  ASSUME NEW text \in Text, NEW line \in Text,
         {k \in DOMAIN line : line[k] = LF} = {Len(line)}
  PROVE  Ends(text \o line) = Append(Ends(text), Len(text) + Len(line))
<1> DEFINE C == Char \ {LF}
           G == {x \in Seq(C) : Ends(text \o x) = Ends(text)}
<1>1. <<>> \in G
  <2>1. text \o <<>> = text
    BY DEF Text
  <2>2. Ends(text \o <<>>) = Ends(text)
    BY <2>1
  <2>3. <<>> \in Seq(C)
    OBVIOUS
  <2> QED BY <2>2, <2>3
<1>2. ASSUME NEW x \in Seq(C), NEW c \in C, x \in G PROVE Append(x, c) \in G
  <2>1. /\ x \in Seq(Char) /\ text \o x \in Text /\ c \in Char /\ c # LF
        /\ Append(x, c) \in Seq(C)
    BY DEF Text
  <2>2. text \o Append(x, c) = Append(text \o x, c)
    BY <2>1 DEF Text
  <2>3. Ends(Append(text \o x, c)) = Ends(text \o x)
    BY <2>1, EndsSnoc
  <2>4. Ends(text \o Append(x, c)) = Ends(text)
    BY <1>2, <2>2, <2>3
  <2> QED BY <2>1, <2>4
<1>3. Seq(C) \subseteq G
  <2> HIDE DEF G, C
  <2> QED BY <1>1, <1>2, SnocInduction
<1> DEFINE n == Len(line)
           front == [i \in 1 .. n - 1 |-> line[i]]
<1>4. line \in Seq(Char) /\ n \in Nat \ {0} /\ line[n] = LF /\ \A i \in 1 .. n - 1 : line[i] # LF
  <2>1. line \in Seq(Char) /\ n \in Nat /\ DOMAIN line = 1 .. n
    BY DEF Text
  <2>2. n \in DOMAIN line /\ line[n] = LF
    OBVIOUS
  <2>3. \A i \in DOMAIN line : line[i] = LF => i = n
    OBVIOUS
  <2> QED BY <2>1, <2>2, <2>3
<1>5. front \in Seq(C) /\ Len(front) = n - 1
  <2>1. \A i \in 1 .. n - 1 : line[i] \in C
    BY <1>4
  <2> QED BY <1>4, <2>1
<1>6. line = Append(front, LF)
  <2> HIDE DEF C
  <2> QED BY <1>4
<1>7. Ends(text \o front) = Ends(text)
  BY <1>3, <1>5
<1> HIDE DEF front
<1>8. /\ text \in Seq(Char) /\ front \in Seq(Char) /\ LF \in Char
      /\ text \o front \in Text /\ Len(text \o front) = Len(text) + (n - 1) /\ Len(text) \in Nat
  <2>1. text \in Seq(Char) /\ front \in Seq(Char) /\ LF \in Char
    BY <1>5, CharAssumption DEF Text
  <2> HIDE DEF n
  <2> QED BY <1>4, <1>5, <2>1 DEF Text
<1>9. text \o line = Append(text \o front, LF)
  BY <1>6, <1>8
<1>10. Len(text \o front) + 1 = Len(text) + n
  BY <1>4, <1>8
<1> HIDE DEF n
<1>11. Ends(text \o line) = Append(Ends(text \o front), Len(text \o front) + 1)
  BY <1>8, <1>9, EndsSnoc
<1> QED BY <1>7, <1>10, <1>11 DEF n

\* Each of the lines is a line of the text.
LEMMA LinesAre ==
  ASSUME NEW text \in Text
  PROVE  /\ Lines(text) \in Seq(Text) /\ Len(Lines(text)) = Len(Ends(text))
         /\ \A k \in 1 .. Len(Ends(text)) :
              /\ LineStart(Ends(text), k) \in 1 .. Ends(text)[k]
              /\ Ends(text)[k] \in 1 .. Len(text)
              /\ Lines(text)[k] = SubSeq(text, LineStart(Ends(text), k), Ends(text)[k])
              /\ IsLine(text, LineStart(Ends(text), k), Ends(text)[k])
<1> DEFINE e == Ends(text)
<1>1. LineEnds(text, e)
  BY EndsAreLineEnds
<1>2. Lines(text) = [k \in DOMAIN e |-> SubSeq(text, LineStart(e, k), e[k])]
  BY DEF Lines, LineStart
<1> HIDE DEF e
<1>3. /\ e \in Seq(1 .. Len(text)) /\ DOMAIN e = 1 .. Len(e) /\ Len(e) \in Nat
      /\ \A k \in 1 .. Len(e) : /\ e[k] \in 1 .. Len(text) /\ LineStart(e, k) \in 1 .. e[k]
                                /\ IsLine(text, LineStart(e, k), e[k])
  BY <1>1 DEF LineEnds
<1>4. ASSUME NEW k \in 1 .. Len(e) PROVE SubSeq(text, LineStart(e, k), e[k]) \in Text
  <2>1. PICK i \in Nat, j \in Nat : i = LineStart(e, k) /\ j = e[k]
    BY <1>3 DEF Text
  <2>2. i \in 1 .. j /\ j \in 1 .. Len(text) /\ text \in Seq(Char) /\ Len(text) \in Nat
    BY <1>3, <2>1 DEF Text
  <2>3. SubSeq(text, i, j) \in Seq(Char)
    BY <2>2
  <2> QED BY <2>1, <2>3 DEF Text
<1>5. Lines(text) \in Seq(Text) /\ Len(Lines(text)) = Len(e)
  BY <1>2, <1>3, <1>4
<1> QED BY <1>2, <1>3, <1>5 DEF e

\* The last line of a text of whole lines ends where the text does.
LEMMA LastLineEnds ==
  ASSUME NEW text \in Text, text = <<>> \/ Last(text) = LF
  PROVE  LineStart(Ends(text), Len(Ends(text)) + 1) = Len(text) + 1
<1>1. PICK e, m : e = Ends(text) /\ m = Len(text)
  OBVIOUS
<1>2. LineEnds(text, e)
  BY <1>1, EndsAreLineEnds
<1>3. m \in Nat /\ e \in Seq(1 .. m) /\ Len(e) \in Nat /\ \A k \in 1 .. Len(e) : e[k] \in 1 .. m
  <2>1. m \in Nat /\ e \in Seq(1 .. m)
    BY <1>1, <1>2 DEF LineEnds, Text
  <2> QED BY <2>1
<1>4. LineStart(e, Len(e) + 1) = m + 1
  <2>1. CASE m = 0
    <3>1. Len(e) = 0
      BY <1>3, <2>1
    <3> QED BY <2>1, <3>1 DEF LineStart
  <2>2. CASE m # 0
    <3>1. text[m] = LF /\ text # <<>>
      <4>1. text # <<>>
        BY <1>1, <2>2
      <4> QED BY <1>1, <4>1 DEF Last
    <3>2. PICK s : s = LineStart(e, Len(e) + 1)
      OBVIOUS
    <3>3. s = IF Len(e) = 0 THEN 1 ELSE e[Len(e)] + 1
      BY <1>3, <3>2 DEF LineStart
    <3>4. Len(e) # 0 => Len(e) \in 1 .. Len(e) /\ e[Len(e)] \in 1 .. m
      BY <1>3
    <3>5. s \in 1 .. m + 1
      BY <1>3, <3>3, <3>4
    <3>6. \A i \in s .. m : text[i] # LF
      BY <1>1, <1>2, <3>2 DEF LineEnds
    <3>7. ~(m \in s .. m)
      BY <3>1, <3>6
    <3> QED BY <1>3, <3>2, <3>5, <3>7
  <2> QED BY <2>1, <2>2
<1> QED BY <1>1, <1>4

\* A line at the end of a text of whole lines is one line more.
LEMMA LinesAppend ==
  ASSUME NEW text \in Text, text = <<>> \/ Last(text) = LF,
         NEW line \in Text, {k \in DOMAIN line : line[k] = LF} = {Len(line)}
  PROVE  Lines(text \o line) = Append(Lines(text), line)
<1> DEFINE m == Len(text)
           n == Len(line)
           e == Ends(text)
           both == text \o line
<1>1. Ends(both) = Append(e, m + n)
  BY EndsAppend
<1>2. /\ m \in Nat /\ n \in Nat \ {0} /\ both \in Text /\ Len(both) = m + n
      /\ text \in Seq(Char) /\ line \in Seq(Char) /\ both \in Seq(Char)
  <2>1. Len(line) \in DOMAIN line
    OBVIOUS
  <2> QED BY <2>1 DEF Text
<1>3. LineEnds(text, e)
  BY EndsAreLineEnds
<1> HIDE DEF e, m, n, both
<1>4. e \in Seq(1 .. m) /\ Len(e) \in Nat /\ \A k \in 1 .. Len(e) : e[k] \in 1 .. m
  <2>1. e \in Seq(1 .. m)
    BY <1>3 DEF LineEnds, m
  <2> QED BY <1>2, <2>1, SMTT(20)
<1>5. LineStart(e, Len(e) + 1) = m + 1
  BY LastLineEnds DEF e, m
<1>6. PICK e2 : e2 = Ends(both)
  OBVIOUS
<1>7. /\ e2 \in Seq(1 .. m + n) /\ Len(e2) = Len(e) + 1 /\ e2[Len(e) + 1] = m + n
      /\ \A k \in 1 .. Len(e) : e2[k] = e[k]
  <2>1. e \in Seq(1 .. m + n) /\ m + n \in 1 .. m + n
    BY <1>2, <1>4
  <2> QED BY <1>1, <1>6, <2>1
<1>8. \A k \in 1 .. Len(e) + 1 : LineStart(e2, k) = LineStart(e, k)
  <2>1. ASSUME NEW k \in 1 .. Len(e) + 1 PROVE k = 1 \/ e2[k - 1] = e[k - 1]
    <3>1. k = 1 \/ k - 1 \in 1 .. Len(e)
      BY <1>4
    <3> QED BY <1>7, <3>1, Zenon
  <2> QED BY <2>1, Zenon DEF LineStart
<1>9. /\ Lines(both) \in Seq(Text) /\ Len(Lines(both)) = Len(e) + 1
      /\ \A k \in 1 .. Len(e) + 1 : Lines(both)[k] = SubSeq(both, LineStart(e2, k), e2[k])
  BY <1>2, <1>6, <1>7, LinesAre
<1>10. /\ Lines(text) \in Seq(Text) /\ Len(Lines(text)) = Len(e)
       /\ \A k \in 1 .. Len(e) : /\ LineStart(e, k) \in 1 .. e[k]
                                 /\ Lines(text)[k] = SubSeq(text, LineStart(e, k), e[k])
  BY LinesAre DEF e
<1>11. ASSUME NEW k \in 1 .. Len(e) PROVE Lines(both)[k] = Lines(text)[k]
  <2>1. PICK i \in Nat, j \in Nat : i = LineStart(e, k) /\ j = e[k]
    BY <1>2, <1>4, <1>10
  <2>2. i \in 1 .. j /\ j \in 1 .. m
    BY <1>4, <1>10, <2>1
  <2>3. SubSeq(both, i, j) = SubSeq(text, i, j)
    BY <1>2, <2>2, SubSeqOfConcat1 DEF both, m
  <2>4. k \in 1 .. Len(e) + 1
    BY <1>4
  <2> QED BY <1>7, <1>8, <1>9, <1>10, <2>1, <2>3, <2>4
<1>12. Lines(both)[Len(e) + 1] = line
  <2>1. Len(e) + 1 \in 1 .. Len(e) + 1
    BY <1>4
  <2>2. Lines(both)[Len(e) + 1] = SubSeq(both, m + 1, m + n)
    BY <1>5, <1>7, <1>8, <1>9, <2>1
  <2>3. text \o line = both /\ line # <<>>
    BY <1>2 DEF both, n
  <2>4. Last(line) = LF
    <3>1. n \in {k \in DOMAIN line : line[k] = LF}
      BY DEF n
    <3> QED BY <3>1 DEF Last, n
  <2>5. line \in Text \ {<<>>}
    BY <2>3
  <2> QED BY <2>2, <2>3, <2>4, <2>5, LineAppended DEF m, n
<1>13. Lines(both) = Append(Lines(text), line)
  BY <1>9, <1>10, <1>11, <1>12, IsAppend
<1> QED BY <1>13 DEF both

-----------------------------------------------------------------------------
(* Columns by name and columns by position.                                *)

\* sql_stricmp tells names apart as their lower case does.
LEMMA SameNameIs ==
  ASSUME NEW a \in Text, NEW b \in Text
  PROVE  /\ LowerCase(a) \in Text
         /\ SameName(a, b) <=> LowerCase(a) = LowerCase(b)
<1>1. /\ a \in Seq(Char) /\ DOMAIN a = 1 .. Len(a) /\ Len(a) \in Nat
      /\ DOMAIN b = 1 .. Len(b) /\ Len(b) \in Nat
      /\ \A i \in 1 .. Len(a) : a[i] \in Char
  BY DEF Text
<1>2. LowerCase(a) \in Text
  BY <1>1, ToLowerAssumption DEF LowerCase, Text
<1>3. ASSUME SameName(a, b) PROVE LowerCase(a) = LowerCase(b)
  BY <1>1, <1>3 DEF SameName, LowerCase
<1>4. ASSUME LowerCase(a) = LowerCase(b) PROVE SameName(a, b)
  <2>1. DOMAIN LowerCase(a) = DOMAIN a /\ DOMAIN LowerCase(b) = DOMAIN b
    BY ZenonT(40) DEF LowerCase
  <2>2. Len(a) = Len(b)
    <3>1. ASSUME NEW m \in Nat, NEW n \in Nat, 1 .. m = 1 .. n PROVE m = n
      BY <3>1
    <3>2. DOMAIN a = DOMAIN b
      BY <1>4, <2>1
    <3> QED BY <1>1, <3>1, <3>2
  <2>3. ASSUME NEW i \in DOMAIN a PROVE ToLower[a[i]] = ToLower[b[i]]
    <3>1. LowerCase(a)[i] = ToLower[a[i]]
      BY DEF LowerCase
    <3>2. LowerCase(b)[i] = ToLower[b[i]]
      BY <1>4, <2>1 DEF LowerCase
    <3> QED BY <1>4, <3>1, <3>2
  <2> QED BY <2>2, <2>3 DEF SameName
<1> QED BY <1>2, <1>3, <1>4

\* The names of the columns of a table that loads.
LEMMA LowerColumnsAre ==
  ASSUME NEW t \in Table, ~LoadFails(t)
  PROVE  /\ Columns[t] \in Seq(Text) /\ Len(Columns[t]) \in Nat \ {0}
         /\ LowerColumns[t] \in Seq(Text) /\ Len(LowerColumns[t]) = Len(Columns[t])
         /\ LowerColumns[t] # <<>>
         /\ \A k \in 1 .. Len(Columns[t]) : LowerColumns[t][k] = LowerCase(Columns[t][k])
         /\ \A k, l \in 1 .. Len(Columns[t]) : LowerColumns[t][k] = LowerColumns[t][l] => k = l
<1>1. Columns[t] \in Seq(Text) /\ Len(Columns[t]) \in Nat \ {0}
      /\ DOMAIN Columns[t] = 1 .. Len(Columns[t])
  <2>1. Columns[t] \in Seq(Text) \ {<<>>}
    BY ColumnsType
  <2> QED BY <2>1
<1>2. LowerColumns[t] = [i \in 1 .. Len(Columns[t]) |-> LowerCase(Columns[t][i])]
  BY <1>1 DEF LowerColumns
<1>3. \A i \in 1 .. Len(Columns[t]) : LowerCase(Columns[t][i]) \in Text
  BY <1>1, SameNameIs
<1>4. LowerColumns[t] \in Seq(Text) /\ Len(LowerColumns[t]) = Len(Columns[t])
  BY <1>1, <1>2, <1>3
<1>5. \A k, l \in 1 .. Len(Columns[t]) : LowerColumns[t][k] = LowerColumns[t][l] => k = l
  BY <1>1, <1>2, DistinctColumns DEF IsInjective
<1> QED BY <1>1, <1>2, <1>4, <1>5

\* find_column_index finds the column of that name, if there is one.
LEMMA FindColumnIndexIs ==
  ASSUME NEW t \in Table, ~LoadFails(t), NEW name \in Text,
         NEW k, k = FindColumnIndex(Columns[t], name)
  PROVE  /\ k = 0 => \A l \in 1 .. Len(Columns[t]) : LowerColumns[t][l] # LowerCase(name)
         /\ k # 0 => k \in 1 .. Len(Columns[t]) /\ LowerColumns[t][k] = LowerCase(name)
         /\ \A l \in 1 .. Len(Columns[t]) : LowerColumns[t][l] = LowerCase(name) <=> k = l
<1> DEFINE I == {i \in 1 .. Len(Columns[t]) : SameName(Columns[t][i], name)}
<1>1. k = IF I # {} THEN Min(I) ELSE 0
  BY DEF FindColumnIndex, SelectInSeq
<1>2. I # {} => Min(I) \in I
  <2>1. I \subseteq Nat
    OBVIOUS
  <2>2. I # {} => \E x \in I : \A y \in I : x <= y
    BY <2>1, LeastNat
  <2> HIDE DEF I
  <2> QED BY <2>2 DEF Min
<1>3. ASSUME NEW i \in 1 .. Len(Columns[t])
      PROVE  i \in I <=> LowerColumns[t][i] = LowerCase(name)
  <2>1. Columns[t][i] \in Text /\ LowerColumns[t][i] = LowerCase(Columns[t][i])
    BY LowerColumnsAre
  <2> QED BY <2>1, SameNameIs
<1>4. I \subseteq 1 .. Len(Columns[t]) /\ ~(0 \in 1 .. Len(Columns[t]))
  OBVIOUS
<1> HIDE DEF I
<1>5. k = 0 => I = {}
  BY <1>1, <1>2, <1>4
<1>6. k # 0 => k \in I
  BY <1>1, <1>2
<1>7. \A i, j \in 1 .. Len(Columns[t]) : LowerColumns[t][i] = LowerColumns[t][j] => i = j
  BY LowerColumnsAre
<1> QED BY <1>3, <1>4, <1>5, <1>6, <1>7

\* A line with as many values as the table has columns gives each its value.
LEMMA RowOfIs ==
  ASSUME NEW t \in Table, ~LoadFails(t), NEW line \in Text,
         Len(SplitPipeLine(line)) = Len(Columns[t])
  PROVE  /\ RowOf(t, line) \in [Range(LowerColumns[t]) -> Text]
         /\ \A k \in 1 .. Len(Columns[t]) :
               RowOf(t, line)[LowerColumns[t][k]] = SplitPipeLine(line)[k]
<1> DEFINE n == Len(Columns[t])
           columns == LowerColumns[t]
           values  == SplitPipeLine(line)
           at(c)   == CHOOSE i \in DOMAIN columns : columns[i] = c
<1>1. RowOf(t, line) = [c \in Range(columns) |-> values[at(c)]]
  BY DEF RowOf
<1>2. /\ columns \in Seq(Text) /\ Len(columns) = n /\ DOMAIN columns = 1 .. n
      /\ \A k, l \in 1 .. n : columns[k] = columns[l] => k = l
  <2>1. columns \in Seq(Text) /\ Len(columns) = n
    BY LowerColumnsAre
  <2>2. \A k, l \in 1 .. n : columns[k] = columns[l] => k = l
    BY LowerColumnsAre
  <2> HIDE DEF columns, n
  <2> QED BY <2>1, <2>2
<1>3. values \in Seq(Text) /\ Len(values) = n
  BY SplitPipeLineType
<1> HIDE DEF columns, values, n
<1>4. ASSUME NEW k \in 1 .. n PROVE columns[k] \in Range(columns) /\ at(columns[k]) = k
  BY <1>2 DEF Range
<1>5. \A c \in Range(columns) : \E k \in 1 .. n : c = columns[k]
  BY <1>2 DEF Range
<1> HIDE DEF at
<1>6. \A c \in Range(columns) : values[at(c)] \in Text
  <2>1. \A k \in 1 .. n : values[k] \in Text
    BY <1>3
  <2> QED BY <1>4, <1>5, <2>1
<1>7. \A k \in 1 .. n : RowOf(t, line)[columns[k]] = values[k]
  BY <1>1, <1>4
<1> QED BY <1>1, <1>6, <1>7 DEF columns, values, n

\* What an INSERT names, in the terms of TableLog.
LEMMA TargetIndexIs ==
  ASSUME NEW s \in StatementType, ~LoadFails(s.table),
         NEW i \in DOMAIN s.columns, NEW k \in 1 .. Len(Columns[s.table])
  PROVE  /\ Abstract!Given(s)[i] = LowerCase(s.columns[i])
         /\ TargetIndex(s, i) = k <=> LowerColumns[s.table][k] = Abstract!Given(s)[i]
         /\ TargetIndex(s, i) # 0 => TargetIndex(s, i) \in 1 .. Len(Columns[s.table])
<1>1. s.table \in Table /\ s.columns \in Seq(Text) /\ s.columns[i] \in Text
  BY DEF StatementType
<1>2. Abstract!Given(s)[i] = LowerCase(s.columns[i])
  BY DEF Abstract!Given
<1>3. TargetIndex(s, i) = FindColumnIndex(Columns[s.table], s.columns[i])
  BY DEF TargetIndex
<1> QED BY <1>1, <1>2, <1>3, FindColumnIndexIs

\* An INSERT that append_insert_row accepts is one that TableLog accepts, and
\* its line holds the row that TableLog adds.
LEMMA InsertedRow ==
  ASSUME NEW s \in Inserts
  PROVE  /\ Abstract!CanInsert(s)
         /\ RowOf(s.table, RowLine[s]) = Abstract!NewRow(s)
<1> DEFINE t == s.table
           n == Len(Columns[t])
           given == Abstract!Given(s)
           ins == DOMAIN s.columns
<1>1. /\ s \in StatementType /\ s.type = "INSERT" /\ Insertable(s)
      /\ t \in Table /\ ~LoadFails(t) /\ s.columns \in Seq(Text) /\ s.values \in Seq(Text)
      /\ Len(s.columns) = Len(s.values)
  BY ScriptsAssumption DEF Inserts, Range, StatementType, Insertable
<1>2. DOMAIN given = ins /\ ins = 1 .. Len(s.columns) /\ Len(s.columns) \in Nat
  BY <1>1 DEF Abstract!Given
<1>3. /\ DOMAIN LowerColumns[t] = 1 .. n /\ n \in Nat \ {0} /\ DOMAIN Columns[t] = 1 .. n
      /\ LowerColumns[t] # <<>>
      /\ \A k, l \in 1 .. n : LowerColumns[t][k] = LowerColumns[t][l] => k = l
  <2>1. /\ LowerColumns[t] \in Seq(Text) /\ Len(LowerColumns[t]) = n /\ n \in Nat \ {0}
        /\ Columns[t] \in Seq(Text)
    BY <1>1, LowerColumnsAre
  <2> QED BY <1>1, <2>1, LowerColumnsAre
<1>4. ASSUME NEW i \in ins, NEW k \in 1 .. n
      PROVE  TargetIndex(s, i) = k <=> LowerColumns[t][k] = given[i]
  BY <1>1, TargetIndexIs
<1>5. ASSUME NEW i \in ins
      PROVE  TargetIndex(s, i) \in 1 .. n /\ LowerColumns[t][TargetIndex(s, i)] = given[i]
  <2>1. TargetIndex(s, i) # 0
    BY <1>1 DEF Insertable
  <2>2. 1 \in 1 .. n
    BY <1>3
  <2>3. TargetIndex(s, i) \in 1 .. n
    BY <1>1, <2>1, <2>2, TargetIndexIs
  <2> QED BY <1>4, <2>3
<1>6. ASSUME NEW i \in ins, NEW j \in ins, given[i] = given[j] PROVE i = j
  <2>1. TargetIndex(s, i) = TargetIndex(s, j)
    BY <1>3, <1>5, <1>6
  <2>2. \A a \in ins : \A b \in 1 .. a - 1 : TargetIndex(s, b) # TargetIndex(s, a)
    BY <1>1 DEF Insertable
  <2>3. i \in 1 .. j - 1 \/ j \in 1 .. i - 1 \/ i = j
    BY <1>2
  <2> QED BY <2>1, <2>2, <2>3
<1> HIDE DEF given, ins, n
<1>7. Abstract!CanInsert(s)
  <2>1. IsInjective(given)
    BY <1>2, <1>6 DEF IsInjective
  <2>2. Range(given) \subseteq Range(LowerColumns[t])
    BY <1>2, <1>3, <1>5 DEF Range
  <2> QED BY <1>1, <1>3, <2>1, <2>2 
     DEF Abstract!CanInsert, Abstract!Names, Abstract!Range, Range,
         Abstract!IsInjective, IsInjective, given
<1>8. /\ RowLine[s] \in Text /\ OrderedValues(s) \in ValueLists
      /\ SplitPipeLine(RowLine[s]) = OrderedValues(s) /\ Len(OrderedValues(s)) = n
  <2>1. RowLine[s] \in Text /\ Len(SplitPipeLine(RowLine[s])) = n
    BY RowLineType DEF n
  <2>2. RowLine[s] = SerializeRow(OrderedValues(s))
    BY DEF RowLine, InsertLine
  <2>3. OrderedValues(s) \in ValueLists /\ Len(OrderedValues(s)) = n
    BY OrderedValuesType DEF n
  <2>4. SplitPipeLine(RowLine[s]) = OrderedValues(s)
    BY <2>2, <2>3, SplitSerializeRow
  <2> QED BY <2>1, <2>3, <2>4
<1>9. /\ RowOf(t, RowLine[s]) \in [Range(LowerColumns[t]) -> Text]
      /\ \A k \in 1 .. n : RowOf(t, RowLine[s])[LowerColumns[t][k]] = OrderedValues(s)[k]
  BY <1>1, <1>8, RowOfIs DEF n
<1>10. ASSUME NEW k \in 1 .. n
       PROVE  Abstract!NewRow(s)[LowerColumns[t][k]] = OrderedValues(s)[k]
  <2> DEFINE c == LowerColumns[t][k]
  <2>1. c \in Range(LowerColumns[t])
    BY <1>3 DEF Range
  <2>2. Abstract!NewRow(s)[c]
          = IF c \in Range(given)
            THEN s.values[CHOOSE i \in DOMAIN given : given[i] = c] ELSE <<>>
    BY <2>1 
      DEF Abstract!NewRow, Abstract!Names, Abstract!Range, Range, given
  <2>3. OrderedValues(s)[k]
          = IF \E i \in ins : TargetIndex(s, i) = k
            THEN s.values[CHOOSE i \in ins : TargetIndex(s, i) = k] ELSE <<>>
    BY <1>3 DEF OrderedValues, ins
  <2>4. \A i \in ins : TargetIndex(s, i) = k <=> given[i] = c
    BY <1>4
  <2>5. c \in Range(given) <=> \E i \in ins : given[i] = c
    BY <1>2 DEF Range
  <2> HIDE DEF c
  <2>6. CASE \E i \in ins : given[i] = c
    <3>1. (CHOOSE i \in ins : TargetIndex(s, i) = k) = CHOOSE i \in DOMAIN given : given[i] = c
      BY <1>2, <1>6, <2>4, <2>6
    <3> QED BY <2>2, <2>3, <2>4, <2>5, <2>6, <3>1 DEF c
  <2>7. CASE ~\E i \in ins : given[i] = c
    BY <2>2, <2>3, <2>4, <2>5, <2>7 DEF c
  <2> QED BY <2>6, <2>7
<1>11. RowOf(t, RowLine[s]) = Abstract!NewRow(s)
  <2>1. Abstract!NewRow(s) = [c \in Range(LowerColumns[t]) |-> Abstract!NewRow(s)[c]]
    BY DEF Abstract!NewRow, Abstract!Names, Abstract!Range, Range
  <2>2. \A c \in Range(LowerColumns[t]) : \E k \in 1 .. n : c = LowerColumns[t][k]
    BY <1>3 DEF Range
  <2>3. \A c \in Range(LowerColumns[t]) : RowOf(t, RowLine[s])[c] = Abstract!NewRow(s)[c]
    BY <1>9, <1>10, <2>2
  <2> QED BY <1>9, <2>1, <2>3
<1> QED BY <1>7, <1>11

\* What a SELECT that run_select_query accepts does to the values of a line is
\* what TableLog does to the row of that line.
LEMMA SelectedRow ==
  ASSUME NEW s \in StatementType, s.type = "SELECT", Selectable(s),
         NEW line \in Text, Len(SplitPipeLine(line)) = Len(Columns[s.table]),
         NEW row, row = RowOf(s.table, line)
  PROVE  /\ Abstract!CanSelect(s)
         /\ Matches(s, SplitPipeLine(line)) <=> Abstract!Kept(s, row)
         /\ Project(s, SplitPipeLine(line))
              = [i \in DOMAIN Abstract!Wanted(s) |-> row[Abstract!Wanted(s)[i]]]
         /\ Project(s, SplitPipeLine(line)) \in Seq(Text)
<1> DEFINE t == s.table
           n == Len(Columns[t])
           values == SplitPipeLine(line)
           wanted == Abstract!Wanted(s)
           indexes == SelectedIndexes(s)
<1>1. /\ t \in Table /\ ~LoadFails(t) /\ s.selectAll \in BOOLEAN /\ s.columns \in Seq(Text)
      /\ s.where.enabled \in BOOLEAN /\ s.where.column \in Text
  BY DEF StatementType, Selectable
<1>2. /\ DOMAIN LowerColumns[t] = 1 .. n /\ n \in Nat \ {0} /\ DOMAIN Columns[t] = 1 .. n
      /\ LowerColumns[t] # <<>>
  <2>1. /\ LowerColumns[t] \in Seq(Text) /\ Len(LowerColumns[t]) = n /\ n \in Nat \ {0}
        /\ Columns[t] \in Seq(Text)
    BY <1>1, LowerColumnsAre
  <2> QED BY <1>1, <2>1, LowerColumnsAre
<1>3. \A k \in 1 .. n : row[LowerColumns[t][k]] = values[k]
  BY <1>1, RowOfIs
<1>4. /\ DOMAIN wanted = DOMAIN indexes
      /\ \A i \in DOMAIN indexes : indexes[i] \in 1 .. n /\ LowerColumns[t][indexes[i]] = wanted[i]
  <2>1. CASE s.selectAll
    <3>1. wanted = LowerColumns[t] /\ indexes = [i \in 1 .. n |-> i]
      BY <1>2, <2>1 DEF Abstract!Wanted, SelectedIndexes
    <3> QED BY <1>2, <3>1
  <2>2. CASE ~s.selectAll
    <3>1. wanted = Abstract!Given(s) /\ indexes = [i \in DOMAIN s.columns |-> TargetIndex(s, i)]
      BY <2>2 DEF Abstract!Wanted, SelectedIndexes
    <3>2. DOMAIN wanted = DOMAIN s.columns /\ DOMAIN indexes = DOMAIN s.columns
      BY <3>1 DEF Abstract!Given
    <3>3. ASSUME NEW i \in DOMAIN s.columns
          PROVE  indexes[i] \in 1 .. n /\ LowerColumns[t][indexes[i]] = wanted[i]
      <4>1. indexes[i] # 0 /\ indexes[i] = TargetIndex(s, i)
        BY <3>1, <3>2 DEF Selectable
      <4>2. 1 \in 1 .. n
        BY <1>2
      <4>3. TargetIndex(s, i) \in 1 .. n
        BY <1>1, <4>1, <4>2, TargetIndexIs
      <4>4. LowerColumns[t][TargetIndex(s, i)] = Abstract!Given(s)[i]
        BY <1>1, <4>3, TargetIndexIs
      <4> QED BY <3>1, <4>1, <4>3, <4>4
    <3> QED BY <3>2, <3>3
  <2> QED BY <2>1, <2>2
<1>5. ASSUME s.where.enabled
      PROVE  /\ WhereIndex(s) \in 1 .. n
             /\ LowerColumns[t][WhereIndex(s)] = LowerCase(s.where.column)
  <2>1. WhereIndex(s) # 0 /\ WhereIndex(s) = FindColumnIndex(Columns[t], s.where.column)
    BY <1>5 DEF Selectable, WhereIndex
  <2> QED BY <1>1, <2>1, FindColumnIndexIs
<1>9. values \in Seq(Text) /\ Len(values) = n
  BY SplitPipeLineType
<1>10. \E m \in Nat : DOMAIN indexes = 1 .. m
  <2>1. indexes = IF s.selectAll THEN [i \in 1 .. n |-> i] ELSE [i \in DOMAIN s.columns |-> TargetIndex(s, i)]
    BY <1>2 DEF SelectedIndexes
  <2>2. DOMAIN indexes = IF s.selectAll THEN 1 .. n ELSE DOMAIN s.columns
    BY <2>1
  <2>3. DOMAIN s.columns = 1 .. Len(s.columns) /\ Len(s.columns) \in Nat
    BY <1>1
  <2> HIDE DEF indexes, n
  <2> QED BY <1>2, <2>2, <2>3
<1> HIDE DEF wanted, indexes, n, values
<1>6. Abstract!CanSelect(s)
  <2>1. \A i \in DOMAIN wanted : wanted[i] \in Range(LowerColumns[t])
    BY <1>2, <1>4 DEF Range
  <2>2. s.where.enabled => LowerCase(s.where.column) \in Range(LowerColumns[t])
    BY <1>2, <1>5 DEF Range
  <2> QED BY <1>2, <2>1, <2>2
      DEF Abstract!CanSelect, Abstract!Names, Abstract!Range, Range, wanted
<1>7. Matches(s, values) <=> Abstract!Kept(s, row)
  BY <1>1, <1>3, <1>5 DEF Matches, Abstract!Kept
<1>8. Project(s, values) = [i \in DOMAIN wanted |-> row[wanted[i]]]
  <2>1. Project(s, values) = [i \in DOMAIN indexes |-> values[indexes[i]]]
    BY DEF Project, indexes
  <2>2. \A i \in DOMAIN indexes : values[indexes[i]] = row[wanted[i]]
    BY <1>3, <1>4
  <2> QED BY <1>4, <2>1, <2>2
<1>11. Project(s, values) \in Seq(Text)
  <2>1. Project(s, values) = [i \in DOMAIN indexes |-> values[indexes[i]]]
    BY DEF Project, indexes
  <2>2. \A i \in DOMAIN indexes : values[indexes[i]] \in Text
    BY <1>4, <1>9
  <2> QED BY <1>10, <2>1, <2>2
<1> QED BY <1>6, <1>7, <1>8, <1>11 DEF wanted, values

\* TableLog's answer from a table that is one row longer.
LEMMA AnswerSnoc ==
  ASSUME NEW V, NEW table \in Seq(V), NEW row \in V, NEW s
  PROVE  /\ Abstract!Answer(s, <<>>) = <<>>
         /\ Abstract!Answer(s, Append(table, row))
              = IF Abstract!Kept(s, row)
                THEN Append(Abstract!Answer(s, table),
                            [i \in DOMAIN Abstract!Wanted(s) |-> row[Abstract!Wanted(s)[i]]])
                ELSE Abstract!Answer(s, table)
<1> DEFINE wanted(r) == [i \in DOMAIN Abstract!Wanted(s) |-> r[Abstract!Wanted(s)[i]]]
           K(x) == {n \in 1 .. Len(x) : Abstract!Kept(s, x[n])}
           v(x) == [n \in 1 .. Len(x) |-> wanted(x[n])]
           scan(x) == CHOOSE f : f = [n \in 0 .. Len(x) |->
                         IF n = 0 THEN <<>>
                         ELSE IF Abstract!Kept(s, x[n]) THEN Append(f[n - 1], wanted(x[n]))
                                                        ELSE f[n - 1]]
<1>1. ASSUME NEW x \in Seq(V)
      PROVE  IsScan(Len(x), K(x), v(x), scan(x)) /\ Abstract!Answer(s, x) = scan(x)[Len(x)]
  <2>0. Len(x) \in Nat
    OBVIOUS
  <2>1. ASSUME NEW f
        PROVE  [n \in 0 .. Len(x) |-> ScanBody(K(x), v(x), f, n)]
                 = [n \in 0 .. Len(x) |->
                         IF n = 0 THEN <<>>
                         ELSE IF Abstract!Kept(s, x[n]) THEN Append(f[n - 1], wanted(x[n]))
                                                        ELSE f[n - 1]]
    <3>1. ASSUME NEW n \in 0 .. Len(x)
          PROVE  ScanBody(K(x), v(x), f, n)
                   = IF n = 0 THEN <<>>
                     ELSE IF Abstract!Kept(s, x[n]) THEN Append(f[n - 1], wanted(x[n]))
                                                    ELSE f[n - 1]
      <4>1. n # 0 => (n \in K(x) <=> Abstract!Kept(s, x[n])) /\ v(x)[n] = wanted(x[n])
        <5> HIDE DEF wanted
        <5> QED BY <2>0
      <4> HIDE DEF K, v, wanted
      <4> QED BY <4>1 DEF ScanBody
    <3> HIDE DEF K, v, wanted
    <3> QED BY <3>1
  <2>2. \E f : IsScan(Len(x), K(x), v(x), f)
    <3> HIDE DEF K, v
    <3> QED BY <2>0, ScanExists
  <2>4. Abstract!Answer(s, x) = scan(x)[Len(x)]
    BY DEF Abstract!Answer
  <2> HIDE DEF K, v, wanted
  <2>5. \E f : f = [n \in 0 .. Len(x) |->
                         IF n = 0 THEN <<>>
                         ELSE IF Abstract!Kept(s, x[n]) THEN Append(f[n - 1], wanted(x[n]))
                                                        ELSE f[n - 1]]
    <3>1. PICK f : IsScan(Len(x), K(x), v(x), f)
      BY <2>2, Zenon
    <3>2. f = [n \in 0 .. Len(x) |-> ScanBody(K(x), v(x), f, n)]
      BY <3>1, Zenon DEF IsScan
    <3>3. f = [n \in 0 .. Len(x) |->
                         IF n = 0 THEN <<>>
                         ELSE IF Abstract!Kept(s, x[n]) THEN Append(f[n - 1], wanted(x[n]))
                                                        ELSE f[n - 1]]
      BY <2>1, <3>2, ZenonT(40)
    <3> QED BY <3>3, ZenonT(40)
  <2>3. scan(x) = [n \in 0 .. Len(x) |->
                         IF n = 0 THEN <<>>
                         ELSE IF Abstract!Kept(s, x[n]) THEN Append(scan(x)[n - 1], wanted(x[n]))
                                                        ELSE scan(x)[n - 1]]
    BY <2>5
  <2> HIDE DEF scan
  <2> QED BY <2>1, <2>3, <2>4 DEF IsScan
<1> DEFINE longer == Append(table, row)
<1>2. /\ table \in Seq(V) /\ <<>> \in Seq(V) /\ longer \in Seq(V) /\ Len(table) \in Nat
      /\ Len(longer) = Len(table) + 1 /\ longer[Len(table) + 1] = row
      /\ \A n \in 1 .. Len(table) : longer[n] = table[n]
  OBVIOUS
<1> HIDE DEF longer, scan
<1>3. \A n \in 1 .. Len(table) : (n \in K(table) <=> n \in K(longer)) /\ v(table)[n] = v(longer)[n]
  <2> HIDE DEF wanted
  <2> QED BY <1>2
<1>4. /\ Len(table) + 1 \in K(longer) <=> Abstract!Kept(s, row)
      /\ v(longer)[Len(table) + 1] = wanted(row)
  <2> HIDE DEF wanted
  <2> QED BY <1>2
<1> HIDE DEF K, v, wanted
<1>5. Abstract!Answer(s, <<>>) = <<>>
  <2>1. Len(<<>>) = 0 /\ 0 \in 0 .. 0
    OBVIOUS
  <2>2. scan(<<>>)[0] = ScanBody(K(<<>>), v(<<>>), scan(<<>>), 0)
    BY <1>1, <1>2, <2>1 DEF IsScan
  <2> QED BY <1>1, <1>2, <2>1, <2>2 DEF ScanBody
<1>6. PICK N \in Nat : N = Len(table)
  BY <1>2
<1>7. PICK A, B, vA, vB, f, g :
        A = K(table) /\ B = K(longer) /\ vA = v(table) /\ vB = v(longer)
        /\ f = scan(table) /\ g = scan(longer)
  OBVIOUS
<1>8. IsScan(N, A, vA, f) /\ IsScan(N + 1, B, vB, g)
  BY <1>1, <1>2, <1>6, <1>7
<1>9. \A n \in 1 .. N : (n \in A <=> n \in B) /\ vA[n] = vB[n]
  BY <1>3, <1>6, <1>7
<1>10. g[N + 1] = IF N + 1 \in B THEN Append(f[N], vB[N + 1]) ELSE f[N]
  BY <1>8, <1>9, ScanOneMore
<1>11. Abstract!Answer(s, longer)
         = IF Abstract!Kept(s, row) THEN Append(Abstract!Answer(s, table), wanted(row))
                                    ELSE Abstract!Answer(s, table)
  BY <1>1, <1>2, <1>4, <1>6, <1>7, <1>10
<1> QED BY <1>5, <1>11 DEF longer, wanted

-----------------------------------------------------------------------------
(* The invariant.                                                          *)

\* A SELECT at work is one that run_select_query has checked.
Checked ==
  \A p \in Proc : pc[p] \in Selecting => /\ Statement(p).type = "SELECT"
                                         /\ Selectable(Statement(p))

\* A process has printed the result of every statement before its current one.
Printed ==
  /\ rows \in [Proc -> Seq(Seq(Text))]
  /\ stdout \in [Proc -> Seq(Result)]
  /\ \A p \in Proc : Len(stdout[p]) = next[p] - 1

\* The rows are TableLog's answer from the lines that fgets has returned so far,
\* and nothing is left when it has met the end of the file.
Answering ==
  \A p \in Proc :
    pc[p] = "fgets" => /\ rows[p] = Abstract!Answer(Statement(p), Decoded(File(p), Returned(p)))
                       /\ eof[p] => buffer[p] = <<>>

LogInv == /\ DurableInv /\ AllRows /\ AllShort /\ Readers
          /\ Checked /\ Printed /\ Answering

\* No step of one process touches what belongs to another.
Untouched(q) ==
  /\ pc'[q] = pc[q] /\ next'[q] = next[q] /\ pending'[q] = pending[q]
  /\ offset'[q] = offset[q] /\ buffer'[q] = buffer[q] /\ eof'[q] = eof[q]
  /\ rows'[q] = rows[q] /\ stdout'[q] = stdout[q]

LEMMA OthersUntouched ==
  ASSUME TypeInv, Printed, NEW p \in Proc, Step(p) \/ Kill(p), NEW q \in Proc, q # p
  PROVE  Untouched(q) /\ script' = script
<1>0. /\ pc \in [Proc -> {pc[r] : r \in Proc}] /\ next \in [Proc -> Nat \ {0}]
      /\ pending \in [Proc -> Text] /\ offset \in [Proc -> Nat]
      /\ buffer \in [Proc -> Text] /\ eof \in [Proc -> BOOLEAN]
      /\ rows \in [Proc -> Seq(Seq(Text))] /\ stdout \in [Proc -> Seq(Result)]
  BY DEF TypeInv, Shapes, Printed
<1> HIDE DEF Result
<1> USE DEF Untouched, reader
<1>1. CASE Parse(p)
  BY <1>0, <1>1 DEF Parse, Goto
<1>2. CASE Finish(p)
  BY <1>0, <1>2 DEF Finish, Goto
<1>3. CASE BeginInsert(p)
  BY <1>0, <1>3 DEF BeginInsert, Goto
<1>4. CASE RejectInsert(p)
  BY <1>0, <1>4 DEF RejectInsert, Fail, Goto
<1>5. CASE OpenAppend(p)
  BY <1>0, <1>5 DEF OpenAppend, Goto
<1>6. CASE Fputs(p)
  BY <1>0, <1>6 DEF Fputs, Goto
<1>7. CASE FputsFails(p)
  BY <1>0, <1>7 DEF FputsFails, Goto
<1>8. CASE Fclose(p)
  BY <1>0, <1>8 DEF Fclose, Goto
<1>9. CASE ReportInsert(p)
  BY <1>0, <1>9 DEF ReportInsert, Report, Goto
<1>10. CASE BeginSelect(p)
  BY <1>0, <1>10 DEF BeginSelect, Goto
<1>11. CASE RejectSelect(p)
  BY <1>0, <1>11 DEF RejectSelect, Fail, Goto
<1>12. CASE OpenRead(p)
  BY <1>0, <1>12 DEF OpenRead, Goto
<1>13. CASE MissingData(p)
  BY <1>0, <1>13 DEF MissingData, Goto
<1>14. CASE CreateEmpty(p)
  BY <1>0, <1>14 DEF CreateEmpty, Goto
<1>15. CASE Refill(p)
  BY <1>0, <1>15 DEF Refill
<1>16. CASE NextLine(p)
  BY <1>0, <1>16 DEF NextLine
<1>17. CASE BadLine(p)
  BY <1>0, <1>17 DEF BadLine, Fail, Goto
<1>18. CASE EndSelect(p)
  BY <1>0, <1>18 DEF EndSelect, Report, Goto
<1>19. CASE ReadFails(p)
  BY <1>0, <1>19 DEF ReadFails, Report, Goto
<1>20. CASE OpenFails(p)
  BY <1>0, <1>20 DEF OpenFails, Fail, Goto
<1>21. CASE Kill(p)
  BY <1>0, <1>21 DEF Kill, Goto
<1> QED
  BY <1>1, <1>2, <1>3, <1>4, <1>5, <1>6, <1>7, <1>8, <1>9, <1>10, <1>11, <1>12, <1>13, <1>14,
     <1>15, <1>16, <1>17, <1>18, <1>19, <1>20, <1>21
  DEF Step, Insert, Select

\* A process goes on reading only by opening the file, by reading and by
\* returning a line.
LEMMA OwnStep ==
  ASSUME TypeInv, NEW p \in Proc, Step(p) \/ Kill(p), ~OpenRead(p), ~Refill(p), ~NextLine(p)
  PROVE  pc'[p] # "fgets"
<1>0. pc \in [Proc -> {pc[r] : r \in Proc}]
  BY DEF TypeInv, Shapes
<1>1. CASE Parse(p)
  BY <1>0, <1>1 DEF Parse, Goto
<1>2. CASE Finish(p)
  BY <1>0, <1>2 DEF Finish, Goto
<1>3. CASE BeginInsert(p)
  BY <1>0, <1>3 DEF BeginInsert, Goto
<1>4. CASE RejectInsert(p)
  BY <1>0, <1>4 DEF RejectInsert, Fail, Goto
<1>5. CASE OpenAppend(p)
  BY <1>0, <1>5 DEF OpenAppend, Goto
<1>6. CASE Fputs(p)
  BY <1>0, <1>6 DEF Fputs, Goto
<1>7. CASE FputsFails(p)
  BY <1>0, <1>7 DEF FputsFails, Goto
<1>8. CASE Fclose(p)
  BY <1>0, <1>8 DEF Fclose, Goto
<1>9. CASE ReportInsert(p)
  BY <1>0, <1>9 DEF ReportInsert, Report, Goto
<1>10. CASE BeginSelect(p)
  BY <1>0, <1>10 DEF BeginSelect, Goto
<1>11. CASE RejectSelect(p)
  BY <1>0, <1>11 DEF RejectSelect, Fail, Goto
<1>12. CASE MissingData(p)
  BY <1>0, <1>12 DEF MissingData, Goto
<1>13. CASE CreateEmpty(p)
  BY <1>0, <1>13 DEF CreateEmpty, Goto
<1>14. CASE BadLine(p)
  BY <1>0, <1>14 DEF BadLine, Fail, Goto
<1>15. CASE EndSelect(p)
  BY <1>0, <1>15 DEF EndSelect, Report, Goto
<1>16. CASE ReadFails(p)
  BY <1>0, <1>16 DEF ReadFails, Report, Goto
<1>17. CASE OpenFails(p)
  BY <1>0, <1>17 DEF OpenFails, Fail, Goto
<1>18. CASE Kill(p)
  BY <1>0, <1>18 DEF Kill, Goto
<1> QED
  BY <1>1, <1>2, <1>3, <1>4, <1>5, <1>6, <1>7, <1>8, <1>9, <1>10, <1>11, <1>12,
     <1>13, <1>14, <1>15, <1>16, <1>17, <1>18 DEF Step, Insert, Select

\* Every step keeps the statements of the SELECTs at work checked.
LEMMA CheckedNext ==
  ASSUME TypeInv, Checked, [Next]_vars
  PROVE  Checked'
<1>0. pc \in [Proc -> {pc[r] : r \in Proc}] /\ next \in [Proc -> Nat \ {0}]
  BY DEF TypeInv, Shapes
<1> USE DEF Checked, Selecting, Statement
<1>1. ASSUME NEW p \in Proc, Parse(p) PROVE Checked'
  BY <1>0, <1>1 DEF Parse, Goto
<1>2. ASSUME NEW p \in Proc, Finish(p) PROVE Checked'
  BY <1>0, <1>2 DEF Finish, Goto
<1>3. ASSUME NEW p \in Proc, BeginInsert(p) PROVE Checked'
  BY <1>0, <1>3 DEF BeginInsert, Goto
<1>4. ASSUME NEW p \in Proc, RejectInsert(p) PROVE Checked'
  BY <1>0, <1>4 DEF RejectInsert, Fail, Goto
<1>5. ASSUME NEW p \in Proc, OpenAppend(p) PROVE Checked'
  BY <1>0, <1>5 DEF OpenAppend, Goto
<1>6. ASSUME NEW p \in Proc, Fputs(p) PROVE Checked'
  BY <1>0, <1>6 DEF Fputs, Goto
<1>7. ASSUME NEW p \in Proc, FputsFails(p) PROVE Checked'
  BY <1>0, <1>7 DEF FputsFails, Goto
<1>8. ASSUME NEW p \in Proc, Fclose(p) PROVE Checked'
  BY <1>0, <1>8 DEF Fclose, Goto
<1>9. ASSUME NEW p \in Proc, ReportInsert(p) PROVE Checked'
  BY <1>0, <1>9 DEF ReportInsert, Report, Goto
<1>10. ASSUME NEW p \in Proc, BeginSelect(p) PROVE Checked'
  BY <1>0, <1>10 DEF BeginSelect, Goto, AtStatement
<1>11. ASSUME NEW p \in Proc, RejectSelect(p) PROVE Checked'
  BY <1>0, <1>11 DEF RejectSelect, Fail, Goto
<1>12. ASSUME NEW p \in Proc, OpenRead(p) PROVE Checked'
  BY <1>0, <1>12 DEF OpenRead, Goto
<1>13. ASSUME NEW p \in Proc, MissingData(p) PROVE Checked'
  BY <1>0, <1>13 DEF MissingData, Goto
<1>14. ASSUME NEW p \in Proc, CreateEmpty(p) PROVE Checked'
  BY <1>0, <1>14 DEF CreateEmpty, Goto
<1>15. ASSUME NEW p \in Proc, Refill(p) PROVE Checked'
  BY <1>0, <1>15 DEF Refill
<1>16. ASSUME NEW p \in Proc, NextLine(p) PROVE Checked'
  BY <1>0, <1>16 DEF NextLine
<1>17. ASSUME NEW p \in Proc, BadLine(p) PROVE Checked'
  BY <1>0, <1>17 DEF BadLine, Fail, Goto
<1>18. ASSUME NEW p \in Proc, EndSelect(p) PROVE Checked'
  BY <1>0, <1>18 DEF EndSelect, Report, Goto
<1>19. ASSUME NEW p \in Proc, ReadFails(p) PROVE Checked'
  BY <1>0, <1>19 DEF ReadFails, Report, Goto
<1>20. ASSUME NEW p \in Proc, OpenFails(p) PROVE Checked'
  BY <1>0, <1>20 DEF OpenFails, Fail, Goto
<1>21. ASSUME NEW p \in Proc, Kill(p) PROVE Checked'
  BY <1>0, <1>21 DEF Kill, Goto
<1>22. CASE UNCHANGED vars
  BY <1>22 DEF vars
<1> QED
  BY <1>1, <1>2, <1>3, <1>4, <1>5, <1>6, <1>7, <1>8, <1>9, <1>10, <1>11, <1>12, <1>13, <1>14,
     <1>15, <1>16, <1>17, <1>18, <1>19, <1>20, <1>21, <1>22
  DEF Next, Step, Insert, Select, Done

\* Every step keeps count of the results.
LEMMA PrintedNext ==
  ASSUME TypeInv, Checked, Printed, [Next]_vars
  PROVE  Printed'
<1>0. /\ rows \in [Proc -> Seq(Seq(Text))] /\ stdout \in [Proc -> Seq(Result)]
      /\ next \in [Proc -> Nat \ {0}] /\ \A q \in Proc : Len(stdout[q]) = next[q] - 1
  BY DEF TypeInv, Shapes, Printed
<1>1. ASSUME NEW p \in Proc, NEW r \in Result, Report(p, r), rows' = rows PROVE Printed'
  <2>1. stdout' = [stdout EXCEPT ![p] = Append(@, r)] /\ next' = [next EXCEPT ![p] = @ + 1]
    BY <1>1 DEF Report
  <2> HIDE DEF Result
  <2>2. Append(stdout[p], r) \in Seq(Result) /\ Len(Append(stdout[p], r)) = Len(stdout[p]) + 1
    BY <1>0
  <2>3. stdout' \in [Proc -> Seq(Result)]
    BY <1>0, <2>1, <2>2
  <2>4. \A q \in Proc : Len(stdout'[q]) = next'[q] - 1
    BY <1>0, <2>1, <2>2
  <2> QED BY <1>0, <1>1, <2>3, <2>4 DEF Printed
<1>2. ASSUME NEW p \in Proc, EndSelect(p) \/ ReadFails(p) PROVE Printed'
  <2>1. [kind |-> "SELECT", rows |-> rows[p]] \in Result
    BY <1>0 DEF Result
  <2> HIDE DEF Result
  <2> QED BY <1>1, <1>2, <2>1 DEF EndSelect, ReadFails, reader
<1>3. ASSUME NEW p \in Proc, ReportInsert(p) PROVE Printed'
  <2>1. [kind |-> "INSERT", affected |-> 1] \in Result
    BY DEF Result
  <2> HIDE DEF Result
  <2> QED BY <1>1, <1>3, <2>1 DEF ReportInsert, reader
<1>4. ASSUME NEW p \in Proc, NEW r \in Seq(Seq(Text)), rows' = [rows EXCEPT ![p] = r],
             UNCHANGED <<stdout, next>>
      PROVE  Printed'
  BY <1>0, <1>4 DEF Printed
<1>5. ASSUME NEW p \in Proc, OpenRead(p) PROVE Printed'
  <2>1. <<>> \in Seq(Seq(Text))
    OBVIOUS
  <2> QED BY <1>4, <1>5, <2>1 DEF OpenRead
<1>6. ASSUME NEW p \in Proc, NextLine(p) PROVE Printed'
  <2> DEFINE s == Statement(p)
             line == SubSeq(buffer[p], 1, LineLength(p))
  <2>1. pc[p] = "fgets" /\ Len(SplitPipeLine(line)) = Len(Columns[s.table])
    BY <1>6 DEF NextLine, WellFormed, LineValues, File
  <2>2. s \in StatementType /\ s.type = "SELECT" /\ Selectable(s)
    BY <2>1, CurrentStatement DEF Checked, Selecting
  <2>3. line \in Text
    <3>1. buffer[p] \in Seq(Char) /\ Len(buffer[p]) \in Nat
      <4>1. buffer[p] \in Text
        BY DEF TypeInv, Shapes
      <4> QED BY <4>1 DEF Text
    <3>2. Len(Window(p)) \in Nat /\ Len(Window(p)) <= Len(buffer[p])
      BY WindowType DEF Text
    <3>3. LineLength(p) \in Nat /\ LineLength(p) <= Len(Window(p))
      BY <3>2, LineEndIs DEF LineLength
    <3>4. PICK e \in Nat : e = LineLength(p) /\ e <= Len(buffer[p])
      BY <3>1, <3>2, <3>3
    <3>5. SubSeq(buffer[p], 1, e) \in Seq(Char)
      BY <3>1, <3>4
    <3> QED BY <3>4, <3>5 DEF Text
  <2> HIDE DEF s, line
  <2>4. Project(s, SplitPipeLine(line)) \in Seq(Text)
    BY <2>1, <2>2, <2>3, SelectedRow
  <2>5. rows[p] \in Seq(Seq(Text)) /\ Append(rows[p], Project(s, SplitPipeLine(line))) \in Seq(Seq(Text))
    BY <1>0, <2>4
  <2>6. rows' = [rows EXCEPT ![p] = IF Matches(s, SplitPipeLine(line))
                                    THEN Append(@, Project(s, SplitPipeLine(line))) ELSE @]
    BY <1>6 DEF NextLine, LineValues, s, line
  <2> QED BY <1>4, <1>6, <2>5, <2>6 DEF NextLine
<1>7. ASSUME NEW p \in Proc, Step(p) \/ Kill(p), ~EndSelect(p), ~ReadFails(p),
             ~ReportInsert(p), ~OpenRead(p), ~NextLine(p)
      PROVE  rows' = rows /\ stdout' = stdout /\ next' = next
  BY <1>7 DEF Step, Insert, Select, Kill, reader, Parse, Finish, BeginInsert, RejectInsert,
         OpenAppend, Fputs, FputsFails, Fclose, OpenFails, BeginSelect, RejectSelect,
         MissingData, CreateEmpty, Refill, BadLine, Fail
<1>8. CASE UNCHANGED vars
  BY <1>8 DEF vars, reader, Printed
<1> QED BY <1>2, <1>3, <1>5, <1>6, <1>7, <1>8 DEF Next, Done, Printed

\* At first nothing has been printed.
LEMMA PrintedInit ==
  ASSUME Init
  PROVE  Printed
<1>1. rows = [p \in Proc |-> <<>>] /\ stdout = [p \in Proc |-> <<>>] /\ next = [p \in Proc |-> 1]
  BY DEF Init
<1>2. <<>> \in Seq(Seq(Text)) /\ <<>> \in Seq(Result) /\ Len(<<>>) = 1 - 1
  OBVIOUS
<1> HIDE DEF Result
<1> QED BY <1>1, <1>2 DEF Printed

\* The acknowledged rows keep their shape.
AckedType ==
  acked \subseteq [proc : Proc, statement : Nat \ {0}, table : Table, line : Text, at : Nat]

\* Type correctness of the model of the program, whatever the tables, scripts,
\* processes, buffer sizes and faults.  That the rows and the results are what
\* they should be needs the shapes of the other variables, the checks that
\* run_select_query has made (Checked) and the count of the results (Printed).
THEOREM TypeCorrect == Spec => []TypeOK
<1> DEFINE Inv == TypeInv /\ Checked /\ Printed /\ AckedType
<1>1. Init => Inv
  <2>1. Init => Checked /\ AckedType
    BY DEF Init, Checked, Selecting, AckedType
  <2> QED BY <2>1, TypeInit, PrintedInit
<1>2. Inv /\ [Next]_vars => Inv'
  <2> SUFFICES ASSUME Inv, [Next]_vars PROVE AckedType'
    BY TypeNext, CheckedNext, PrintedNext
  <2>1. ASSUME NEW p \in Proc, ReportInsert(p) PROVE AckedType'
    <3>1. /\ File(p) \in Table /\ RowLine[Statement(p)] \in Text
          /\ next[p] \in Nat \ {0} /\ began[p] \in Nat
      <4>1. File(p) \in Table /\ Statement(p) \in Inserts
        BY <2>1, CurrentStatement DEF ReportInsert, Inserting
      <4> QED BY <4>1, RowLineType DEF TypeInv, Shapes
    <3>2. PICK row : row = [proc |-> p, statement |-> next[p], table |-> File(p),
                            line |-> RowLine[Statement(p)], at |-> began[p]]
      OBVIOUS
    <3>3. row \in [proc : Proc, statement : Nat \ {0}, table : Table, line : Text, at : Nat]
      BY <3>1, <3>2
    <3>4. acked' = acked \cup {row}
      BY <2>1, <3>2 DEF ReportInsert
    <3> QED BY <3>3, <3>4 DEF AckedType
  <2>2. ASSUME NEW p \in Proc, Step(p) \/ Kill(p), ~ReportInsert(p) PROVE acked' = acked
    BY <2>2 DEF Step, Insert, Select, Kill, history, Parse, Finish, BeginInsert, RejectInsert,
           OpenAppend, Fputs, FputsFails, Fclose, OpenFails, BeginSelect, RejectSelect, OpenRead,
           MissingData, CreateEmpty, Refill, NextLine, BadLine, EndSelect, ReadFails, Fail
  <2>3. CASE UNCHANGED vars
    BY <2>3 DEF vars, history, AckedType
  <2> QED BY <2>1, <2>2, <2>3 DEF Next, Done, AckedType
<1>3. Inv => TypeOK
  BY DEF TypeInv, Shapes, Printed, AckedType, TypeOK
<1> HIDE DEF Inv
<1> QED BY <1>1, <1>2, <1>3, PTL DEF Spec

\* The rows of a text.
LEMMA DecodedIs ==
  ASSUME NEW t, NEW text \in Text
  PROVE  /\ Decoded(t, text) \in Seq({RowOf(t, line) : line \in Text})
         /\ Len(Decoded(t, text)) = Len(Lines(text))
         /\ \A k \in 1 .. Len(Lines(text)) : Decoded(t, text)[k] = RowOf(t, Lines(text)[k])
<1>1. PICK lines : lines = Lines(text)
  OBVIOUS
<1>2. lines \in Seq(Text)
  BY <1>1, LinesAre
<1>3. Decoded(t, text) = [k \in 1 .. Len(lines) |-> RowOf(t, lines[k])]
  BY <1>1, <1>2 DEF Decoded
<1>4. \A k \in 1 .. Len(lines) : RowOf(t, lines[k]) \in {RowOf(t, line) : line \in Text}
  BY <1>2
<1> QED BY <1>1, <1>2, <1>3, <1>4

\* A line at the end of a text of whole lines is one row more.
LEMMA DecodedAppend ==
  ASSUME NEW t, NEW text \in Text, text = <<>> \/ Last(text) = LF,
         NEW line \in Text, {k \in DOMAIN line : line[k] = LF} = {Len(line)}
  PROVE  Decoded(t, text \o line) = Append(Decoded(t, text), RowOf(t, line))
<1> DEFINE both == text \o line
           R    == {RowOf(t, x) : x \in Text}
<1>1. both \in Text
  BY DEF Text
<1>2. Lines(both) = Append(Lines(text), line)
  BY LinesAppend
<1>3. PICK old, new : old = Lines(text) /\ new = Lines(both)
  OBVIOUS
<1>4. /\ old \in Seq(Text) /\ new = Append(old, line)
      /\ Len(new) = Len(old) + 1 /\ new[Len(old) + 1] = line /\ Len(old) \in Nat
      /\ \A k \in 1 .. Len(old) : new[k] = old[k] /\ k \in 1 .. Len(new)
  BY <1>2, <1>3, LinesAre
<1> HIDE DEF both, R
<1>5. /\ Decoded(t, text) \in Seq(R) /\ Len(Decoded(t, text)) = Len(old)
      /\ \A k \in 1 .. Len(old) : Decoded(t, text)[k] = RowOf(t, old[k])
  BY <1>3, DecodedIs DEF R
<1>6. /\ Decoded(t, both) \in Seq(R) /\ Len(Decoded(t, both)) = Len(old) + 1
      /\ \A k \in 1 .. Len(old) + 1 : Decoded(t, both)[k] = RowOf(t, new[k])
  <2>1. /\ Decoded(t, both) \in Seq(R) /\ Len(Decoded(t, both)) = Len(new)
        /\ \A k \in 1 .. Len(new) : Decoded(t, both)[k] = RowOf(t, new[k])
    BY <1>1, <1>3, DecodedIs DEF R
  <2>2. Len(new) = Len(old) + 1
    BY <1>4
  <2> QED BY <2>1, <2>2
<1>7. RowOf(t, line) \in R
  BY DEF R
<1>8. /\ \A k \in 1 .. Len(old) : Decoded(t, both)[k] = Decoded(t, text)[k]
      /\ Decoded(t, both)[Len(old) + 1] = RowOf(t, line)
  BY <1>4, <1>5, <1>6
<1>9. Decoded(t, both) = Append(Decoded(t, text), RowOf(t, line))
  BY <1>5, <1>6, <1>7, <1>8, IsAppend
<1> QED BY <1>9 DEF both

\* A text up to some place, and the part that comes next.
NextPart(text, start, e, line) ==
  /\ line \in Text /\ Len(line) = e /\ \A i \in 1 .. e : line[i] = text[start + i]
  /\ SubSeq(text, 1, start) \in Text /\ Len(SubSeq(text, 1, start)) = start
  /\ \A i \in 1 .. start : SubSeq(text, 1, start)[i] = text[i]
  /\ SubSeq(text, 1, start + e) = SubSeq(text, 1, start) \o line

LEMMA PrefixGrows ==
  ASSUME NEW text \in Text, NEW start \in Nat, NEW e \in Nat \ {0}, start + e <= Len(text),
         NEW line, line = SubSeq(text, start + 1, start + e)
  PROVE  NextPart(text, start, e, line)
<1> DEFINE m == Len(text)
           prefix == SubSeq(text, 1, start)
           more   == SubSeq(text, 1, start + e)
<1>1. text \in Seq(Char) /\ m \in Nat /\ \A i \in 1 .. m : text[i] \in Char
  BY DEF Text
<1>2. /\ line \in Seq(Char) /\ Len(line) = e /\ \A i \in 1 .. e : line[i] = text[start + i]
  <2>1. PICK a \in Nat, b \in Nat : a = start + 1 /\ b = start + e
    OBVIOUS
  <2>2. \A i \in a .. b : text[i] \in Char
    BY <1>1, <2>1
  <2>3. /\ SubSeq(text, a, b) \in Seq(Char)
        /\ Len(SubSeq(text, a, b)) = IF a <= b THEN b - a + 1 ELSE 0
        /\ \A i \in 1 .. b - a + 1 : SubSeq(text, a, b)[i] = text[a + i - 1]
    BY <2>1, <2>2, SubSeqProperties
  <2>4. a <= b /\ b - a + 1 = e /\ \A i \in 1 .. e : a + i - 1 = start + i
    BY <2>1
  <2> QED BY <2>1, <2>3, <2>4
<1>3. prefix \in Seq(Char) /\ Len(prefix) = start /\ \A i \in 1 .. start : prefix[i] = text[i]
  BY <1>1
<1>4. more \in Seq(Char) /\ Len(more) = start + e /\ \A i \in 1 .. start + e : more[i] = text[i]
  <2>1. PICK b \in Nat : b = start + e
    OBVIOUS
  <2>2. b <= m
    BY <2>1
  <2>3. /\ SubSeq(text, 1, b) \in Seq(Char) /\ Len(SubSeq(text, 1, b)) = b
        /\ \A i \in 1 .. b : SubSeq(text, 1, b)[i] = text[i]
    BY <1>1, <2>2
  <2> QED BY <2>1, <2>3
<1> HIDE DEF prefix, more, m
<1>5. more = prefix \o line
  <2>1. /\ prefix \o line \in Seq(Char) /\ Len(prefix \o line) = start + e
        /\ \A i \in 1 .. start : (prefix \o line)[i] = prefix[i]
        /\ \A i \in 1 .. e : (prefix \o line)[start + i] = line[i]
    <3>1. PICK u \in Seq(Char), v \in Seq(Char) : u = prefix /\ v = line
      BY <1>2, <1>3
    <3>2. PICK both : both = u \o v
      OBVIOUS
    <3>3. /\ both \in Seq(Char) /\ Len(both) = Len(u) + Len(v)
          /\ \A i \in 1 .. Len(u) : both[i] = u[i]
          /\ \A i \in 1 .. Len(v) : both[Len(u) + i] = v[i]
      BY <3>2, ConcatIs
    <3>4. Len(u) = start /\ Len(v) = e
      BY <1>2, <1>3, <3>1
    <3>5. /\ both \in Seq(Char) /\ Len(both) = start + e
          /\ \A i \in 1 .. start : both[i] = u[i]
          /\ \A i \in 1 .. e : both[start + i] = v[i]
      BY <3>3, <3>4
    <3> QED BY <3>1, <3>2, <3>5
  <2>2. ASSUME NEW i \in 1 .. start + e PROVE more[i] = (prefix \o line)[i]
    <3>1. i \in 1 .. start \/ (i - start \in 1 .. e /\ i = start + (i - start))
      OBVIOUS
    <3>2. CASE i \in 1 .. start
      BY <1>3, <1>4, <2>1, <3>2
    <3>3. CASE i - start \in 1 .. e /\ i = start + (i - start)
      <4>1. PICK j \in 1 .. e : j = i - start /\ i = start + j
        BY <3>3
      <4> QED BY <1>2, <1>4, <2>1, <4>1, ZenonT(30)
    <3> QED BY <3>1, <3>2, <3>3
  <2> QED BY <1>4, <2>1, <2>2, SeqEqual
<1> QED BY <1>2, <1>3, <1>5 DEF prefix, more, Text, NextPart

\* What has been read grows by a line.
GrowsBy(text, start, e, line) ==
  /\ line \in Text /\ {k \in DOMAIN line : line[k] = LF} = {Len(line)}
  /\ SubSeq(text, 1, start) \in Text
  /\ SubSeq(text, 1, start) = <<>> \/ Last(SubSeq(text, 1, start)) = LF
  /\ SubSeq(text, 1, start + e) = SubSeq(text, 1, start) \o line

LEMMA NextReturned ==
  ASSUME NEW text \in Text, NEW start \in Nat, NEW e \in Nat \ {0}, start + e <= Len(text),
         IsLine(text, start + 1, start + e), NEW line, line = SubSeq(text, start + 1, start + e)
  PROVE  GrowsBy(text, start, e, line)
<1> DEFINE prefix == SubSeq(text, 1, start)
<1>1. /\ line \in Text /\ Len(line) = e /\ \A i \in 1 .. e : line[i] = text[start + i]
      /\ prefix \in Text /\ Len(prefix) = start /\ \A i \in 1 .. start : prefix[i] = text[i]
      /\ SubSeq(text, 1, start + e) = prefix \o line
  <2>1. NextPart(text, start, e, line)
    BY PrefixGrows
  <2> QED BY <2>1 DEF NextPart
<1>2. line \in Seq(Char) /\ Len(line) = e /\ \A i \in 1 .. e : line[i] = text[start + i]
  BY <1>1 DEF Text
<1>3. prefix \in Seq(Char) /\ Len(prefix) = start /\ \A i \in 1 .. start : prefix[i] = text[i]
  <2> HIDE DEF prefix
  <2> QED BY <1>1 DEF Text
<1>4. SubSeq(text, 1, start + e) = prefix \o line
  BY <1>1
<1> HIDE DEF prefix
<1>5. /\ (start + 1 = 1 \/ text[(start + 1) - 1] = LF) /\ text[start + e] = LF
      /\ \A k \in start + 1 .. (start + e) - 1 : text[k] # LF
  BY DEF IsLine
<1>6. ASSUME NEW k \in 1 .. e PROVE line[k] = LF <=> k = e
  <2>1. k # e => start + k \in start + 1 .. (start + e) - 1
    OBVIOUS
  <2>2. line[k] = text[start + k]
    BY <1>2
  <2> QED BY <1>5, <2>1, <2>2
<1>7. {k \in DOMAIN line : line[k] = LF} = {Len(line)}
  <2>1. DOMAIN line = 1 .. e /\ e \in 1 .. e
    BY <1>2, SMTT(20)
  <2> QED BY <1>2, <1>6, <2>1
<1>8. prefix = <<>> \/ Last(prefix) = LF
  <2>1. start = 0 => prefix = <<>>
    BY <1>3
  <2>2. ASSUME start # 0 PROVE Last(prefix) = LF
    <3>1. start \in 1 .. start /\ (start + 1) - 1 = start /\ start + 1 # 1
      BY <2>2
    <3>2. text[start] = LF
      BY <1>5, <3>1
    <3> QED BY <1>3, <3>1, <3>2 DEF Last
  <2> QED BY <2>1, <2>2
<1> QED BY <1>2, <1>3, <1>4, <1>7, <1>8 DEF prefix, Text, GrowsBy

\* What the reader of a file has before and after fgets has returned a line.
LEMMA NextLineReads ==
  ASSUME DurableInv, AllShort, Readers, NEW p \in Proc, NextLine(p)
  PROVE  \E start \in Nat, e \in Nat \ {0}, line \in Text :
           /\ start = offset[p] - Len(buffer[p])
           /\ line = SubSeq(buffer[p], 1, LineLength(p)) /\ e = LineLength(p)
           /\ Len(SplitPipeLine(line)) = Len(Columns[File(p)])
           /\ offset'[p] - Len(buffer'[p]) = start + e
           /\ {k \in DOMAIN line : line[k] = LF} = {Len(line)}
           /\ SubSeq(bytes[File(p)], 1, start) \in Text
           /\ SubSeq(bytes[File(p)], 1, start) = <<>> \/ Last(SubSeq(bytes[File(p)], 1, start)) = LF
           /\ SubSeq(bytes[File(p)], 1, start + e) = SubSeq(bytes[File(p)], 1, start) \o line
<1> DEFINE text == bytes[File(p)]
           buf  == buffer[p]
           off  == offset[p]
<1>1. /\ DurableInv /\ TypeInv /\ pc[p] = "fgets" /\ LineReady(p) /\ buf # <<>>
      /\ WellFormed(p)
      /\ offset' = offset /\ buffer' = [buffer EXCEPT ![p] = SubSeq(buf, LineLength(p) + 1, Len(buf))]
      /\ buffer \in [Proc -> Text]
  BY DEF DurableInv, NextLine, TypeInv, Shapes
<1>2. /\ text \in Text /\ (text = <<>> \/ Last(text) = LF) /\ off \in Nat /\ buf \in Text
      /\ ReadsText(text, off, buf, eof[p])
      /\ EveryLine(text, LAMBDA l : Len(l) < LineBuf)
  BY <1>1, ReaderType DEF Selecting, Readers, AllShort, EveryLine
<1>3. PICK start \in Nat : start = off - Len(buf)
  <2>1. Len(buf) <= off /\ Len(buf) \in Nat
    BY <1>2 DEF ReadsText, Text
  <2> QED BY <1>2, <2>1
<1>4. PICK e \in Nat \ {0} :
        /\ e = LineLength(p) /\ e \in 1 .. Len(buf)
        /\ start + e \in start + 1 .. Len(text)
        /\ IsLine(text, start + 1, start + e)
        /\ SubSeq(buf, 1, e) = SubSeq(text, start + 1, start + e)
  <2>1. LET st == off - Len(buf)
        IN  /\ LineLength(p) \in 1 .. Len(buf)
            /\ buf[LineLength(p)] = LF
            /\ st + 1 \in DOMAIN text /\ st + LineLength(p) \in st + 1 .. Len(text)
            /\ IsLine(text, st + 1, st + LineLength(p))
            /\ SubSeq(buf, 1, LineLength(p)) = SubSeq(text, st + 1, st + LineLength(p))
    BY <1>1, <1>2, ReadsWholeLine
  <2>2. LineLength(p) \in Nat \ {0}
    <3>1. Len(buf) \in Nat
      BY <1>2 DEF Text
    <3> QED BY <2>1, <3>1
  <2> HIDE DEF text, buf, off
  <2> QED BY <1>3, <2>1, <2>2
<1>5. PICK line : line = SubSeq(text, start + 1, start + e)
  OBVIOUS
<1>6. /\ line \in Text /\ {k \in DOMAIN line : line[k] = LF} = {Len(line)}
      /\ SubSeq(text, 1, start) \in Text
      /\ SubSeq(text, 1, start) = <<>> \/ Last(SubSeq(text, 1, start)) = LF
      /\ SubSeq(text, 1, start + e) = SubSeq(text, 1, start) \o line
  <2>1. PICK whole \in Text : whole = text
    BY <1>2
  <2>2. start + e <= Len(whole) /\ IsLine(whole, start + 1, start + e)
        /\ line = SubSeq(whole, start + 1, start + e)
    BY <1>4, <1>5, <2>1
  <2> HIDE DEF text
  <2>3. GrowsBy(whole, start, e, line)
    <3>1. start \in Nat /\ e \in Nat \ {0}
      BY <1>3, <1>4
    <3> QED BY <2>2, <3>1, NextReturned
  <2> QED BY <2>1, <2>3 DEF GrowsBy
<1>7. Len(SplitPipeLine(line)) = Len(Columns[File(p)])
  BY <1>1, <1>4, <1>5 DEF WellFormed, LineValues
<1>8. offset'[p] - Len(buffer'[p]) = start + e
  <2>1. offset'[p] = off /\ buffer'[p] = SubSeq(buf, e + 1, Len(buf))
    BY <1>1, <1>4
  <2>2. PICK held, a, b : held = buf /\ a = e + 1 /\ b = Len(buf)
    OBVIOUS
  <2>3. held \in Seq(Char) /\ a \in Nat /\ b \in Nat /\ b = Len(held) /\ e <= b /\ b <= off
    <3>1. buf \in Seq(Char) /\ Len(buf) \in Nat
      BY <1>2 DEF Text
    <3>2. Len(buf) <= off
      BY <1>2 DEF ReadsText
    <3>3. e \in Nat /\ e <= Len(buf)
      BY <1>4, <3>1
    <3> HIDE DEF buf, off
    <3> QED BY <2>2, <3>1, <3>2, <3>3
  <2>4. Len(SubSeq(held, a, b)) = b - e
    <3>1. \A i \in a .. b : held[i] \in Char
      <4>1. a = e + 1 /\ e \in Nat
        BY <1>4, <2>2
      <4> HIDE DEF buf, off
      <4> QED BY <2>3, <4>1
    <3>2. Len(SubSeq(held, a, b)) = IF a <= b THEN b - a + 1 ELSE 0
      BY <2>3, <3>1, SubSeqProperties
    <3> QED BY <2>2, <2>3, <3>2
  <2>5. Len(buffer'[p]) = b - e /\ start = off - b /\ offset'[p] = off
    BY <1>3, <2>1, <2>2, <2>4
  <2> HIDE DEF off, buf
  <2> QED BY <1>2, <2>3, <2>5
<1> QED BY <1>3, <1>4, <1>5, <1>6, <1>7, <1>8

\* A read returns nothing only when fgets has returned all that was read.
LEMMA ReadsNothingAtEnd ==
  ASSUME TypeInv, NEW p \in Proc, NEW text \in Text, text = bytes[File(p)],
         text = <<>> \/ Last(text) = LF,
         ReadsText(text, offset[p], buffer[p], eof[p]), ~LineReady(p), Chunk(p) = <<>>
  PROVE  buffer[p] = <<>> /\ offset[p] = Len(text)
<1> DEFINE n == Len(buffer[p])
<1>1. /\ offset[p] \in Nat /\ buffer[p] \in Text /\ buffer[p] \in Seq(Char) /\ n \in Nat
      /\ text \in Seq(Char) /\ Len(text) \in Nat
  <2>1. offset[p] \in Nat /\ buffer[p] \in Text
    BY DEF TypeInv, Shapes
  <2> QED BY <2>1 DEF Text
<1>2. /\ n <= offset[p] /\ offset[p] <= Len(text)
      /\ \A i \in 1 .. n : buffer[p][i] = text[(offset[p] - n) + i]
  BY DEF ReadsText
<1>3. offset[p] = Len(text)
  BY <1>1, <1>2, ChunkIs
<1>4. ASSUME buffer[p] # <<>> PROVE FALSE
  <2>1. n # 0
    BY <1>1, <1>4
  <2>2. Len(Window(p)) = n /\ LineEnd(p) = 0
    <3>1. Len(Window(p)) # LineBuf - 1 /\ LineEnd(p) \in Nat /\ ~(LineEnd(p) > 0)
      <4>1. Len(Window(p)) \in Nat
        BY WindowType DEF Text
      <4> QED BY <4>1, LineEndIs DEF LineReady
    <3> QED BY <3>1, WindowType
  <2>3. n \in 1 .. Len(Window(p))
    BY <1>1, <2>1, <2>2
  <2>4. Window(p)[n] = buffer[p][n]
    BY <2>3, WindowType
  <2>5. buffer[p][n] = text[Len(text)]
    <3>1. n \in 1 .. n /\ (offset[p] - n) + n = Len(text)
      BY <1>1, <1>3, <2>1
    <3> QED BY <1>2, <3>1
  <2>6. text # <<>> /\ text[Len(text)] = LF
    BY <1>1, <1>2, <1>3, <2>1 DEF Last
  <2>7. \A i \in 1 .. Len(Window(p)) : Window(p)[i] # LF
    BY <2>2, LineEndIs
  <2> QED BY <2>3, <2>4, <2>5, <2>6, <2>7
<1> QED BY <1>3, <1>4

\* What is buffered is the part of the text before the offset.
Buffered(text, off, buf) ==
  /\ Len(buf) <= off /\ off <= Len(text)
  /\ \A i \in 1 .. Len(buf) : buf[i] = text[(off - Len(buf)) + i]

Reading(p) == Buffered(bytes[File(p)], offset[p], buffer[p])

\* A reader of whole lines is one.
LEMMA ReadersRead ==
  ASSUME Undisturbed, DurableInv, Readers
  PROVE  NothingErased /\ GrowInv /\ \A p \in Proc : pc[p] = "fgets" => Reading(p)
BY DurableGrows DEF Readers, ReadsText, Reading, Buffered

\* The file of a reader.
LEMMA ReadingType ==
  ASSUME TypeInv, NEW q \in Proc, pc[q] = "fgets"
  PROVE  File(q) \in Table /\ bytes[File(q)] \in Text /\ offset[q] \in Nat /\ buffer[q] \in Text
<1>1. File(q) \in Table
  BY CurrentStatement DEF Selecting
<1> QED BY <1>1 DEF TypeInv, Shapes

\* A reader that is left alone has read what it had read, although its file grows.
LEMMA ReturnedStays ==
  ASSUME NothingErased, GrowInv, [Next]_vars, NEW q \in Proc, pc[q] = "fgets", Reading(q),
         File(q)' = File(q), offset'[q] = offset[q], buffer'[q] = buffer[q]
  PROVE  Returned(q)' = Returned(q)
<1>1. \E text : \E k \in Nat :
         /\ text = bytes[File(q)] /\ k = offset[q] - Len(buffer[q])
         /\ k <= Len(text) /\ text \in Text /\ File(q) \in Table
  <2>1. /\ File(q) \in Table /\ bytes[File(q)] \in Text
        /\ offset[q] \in Nat /\ buffer[q] \in Text
    BY ReadingType DEF GrowInv
  <2>2. Len(buffer[q]) <= offset[q] /\ offset[q] <= Len(bytes[File(q)])
    BY DEF Reading, Buffered
  <2>3. Len(buffer[q]) \in Nat /\ Len(bytes[File(q)]) \in Nat
    BY <2>1 DEF Text
  <2> QED BY <2>1, <2>2, <2>3
<1>5. PICK text : \E k \in Nat :
         /\ text = bytes[File(q)] /\ k = offset[q] - Len(buffer[q])
         /\ k <= Len(text) /\ text \in Text /\ File(q) \in Table
  BY <1>1
<1>6. PICK k \in Nat :
         /\ text = bytes[File(q)] /\ k = offset[q] - Len(buffer[q])
         /\ k <= Len(text) /\ text \in Text /\ File(q) \in Table
  BY <1>5
<1>2. \E s \in Text : bytes'[File(q)] = text \o s
  BY <1>6, FilesGrow
<1>3. ASSUME NEW s \in Text PROVE SubSeq(text \o s, 1, k) = SubSeq(text, 1, k)
  <2>1. text \in Seq(Char) /\ s \in Seq(Char)
    BY <1>6 DEF Text
  <2>2. CASE k = 0
    BY <2>1, <2>2
  <2>3. CASE k # 0
    <3>1. 1 \in 1 .. Len(text) /\ k \in 1 .. Len(text)
      BY <1>6, <2>1, <2>3
    <3> QED BY <2>1, <3>1, SubSeqOfConcat1
  <2> QED BY <2>2, <2>3
<1>4. SubSeq(bytes'[File(q)], 1, k) = SubSeq(text, 1, k)
  <2>1. PICK s \in Text : bytes'[File(q)] = text \o s
    BY <1>2
  <2>2. SubSeq(text \o s, 1, k) = SubSeq(text, 1, k)
    BY <1>3
  <2> QED BY <2>1, <2>2, Zenon
<1> QED BY <1>6, <1>4 DEF Returned

\* A file that has just been opened has returned nothing.
LEMMA NothingReturned ==
  ASSUME TypeInv, NEW q \in Proc, OpenRead(q)
  PROVE  Returned(q)' = <<>>
<1>1. /\ File(q)' = File(q) /\ bytes' = bytes /\ offset'[q] = 0 /\ buffer'[q] = <<>>
      /\ bytes[File(q)] \in Text
  <2>1. bytes[File(q)] \in Text
    <3>1. File(q) \in Table
      BY CurrentStatement DEF OpenRead, Selecting
    <3> QED BY <3>1 DEF TypeInv, Shapes
  <2> QED BY <2>1 DEF OpenRead, files, File, Statement, TypeInv, Shapes
<1>2. SubSeq(bytes[File(q)], 1, 0) = <<>>
  BY <1>1 DEF Text
<1>3. Returned(q)' = SubSeq(bytes[File(q)], 1, 0 - Len(<<>>))
  BY <1>1 DEF Returned
<1>4. 0 - Len(<<>>) = 0
  <2>1. PICK m : m = Len(<<>>)
    OBVIOUS
  <2>2. m = 0
    BY <2>1
  <2>3. 0 - m = 0
    BY <2>2
  <2> QED BY <2>1, <2>3, Zenon
<1> QED BY <1>2, <1>3, <1>4

\* A read returns nothing to the caller of fgets by itself.
LEMMA RefillReturns ==
  ASSUME TypeInv, NEW q \in Proc, Refill(q)
  PROVE  /\ Returned(q)' = Returned(q)
         /\ pc[q] = "fgets" /\ ~LineReady(q) /\ File(q)' = File(q) /\ bytes' = bytes
         /\ offset'[q] = offset[q] + Len(Chunk(q)) /\ buffer'[q] = buffer[q] \o Chunk(q)
         /\ eof'[q] = (Chunk(q) = <<>>)
<1>1. /\ pc[q] = "fgets" /\ ~LineReady(q) /\ File(q)' = File(q) /\ bytes' = bytes
      /\ offset'[q] = offset[q] + Len(Chunk(q)) /\ buffer'[q] = buffer[q] \o Chunk(q)
      /\ eof'[q] = (Chunk(q) = <<>>)
  BY DEF Refill, ReadsNothing, files, File, Statement, TypeInv, Shapes
<1>2. offset[q] \in Nat /\ buffer[q] \in Text /\ Chunk(q) \in Text
  BY <1>1, ReadingType, ChunkType DEF Selecting
<1>3. offset'[q] - Len(buffer'[q]) = offset[q] - Len(buffer[q])
  <2>1. PICK chunk : chunk = Chunk(q)
    OBVIOUS
  <2>2. /\ Len(buffer[q] \o chunk) = Len(buffer[q]) + Len(chunk)
        /\ Len(buffer[q]) \in Nat /\ Len(chunk) \in Nat
    BY <1>2, <2>1 DEF Text
  <2> QED BY <1>1, <1>2, <2>1, <2>2
<1> QED BY <1>1, <1>3 DEF Returned

\* A reader of whole lines meets the end of the file only when all that was read
\* has been returned.
LEMMA EndReturns ==
  ASSUME DurableInv, Readers, NEW q \in Proc, Refill(q)
  PROVE  eof'[q] => buffer'[q] = <<>>
<1>1. pc[q] = "fgets" /\ TypeInv
  BY DEF Refill, DurableInv
<1>2. /\ bytes[File(q)] \in Text /\ (bytes[File(q)] = <<>> \/ Last(bytes[File(q)]) = LF)
      /\ ReadsText(bytes[File(q)], offset[q], buffer[q], eof[q])
  BY <1>1, ReaderType DEF Selecting, Readers
<1>3. Chunk(q) = <<>> => buffer[q] = <<>>
  BY <1>1, <1>2, RefillReturns, ReadsNothingAtEnd
<1>4. Chunk(q) = <<>> => buffer[q] \o Chunk(q) = <<>>
  BY <1>3
<1> QED BY <1>1, <1>4, RefillReturns

\* The rows met so far are TableLog's answer from the lines read so far.
LEMMA AnsweringNext ==
  ASSUME Undisturbed, LogInv, [Next]_vars
  PROVE  Answering'
<1> SUFFICES ASSUME NEW q \in Proc, pc'[q] = "fgets"
             PROVE  /\ rows'[q] = Abstract!Answer(Statement(q)', Decoded(File(q)', Returned(q)'))
                    /\ eof'[q] => buffer'[q] = <<>>
  BY DEF Answering
<1>0. /\ DurableInv /\ TypeInv /\ pc \in [Proc -> {pc[r] : r \in Proc}] /\ offset \in [Proc -> Nat]
      /\ buffer \in [Proc -> Text] /\ eof \in [Proc -> BOOLEAN]
      /\ rows \in [Proc -> Seq(Seq(Text))] /\ Printed /\ Checked /\ AllShort /\ Readers
  BY DEF LogInv, DurableInv, TypeInv, Shapes, Printed
<1>1. ASSUME pc[q] = "fgets"
      PROVE  /\ rows[q] = Abstract!Answer(Statement(q), Decoded(File(q), Returned(q)))
             /\ eof[q] => buffer[q] = <<>>
  BY <1>1 DEF LogInv, Answering
<1>2. ASSUME Untouched(q), script' = script PROVE  rows'[q] = Abstract!Answer(Statement(q)', Decoded(File(q)', Returned(q)'))
             /\ (eof'[q] => buffer'[q] = <<>>)
  <2>1. /\ pc[q] = "fgets" /\ File(q)' = File(q) /\ Statement(q)' = Statement(q)
        /\ offset'[q] = offset[q] /\ buffer'[q] = buffer[q] /\ rows'[q] = rows[q] /\ eof'[q] = eof[q]
    BY <1>2 DEF Untouched, File, Statement
  <2>2. Returned(q)' = Returned(q)
    BY <1>0, <2>1, ReturnedStays, ReadersRead
  <2> QED BY <1>1, <2>1, <2>2
<1>3. CASE OpenRead(q)
  <2>1. /\ File(q)' = File(q) /\ Statement(q)' = Statement(q) /\ bytes' = bytes
        /\ offset'[q] = 0 /\ buffer'[q] = <<>> /\ rows'[q] = <<>> /\ eof'[q] = FALSE
        /\ bytes[File(q)] \in Text
    <3>1. bytes[File(q)] \in Text
      BY <1>0, <1>3, ReaderType DEF OpenRead, Selecting
    <3> QED BY <1>0, <1>3, <3>1 DEF OpenRead, files, File, Statement
  <2>2. Returned(q)' = <<>>
    BY <1>0, <1>3, NothingReturned
  <2>3. Decoded(File(q), <<>>) = <<>>
    <3>1. Ends(<<>>) = <<>> /\ <<>> \in Text
      <4>1. <<>> \in Text /\ LF \in Char
        BY CharAssumption DEF Text
      <4> QED BY <4>1, EndsSnoc
    <3>2. Len(Decoded(File(q), <<>>)) = 0 /\ Decoded(File(q), <<>>) \in Seq({RowOf(File(q), l) : l \in Text})
      BY <3>1, DecodedIs, LinesAre
    <3> QED BY <3>2
  <2>4. Abstract!Answer(Statement(q), <<>>) = <<>>
    <3>1. <<>> \in Seq({0}) /\ 0 \in {0}
      OBVIOUS
    <3> QED BY <3>1, AnswerSnoc
  <2> QED BY <2>1, <2>2, <2>3, <2>4
<1>4. CASE Refill(q)
  <2>1. pc[q] = "fgets" /\ File(q)' = File(q) /\ Statement(q)' = Statement(q) /\ rows'[q] = rows[q]
    BY <1>0, <1>4 DEF Refill, File, Statement
  <2>2. Returned(q)' = Returned(q) /\ (eof'[q] => buffer'[q] = <<>>)
    BY <1>0, <1>4, RefillReturns, EndReturns
  <2> QED BY <1>1, <2>1, <2>2
<1>5. CASE NextLine(q)
  <2>1. PICK start \in Nat, e \in Nat \ {0}, line \in Text :
           /\ start = offset[q] - Len(buffer[q])
           /\ line = SubSeq(buffer[q], 1, LineLength(q)) /\ e = LineLength(q)
           /\ Len(SplitPipeLine(line)) = Len(Columns[File(q)])
           /\ offset'[q] - Len(buffer'[q]) = start + e
           /\ {k \in DOMAIN line : line[k] = LF} = {Len(line)}
           /\ SubSeq(bytes[File(q)], 1, start) \in Text
           /\ SubSeq(bytes[File(q)], 1, start) = <<>> \/ Last(SubSeq(bytes[File(q)], 1, start)) = LF
           /\ SubSeq(bytes[File(q)], 1, start + e) = SubSeq(bytes[File(q)], 1, start) \o line
    BY <1>0, <1>5, NextLineReads
  <2>0. PICK t, s, before, values, row :
           /\ t = File(q) /\ s = Statement(q) /\ before = SubSeq(bytes[File(q)], 1, start)
           /\ values = SplitPipeLine(line) /\ row = RowOf(t, line)
    OBVIOUS
  <2>2. /\ pc[q] = "fgets" /\ buffer[q] # <<>>
        /\ File(q)' = t /\ Statement(q)' = s /\ bytes' = bytes /\ eof' = eof
        /\ rows'[q] = IF Matches(s, values) THEN Append(rows[q], Project(s, values)) ELSE rows[q]
    BY <1>0, <1>5, <2>0, <2>1 DEF NextLine, LineValues, files, File, Statement
  <2>3. Returned(q) = before /\ Returned(q)' = before \o line
    BY <2>0, <2>1, <2>2 DEF Returned
  <2>4. s \in StatementType /\ s.type = "SELECT" /\ Selectable(s) /\ t = s.table
    BY <1>0, <2>0, <2>2, CurrentStatement DEF Checked, Selecting, File
  <2>5. /\ Matches(s, values) <=> Abstract!Kept(s, row)
        /\ Project(s, values) = [i \in DOMAIN Abstract!Wanted(s) |-> row[Abstract!Wanted(s)[i]]]
    <3>1. s.table = t /\ Len(SplitPipeLine(line)) = Len(Columns[s.table]) /\ row = RowOf(s.table, line)
      BY <2>0, <2>1, <2>4
    <3>2. s \in StatementType /\ s.type = "SELECT" /\ Selectable(s)
      BY <2>4
    <3>3. /\ Matches(s, SplitPipeLine(line)) <=> Abstract!Kept(s, row)
          /\ Project(s, SplitPipeLine(line))
               = [i \in DOMAIN Abstract!Wanted(s) |-> row[Abstract!Wanted(s)[i]]]
      BY <3>1, <3>2, SelectedRow
    <3> QED BY <2>0, <3>3
  <2>6. Decoded(t, before \o line) = Append(Decoded(t, before), row)
    <3>1. before \in Text /\ (before = <<>> \/ Last(before) = LF)
          /\ {k \in DOMAIN line : line[k] = LF} = {Len(line)}
      BY <2>0, <2>1
    <3> QED BY <2>0, <3>1, DecodedAppend
  <2>7. Decoded(t, before) \in Seq({RowOf(t, l) : l \in Text}) /\ row \in {RowOf(t, l) : l \in Text}
    <3>1. before \in Text
      BY <2>0, <2>1
    <3> QED BY <2>0, <3>1, DecodedIs
  <2>8. Abstract!Answer(s, Append(Decoded(t, before), row))
          = IF Abstract!Kept(s, row)
            THEN Append(Abstract!Answer(s, Decoded(t, before)),
                        [i \in DOMAIN Abstract!Wanted(s) |-> row[Abstract!Wanted(s)[i]]])
            ELSE Abstract!Answer(s, Decoded(t, before))
    BY <2>7, AnswerSnoc
  <2>9. rows[q] = Abstract!Answer(s, Decoded(t, before)) /\ ~eof[q]
    BY <1>1, <2>0, <2>2, <2>3
  <2>10. rows'[q] = Abstract!Answer(s, Decoded(t, before \o line))
    BY <2>2, <2>5, <2>6, <2>8, <2>9
  <2> QED BY <2>0, <2>2, <2>3, <2>9, <2>10
<1>6. CASE UNCHANGED vars
  <2>1. Untouched(q) /\ script' = script
    BY <1>6 DEF vars, reader, Untouched
  <2> QED BY <1>2, <2>1
<1>7. ASSUME NEW p \in Proc, Step(p) \/ Kill(p) PROVE  rows'[q] = Abstract!Answer(Statement(q)', Decoded(File(q)', Returned(q)'))
             /\ (eof'[q] => buffer'[q] = <<>>)
  <2>1. CASE p # q
    BY <1>0, <1>2, <1>7, <2>1, OthersUntouched
  <2>2. CASE p = q
    BY <1>0, <1>3, <1>4, <1>5, <1>7, <2>2, OwnStep
  <2> QED BY <2>1, <2>2
<1> QED BY <1>6, <1>7 DEF Next, Done

\* The invariant holds at first and is kept.
LEMMA LogInit ==
  ASSUME Undisturbed, RowsAtFirst, ShortLines, Init
  PROVE  LogInv
<1>1. DurableInv /\ AllRows /\ AllShort
  BY DurableInit, FilesAtFirst DEF AllRows, AllShort, EveryLine
<1>2. \A p \in Proc : pc[p] = "parse"
  BY DEF Init
<1>3. Readers /\ Checked /\ Answering
  BY <1>2 DEF Readers, Checked, Answering, Selecting
<1> QED BY <1>1, <1>3, PrintedInit DEF LogInv

LEMMA LogNext ==
  ASSUME Undisturbed, ShortLines, LogInv, [Next]_vars
  PROVE  LogInv'
<1>1. TypeInv /\ DurableInv /\ AllRows /\ AllShort /\ Readers /\ Checked /\ Printed
  BY DEF LogInv, DurableInv
<1> QED BY <1>1, DurableNext, RowsNext, ShortNext, ReadersNext, CheckedNext, PrintedNext,
           AnsweringNext DEF LogInv

-----------------------------------------------------------------------------
(* The steps.                                                              *)

\* FixedAnswer of one process.
Fixed(p) ==
  IF pc[p] = "fgets" /\ eof[p] THEN <<[kind |-> "SELECT", rows |-> rows[p]]>>
  ELSE IF pc[p] = "INSERT 1" \/ (pc[p] = "fclose" /\ pending[p] = <<>>)
  THEN <<[kind |-> "INSERT", affected |-> 1]>>
  ELSE <<>>

\* A step of a process changes no answer but its own.
LEMMA AnswersElsewhere ==
  ASSUME TypeInv, Printed, NEW p \in Proc, Step(p) \/ Kill(p)
  PROVE  FixedAnswer' = [FixedAnswer EXCEPT ![p] = Fixed(p)']
<1>1. FixedAnswer = [q \in Proc |-> Fixed(q)] /\ FixedAnswer' = [q \in Proc |-> Fixed(q)']
  BY DEF FixedAnswer, Fixed
<1>2. ASSUME NEW q \in Proc, q # p PROVE Fixed(q)' = Fixed(q)
  <2>1. Untouched(q)
    BY <1>2, OthersUntouched
  <2> QED BY <2>1 DEF Untouched, Fixed
<1> QED BY <1>1, <1>2

\* The statement a process is at is the one that TableLog takes it to be at.
LEMMA AtCurrent ==
  ASSUME TypeInv, Printed, NEW p \in Proc, pc[p] \in Inserting \cup Selecting
  PROVE  Abstract!Current(p) = Statement(p) /\ Abstract!At(p, Statement(p).type)
<1>1. /\ script[p] # NoScript /\ next[p] \in Nat \ {0} /\ next[p] <= Len(script[p])
      /\ Len(stdout[p]) = next[p] - 1 /\ script[p] \in Scripts
  BY DEF TypeInv, Shapes, Control, Printed, Inserting, Selecting
<1>2. Len(script[p]) \in Nat
  BY <1>1, ScriptsAssumption
<1>3. Len(stdout[p]) + 1 = next[p] /\ Len(stdout[p]) < Len(script[p])
  BY <1>1, <1>2
<1>4. Abstract!Current(p) = Statement(p)
  BY <1>3 DEF Abstract!Current, Statement
<1> QED BY <1>1, <1>3, <1>4 DEF Abstract!At

\* A SELECT at work is one that TableLog accepts.
LEMMA SelectAccepted ==
  ASSUME NEW s \in StatementType, s.type = "SELECT", Selectable(s)
  PROVE  Abstract!CanSelect(s)
<1> DEFINE n == Len(Columns[s.table])
           values == [k \in 1 .. n |-> <<>>]
<1>1. n \in Nat \ {0}
  BY LowerColumnsAre DEF StatementType, Selectable
<1>2. values \in ValueLists /\ Len(values) = n /\ values \in Seq(Text)
  <2> HIDE DEF n
  <2> QED BY <1>1, EmptyText DEF ValueLists
<1> HIDE DEF values
<1>3. SerializeRow(values) \in Text /\ SplitPipeLine(SerializeRow(values)) = values
  BY <1>2, SerializeRowType, SplitSerializeRow
<1>4. PICK line \in Text : Len(SplitPipeLine(line)) = Len(Columns[s.table])
  BY <1>2, <1>3
<1>5. PICK row : row = RowOf(s.table, line)
  OBVIOUS
<1> QED BY <1>4, <1>5, SelectedRow

\* A process that neither fixes an answer nor reports one changes nothing that
\* TableLog knows of.
LEMMA Stutters ==
  ASSUME Undisturbed, LogInv, NEW p \in Proc, Step(p),
         ~Fclose(p), ~(Refill(p) /\ ReadsNothing(p)), ~ReportInsert(p), ~EndSelect(p)
  PROVE  Fixed(p)' = Fixed(p) /\ stdout' = stdout /\ bytes' = bytes /\ script' = script
<1>0. /\ DurableInv /\ TypeInv /\ pc \in [Proc -> {pc[r] : r \in Proc}]
      /\ eof \in [Proc -> BOOLEAN]
      /\ pc[p] = "fgets" => (eof[p] => buffer[p] = <<>>)
      /\ pc[p] = "fputs" => pending[p] = RowLine[Statement(p)]
  BY DEF LogInv, DurableInv, NothingWritten, TypeInv, Shapes, Answering
<1>1. bytes' = bytes /\ script' = script
  BY <1>0, QuietSteps DEF Quiet
<1>2. ~FputsFails(p) /\ ~OpenFails(p) /\ ~ReadFails(p) /\ ~MissingData(p) /\ ~CreateEmpty(p)
  BY <1>0, NotTaken, DurableGrows
<1> USE DEF Fixed
<1>3. CASE Parse(p)
  BY <1>0, <1>1, <1>3 DEF Parse, Goto
<1>4. CASE Finish(p)
  BY <1>0, <1>1, <1>4 DEF Finish, Goto
<1>5. CASE BeginInsert(p)
  BY <1>0, <1>1, <1>5 DEF BeginInsert, Goto, AtStatement
<1>6. CASE RejectInsert(p)
  BY <1>0, <1>1, <1>6 DEF RejectInsert, Fail, Goto, AtStatement
<1>7. CASE OpenAppend(p)
  BY <1>0, <1>1, <1>7 DEF OpenAppend, Goto
<1>8. CASE Fputs(p)
  <2>1. pc[p] = "fputs" /\ pc'[p] = "fclose" /\ stdout' = stdout
    BY <1>0, <1>8 DEF Fputs, Goto
  <2>2. pending'[p] = RowLine[Statement(p)]
    BY <1>0, <1>8, <2>1, FputsEffect
  <2>3. RowLine[Statement(p)] # <<>>
    BY <1>0, <2>1, CurrentStatement, RowLineType DEF Inserting
  <2> QED BY <1>1, <2>1, <2>2, <2>3
<1>9. CASE BeginSelect(p)
  BY <1>0, <1>1, <1>9 DEF BeginSelect, Goto, AtStatement
<1>10. CASE RejectSelect(p)
  BY <1>0, <1>1, <1>10 DEF RejectSelect, Fail, Goto, AtStatement
<1>11. CASE OpenRead(p)
  BY <1>0, <1>1, <1>11 DEF OpenRead, Goto
<1>12. CASE Refill(p)
  <2>1. pc[p] = "fgets" /\ pc'[p] = "fgets" /\ ~eof[p] /\ eof'[p] = ReadsNothing(p) /\ stdout' = stdout
    BY <1>0, <1>12 DEF Refill, LineReady
  <2> QED BY <1>1, <1>12, <2>1
<1>13. CASE NextLine(p)
  BY <1>0, <1>1, <1>13 DEF NextLine
<1>14. CASE BadLine(p)
  BY <1>0, <1>1, <1>14 DEF BadLine, Fail, Goto
<1> QED BY <1>2, <1>3, <1>4, <1>5, <1>6, <1>7, <1>8, <1>9, <1>10, <1>11, <1>12, <1>13, <1>14
        DEF Step, Insert, Select

\* fclose is where an INSERT takes effect.
LEMMA InsertsRow ==
  ASSUME Undisturbed, LogInv, NEW p \in Proc, Fclose(p)
  PROVE  Abstract!Insert(p)
<1> DEFINE t    == File(p)
           s    == Statement(p)
           line == RowLine[s]
<1>0. /\ DurableInv /\ TypeInv /\ Printed /\ pc[p] = "fclose" /\ pc[p] \in Inserting
      /\ pending[p] = line /\ pc \in [Proc -> {pc[r] : r \in Proc}] /\ pending \in [Proc -> Text]
      /\ bytes \in [Table -> Text]
  BY DEF LogInv, DurableInv, NothingWritten, TypeInv, Shapes, Fclose, Inserting
<1>1. s \in Inserts /\ s.type = "INSERT" /\ t = s.table /\ t \in Table
  BY <1>0, CurrentStatement DEF File, Inserts
<1>2. /\ line \in Text \ {<<>>} /\ {k \in DOMAIN line : line[k] = LF} = {Len(line)}
  BY <1>1, RowLineType
<1>3. bytes[t] \in Text /\ (bytes[t] = <<>> \/ Last(bytes[t]) = LF)
      /\ bytes' = [bytes EXCEPT ![t] = @ \o line]
  BY <1>0, FcloseEffect DEF DurableInv, WholeFiles
<1>4. Abstract!CanInsert(s) /\ RowOf(t, line) = Abstract!NewRow(s)
  BY <1>1, InsertedRow
<1>5. Abstract!Current(p) = s /\ Abstract!At(p, "INSERT")
  BY <1>0, <1>1, AtCurrent
<1>6. FixedAnswer[p] = <<>>
  BY <1>0, <1>2 DEF FixedAnswer
<1>7. Fixed(p)' = <<[kind |-> "INSERT", affected |-> 1]>>
  <2>1. pc'[p] = "INSERT 1"
    BY <1>0 DEF Fclose, Goto
  <2> QED BY <2>1 DEF Fixed
<1>8. FixedAnswer' = [FixedAnswer EXCEPT ![p] = <<[kind |-> "INSERT", affected |-> 1]>>]
  BY <1>0, <1>7, AnswersElsewhere DEF Step, Insert
<1>9. DecodedLog' = [DecodedLog EXCEPT ![s.table] = Append(@, Abstract!NewRow(s))]
  <2>1. PICK before, row : before = bytes[t] /\ row = line
    OBVIOUS
  <2>2. /\ before \in Text /\ (before = <<>> \/ Last(before) = LF)
        /\ row \in Text /\ {k \in DOMAIN row : row[k] = LF} = {Len(row)}
    BY <1>2, <1>3, <2>1
  <2>3. Decoded(t, before \o row) = Append(Decoded(t, before), RowOf(t, row))
    BY <2>2, DecodedAppend
  <2>4. DecodedLog'[t] = Append(DecodedLog[t], Abstract!NewRow(s))
    <3>1. bytes'[t] = before \o row
      BY <1>0, <1>1, <1>3, <2>1
    <3>2. DecodedLog'[t] = Decoded(t, bytes'[t]) /\ DecodedLog[t] = Decoded(t, bytes[t])
      BY <1>1 DEF DecodedLog
    <3> QED BY <1>4, <2>1, <2>3, <3>1, <3>2
  <2>5. ASSUME NEW u \in Table, u # t PROVE DecodedLog'[u] = DecodedLog[u]
    <3>1. bytes'[u] = bytes[u]
      BY <1>0, <1>3, <2>5
    <3> QED BY <3>1 DEF DecodedLog
  <2>6. DecodedLog = [u \in Table |-> DecodedLog[u]] /\ DecodedLog' = [u \in Table |-> DecodedLog'[u]]
    BY DEF DecodedLog
  <2> HIDE DEF t, s, line
  <2> QED BY <1>1, <2>4, <2>5, <2>6
<1>10. script' = script /\ stdout' = stdout
  BY DEF Fclose
<1> HIDE DEF t, s, line
<1> QED BY <1>4, <1>5, <1>6, <1>8, <1>9, <1>10 DEF Abstract!Insert

\* The read that finds the end of the file is where a SELECT takes effect.
LEMMA SelectsRows ==
  ASSUME Undisturbed, LogInv, NEW p \in Proc, Refill(p), ReadsNothing(p)
  PROVE  Abstract!Select(p)
<1> DEFINE t == File(p)
           s == Statement(p)
<1>0. /\ DurableInv /\ TypeInv /\ Printed /\ Checked /\ pc[p] = "fgets" /\ pc[p] \in Selecting
      /\ ~LineReady(p) /\ ~eof[p] /\ eof \in [Proc -> BOOLEAN] /\ Chunk(p) = <<>>
      /\ UNCHANGED <<files, script, pc, next, pending, rows, stdout, history>>
      /\ eof' = [eof EXCEPT ![p] = TRUE]
  BY DEF LogInv, DurableInv, TypeInv, Shapes, Refill, LineReady, ReadsNothing, Selecting
<1>1. s \in StatementType /\ s.type = "SELECT" /\ Selectable(s) /\ t = s.table /\ t \in Table
  BY <1>0, CurrentStatement DEF Checked, File
<1>2. PICK text : text = bytes[t] /\ text \in Text /\ (text = <<>> \/ Last(text) = LF)
                  /\ ReadsText(text, offset[p], buffer[p], eof[p])
  BY <1>0, ReaderType DEF LogInv, Readers
<1>3. buffer[p] = <<>> /\ offset[p] = Len(text)
  BY <1>0, <1>2, ReadsNothingAtEnd
<1>4. Returned(p) = text
  <2>1. Len(text) \in Nat /\ SubSeq(text, 1, Len(text)) = text
    BY <1>2 DEF Text
  <2>2. Len(buffer[p]) = 0
    <3>1. PICK b : b = buffer[p] /\ b = <<>>
      BY <1>3
    <3> QED BY <3>1
  <2>3. offset[p] - Len(buffer[p]) = Len(text)
    BY <1>3, <2>1, <2>2
  <2> QED BY <1>2, <2>1, <2>3 DEF Returned
<1>5. rows[p] = Abstract!Answer(s, DecodedLog[s.table])
  <2>1. rows[p] = Abstract!Answer(s, Decoded(t, Returned(p)))
    BY <1>0 DEF LogInv, Answering
  <2>2. DecodedLog[s.table] = Decoded(t, text)
    BY <1>1, <1>2 DEF DecodedLog
  <2> QED BY <1>4, <2>1, <2>2
<1>6. Abstract!CanSelect(s)
  BY <1>1, SelectAccepted
<1>7. Abstract!Current(p) = s /\ Abstract!At(p, "SELECT")
  BY <1>0, <1>1, AtCurrent
<1>8. FixedAnswer[p] = <<>>
  BY <1>0 DEF FixedAnswer
<1>9. Fixed(p)' = <<[kind |-> "SELECT", rows |-> rows[p]]>>
  <2>1. pc'[p] = "fgets" /\ eof'[p] /\ rows'[p] = rows[p]
    BY <1>0
  <2> QED BY <2>1 DEF Fixed
<1>10. FixedAnswer' = [FixedAnswer EXCEPT ![p] = <<[kind |-> "SELECT", rows |-> rows[p]]>>]
  BY <1>0, <1>9, AnswersElsewhere DEF Step, Select
<1>11. DecodedLog' = DecodedLog
  BY <1>0 DEF DecodedLog, files
<1> HIDE DEF t, s
<1> QED BY <1>0, <1>5, <1>6, <1>7, <1>8, <1>10, <1>11 DEF Abstract!Select

\* What is reported is the answer that was fixed.
LEMMA Replies ==
  ASSUME Undisturbed, LogInv, NEW p \in Proc, ReportInsert(p) \/ EndSelect(p)
  PROVE  Abstract!Reply(p)
<1>0. /\ TypeInv /\ Printed /\ pc \in [Proc -> {pc[r] : r \in Proc}]
  BY DEF LogInv, DurableInv, TypeInv, Shapes
<1>1. PICK r : Report(p, r) /\ FixedAnswer[p] = <<r>>
  <2>1. CASE ReportInsert(p)
    <3>1. FixedAnswer[p] = <<[kind |-> "INSERT", affected |-> 1]>>
      BY <2>1 DEF ReportInsert, FixedAnswer
    <3> QED BY <2>1, <3>1 DEF ReportInsert
  <2>2. CASE EndSelect(p)
    <3>1. FixedAnswer[p] = <<[kind |-> "SELECT", rows |-> rows[p]]>>
      BY <2>2 DEF EndSelect, FixedAnswer
    <3> QED BY <2>2, <3>1 DEF EndSelect
  <2> QED BY <2>1, <2>2
<1>2. Fixed(p)' = <<>>
  <2>1. pc'[p] = "statement"
    BY <1>0, <1>1 DEF Report, Goto
  <2> QED BY <2>1 DEF Fixed
<1>3. FixedAnswer' = [FixedAnswer EXCEPT ![p] = <<>>]
  BY <1>0, <1>2, AnswersElsewhere DEF Step, Insert, Select
<1>4. bytes' = bytes /\ script' = script
  BY DEF ReportInsert, EndSelect, files
<1>5. DecodedLog' = DecodedLog
  BY <1>4 DEF DecodedLog
<1>6. FixedAnswer[p] # <<>> /\ Head(FixedAnswer[p]) = r
  <2>1. <<r>> # <<>> /\ Head(<<r>>) = r
    OBVIOUS
  <2> QED BY <1>1, <2>1
<1>7. stdout' = [stdout EXCEPT ![p] = Append(@, r)]
  BY <1>1 DEF Report
<1> QED BY <1>3, <1>4, <1>5, <1>6, <1>7 DEF Abstract!Reply

\* A process that is killed takes its answer with it, if it had one.
LEMMA Abandons ==
  ASSUME Undisturbed, LogInv, NEW p \in Proc, Kill(p)
  PROVE  Abstract!Abandon(p) \/ UNCHANGED Abstract!vars
<1>0. /\ TypeInv /\ Printed /\ pc \in [Proc -> {pc[r] : r \in Proc}]
  BY DEF LogInv, DurableInv, TypeInv, Shapes
<1>1. Fixed(p)' = <<>>
  <2>1. pc'[p] = "killed"
    BY <1>0 DEF Kill, Goto
  <2> QED BY <2>1 DEF Fixed
<1>2. FixedAnswer' = [FixedAnswer EXCEPT ![p] = <<>>]
  BY <1>0, <1>1, AnswersElsewhere
<1>3. DecodedLog' = DecodedLog /\ script' = script /\ stdout' = stdout
  BY DEF Kill, DecodedLog, files
<1>4. CASE FixedAnswer[p] = <<>>
  <2>1. FixedAnswer' = FixedAnswer
    BY <1>2, <1>4 DEF FixedAnswer
  <2> QED BY <1>3, <2>1 DEF Abstract!vars
<1>5. CASE FixedAnswer[p] # <<>>
  BY <1>2, <1>3, <1>5 DEF Abstract!Abandon
<1> QED BY <1>4, <1>5

\* At first every data file decodes to rows of the columns of its table.
LEMMA RowsDecoded ==
  ASSUME AllRows, NEW t \in Table, bytes[t] \in Text
  PROVE  DecodedLog[t] \in Seq([Abstract!Names(t) -> Text])
<1>1. PICK text : text = bytes[t] /\ text \in Text
  OBVIOUS
<1>2. PICK lines, ends, log : lines = Lines(text) /\ ends = Ends(text) /\ log = Decoded(t, text)
  OBVIOUS
<1>3. /\ log \in Seq({RowOf(t, l) : l \in Text}) /\ Len(log) = Len(lines) /\ Len(lines) \in Nat
      /\ \A k \in 1 .. Len(lines) : log[k] = RowOf(t, lines[k]) /\ lines[k] \in Text
  <2>1. lines \in Seq(Text)
    BY <1>1, <1>2, LinesAre
  <2>2. /\ log \in Seq({RowOf(t, l) : l \in Text}) /\ Len(log) = Len(lines)
        /\ \A k \in 1 .. Len(lines) : log[k] = RowOf(t, lines[k])
    BY <1>1, <1>2, DecodedIs
  <2> QED BY <2>1, <2>2
<1>4. ASSUME NEW k \in 1 .. Len(lines) PROVE log[k] \in [Range(LowerColumns[t]) -> Text]
  <2>1. CASE LoadFails(t)
    <3>1. LowerColumns[t] = <<>>
      BY <2>1 DEF LowerColumns
    <3>2. Range(LowerColumns[t]) = {}
      BY <3>1 DEF Range
    <3>3. RowOf(t, lines[k]) \in [Range(LowerColumns[t]) -> Text]
      BY <3>2 DEF RowOf
    <3> QED BY <1>3, <3>3
  <2>2. CASE ~LoadFails(t)
    <3>1. \A i \in DOMAIN text : \A j \in i .. Len(text) :
            IsLine(text, i, j) => Len(SplitPipeLine(SubSeq(text, i, j))) = Len(Columns[t])
      BY <1>1, <2>2 DEF AllRows, WholeRows, EveryLine
    <3>2. PICK i, j : i = LineStart(ends, k) /\ j = ends[k]
      OBVIOUS
    <3>3. i \in 1 .. j /\ j \in 1 .. Len(text) /\ lines[k] = SubSeq(text, i, j) /\ IsLine(text, i, j)
      <4>1. k \in 1 .. Len(ends)
        BY <1>1, <1>2, LinesAre
      <4> QED BY <1>1, <1>2, <3>2, <4>1, LinesAre
    <3>4. i \in DOMAIN text /\ j \in i .. Len(text)
      <4>1. DOMAIN text = 1 .. Len(text) /\ Len(text) \in Nat
        BY <1>1 DEF Text
      <4> QED BY <3>3, <4>1
    <3>5. Len(SplitPipeLine(lines[k])) = Len(Columns[t]) /\ lines[k] \in Text
      BY <1>3, <3>1, <3>3, <3>4
    <3>6. RowOf(t, lines[k]) \in [Range(LowerColumns[t]) -> Text]
      BY <2>2, <3>5, RowOfIs
    <3> QED BY <1>3, <3>6
  <2> QED BY <2>1, <2>2
<1>5. log \in Seq([Range(LowerColumns[t]) -> Text])
  BY <1>3, <1>4
<1> QED BY <1>1, <1>2, <1>5 DEF DecodedLog, Abstract!Names, Abstract!Range, Range

\* Linearizability, for any number of invocations, scripts, tables and stdio
\* buffer sizes, while any of them may be killed at any moment: when no system
\* call fails and the data files hold whole and short rows at first, what every
\* invocation reports is what TableLog allows, a log of rows of named columns to
\* which each INSERT adds one row at one instant (fclose) and from which each
\* SELECT answers as it is at one instant (the read that meets the end of the
\* file), although the program reads in blocks and takes no lock.
THEOREM Linearizable ==
  ASSUME Undisturbed, RowsAtFirst, ShortLines
  PROVE  Spec => ImplementsTableLog
<1>1. Init => LogInv
  BY LogInit
<1>2. LogInv /\ [Next]_vars => LogInv'
  BY LogNext
<1>3. Init => Abstract!Init
  <2> SUFFICES ASSUME Init PROVE Abstract!Init
    OBVIOUS
  <2>1. AllRows /\ bytes \in [Table -> Text]
    BY <1>1 DEF LogInv, DurableInv, TypeInv, Shapes
  <2>2. \A t \in Table : DecodedLog[t] \in Seq([Abstract!Names(t) -> Text])
    BY <2>1, RowsDecoded
  <2>3. FixedAnswer = [p \in Proc |-> <<>>]
    <3>1. \A p \in Proc : pc[p] = "parse"
      BY DEF Init
    <3>2. \A p \in Proc : Fixed(p) = <<>>
      BY <3>1 DEF Fixed
    <3>3. FixedAnswer = [p \in Proc |-> Fixed(p)]
      BY DEF FixedAnswer, Fixed
    <3> QED BY <3>2, <3>3
  <2>4. script \in [Proc -> Scripts] /\ stdout = [p \in Proc |-> <<>>]
    BY DEF Init
  <2> QED BY <2>2, <2>3, <2>4 DEF Abstract!Init
<1>4. LogInv /\ [Next]_vars => [Abstract!Next]_(Abstract!vars)
  <2> SUFFICES ASSUME LogInv, [Next]_vars PROVE Abstract!Next \/ UNCHANGED Abstract!vars
    OBVIOUS
  <2>1. CASE UNCHANGED vars
    <3>1. UNCHANGED <<script, bytes, stdout, pc, eof, rows, pending>>
      BY <2>1 DEF vars, files, reader
    <3>2. FixedAnswer' = FixedAnswer /\ DecodedLog' = DecodedLog
      BY <3>1 DEF FixedAnswer, DecodedLog
    <3> QED BY <3>1, <3>2 DEF Abstract!vars
  <2>2. ASSUME NEW p \in Proc, Kill(p) PROVE Abstract!Next \/ UNCHANGED Abstract!vars
    BY <2>2, Abandons DEF Abstract!Next
  <2>3. ASSUME NEW p \in Proc, Fclose(p) PROVE Abstract!Next
    BY <2>3, InsertsRow DEF Abstract!Next
  <2>4. ASSUME NEW p \in Proc, Refill(p), ReadsNothing(p) PROVE Abstract!Next
    BY <2>4, SelectsRows DEF Abstract!Next
  <2>5. ASSUME NEW p \in Proc, ReportInsert(p) \/ EndSelect(p) PROVE Abstract!Next
    BY <2>5, Replies DEF Abstract!Next
  <2>6. ASSUME NEW p \in Proc, Step(p), ~Fclose(p), ~(Refill(p) /\ ReadsNothing(p)),
               ~ReportInsert(p), ~EndSelect(p)
        PROVE  UNCHANGED Abstract!vars
    <3>1. Fixed(p)' = Fixed(p) /\ stdout' = stdout /\ bytes' = bytes /\ script' = script
      BY <2>6, Stutters
    <3>2. FixedAnswer' = [FixedAnswer EXCEPT ![p] = Fixed(p)]
      BY <2>6, <3>1, AnswersElsewhere DEF LogInv, DurableInv
    <3>3. FixedAnswer = [q \in Proc |-> Fixed(q)]
      BY DEF FixedAnswer, Fixed
    <3>4. FixedAnswer' = FixedAnswer
      BY <3>2, <3>3
    <3>5. DecodedLog' = DecodedLog
      BY <3>1 DEF DecodedLog
    <3> QED BY <3>1, <3>4, <3>5 DEF Abstract!vars
  <2> QED BY <2>1, <2>2, <2>3, <2>4, <2>5, <2>6 DEF Next, Done
<1> QED BY <1>1, <1>2, <1>3, <1>4, PTL DEF Spec, ImplementsTableLog, Abstract!Spec

-----------------------------------------------------------------------------
(* Answers from files of any lines, rows or not.                           *)

\* What fgets has returned of a file is lines of as many values as the table
\* has columns; SELECT * without WHERE has met one row on each of them.
CheckedLines ==
  \A p \in Proc :
    pc[p] = "fgets" =>
      /\ WholeRows(File(p), Returned(p))
      /\ eof[p] => buffer[p] = <<>>
      /\ ~Statement(p).where.enabled => Len(rows[p]) = Len(Ends(Returned(p)))

LinesInv == /\ DurableInv /\ AllShort /\ Readers
            /\ Checked /\ Printed /\ CheckedLines

\* Each line that is returned has been checked, and without WHERE is a row more.
LEMMA CheckedLinesNext ==
  ASSUME Undisturbed, LinesInv, [Next]_vars
  PROVE  CheckedLines'
<1> DEFINE Good(q) == /\ WholeRows(File(q), Returned(q))
                      /\ eof[q] => buffer[q] = <<>>
                      /\ ~Statement(q).where.enabled => Len(rows[q]) = Len(Ends(Returned(q)))
<1> SUFFICES ASSUME NEW q \in Proc, pc'[q] = "fgets" PROVE Good(q)'
  BY DEF CheckedLines
<1>0. /\ DurableInv /\ TypeInv /\ Printed /\ Checked /\ AllShort /\ Readers
      /\ pc \in [Proc -> {pc[r] : r \in Proc}] /\ offset \in [Proc -> Nat]
      /\ buffer \in [Proc -> Text] /\ eof \in [Proc -> BOOLEAN]
      /\ rows \in [Proc -> Seq(Seq(Text))]
  BY DEF LinesInv, DurableInv, TypeInv, Shapes, Printed
<1>1. pc[q] = "fgets" => Good(q)
  BY DEF LinesInv, CheckedLines
<1>2. ASSUME Untouched(q), script' = script PROVE Good(q)'
  <2>1. /\ pc[q] = "fgets" /\ File(q)' = File(q) /\ Statement(q)' = Statement(q)
        /\ offset'[q] = offset[q] /\ buffer'[q] = buffer[q] /\ rows'[q] = rows[q] /\ eof'[q] = eof[q]
    BY <1>2 DEF Untouched, File, Statement
  <2>2. Returned(q)' = Returned(q)
    BY <1>0, <2>1, ReturnedStays, ReadersRead
  <2> QED BY <1>1, <2>1, <2>2
<1>3. CASE OpenRead(q)
  <2>1. /\ buffer'[q] = <<>> /\ eof'[q] = FALSE /\ rows'[q] = <<>>
        /\ Returned(q)' = <<>>
    BY <1>0, <1>3, NothingReturned DEF OpenRead
  <2>2. WholeRows(File(q)', <<>>)
    <3>1. DOMAIN <<>> = {}
      OBVIOUS
    <3> QED BY <3>1 DEF WholeRows, EveryLine
  <2>3. Ends(<<>>) = <<>>
    <3>1. <<>> \in Text /\ LF \in Char
      BY CharAssumption DEF Text
    <3> QED BY <3>1, EndsSnoc
  <2> QED BY <2>1, <2>2, <2>3
<1>4. CASE Refill(q)
  <2>1. /\ pc[q] = "fgets" /\ File(q)' = File(q) /\ Statement(q)' = Statement(q) /\ rows'[q] = rows[q]
    BY <1>0, <1>4 DEF Refill, File, Statement
  <2>2. Returned(q)' = Returned(q) /\ (eof'[q] => buffer'[q] = <<>>)
    BY <1>0, <1>4, RefillReturns, EndReturns
  <2> QED BY <1>1, <2>1, <2>2
<1>5. CASE NextLine(q)
  <2>1. PICK start \in Nat, e \in Nat \ {0}, line \in Text :
           /\ start = offset[q] - Len(buffer[q])
           /\ line = SubSeq(buffer[q], 1, LineLength(q)) /\ e = LineLength(q)
           /\ Len(SplitPipeLine(line)) = Len(Columns[File(q)])
           /\ offset'[q] - Len(buffer'[q]) = start + e
           /\ {k \in DOMAIN line : line[k] = LF} = {Len(line)}
           /\ SubSeq(bytes[File(q)], 1, start) \in Text
           /\ SubSeq(bytes[File(q)], 1, start) = <<>> \/ Last(SubSeq(bytes[File(q)], 1, start)) = LF
           /\ SubSeq(bytes[File(q)], 1, start + e) = SubSeq(bytes[File(q)], 1, start) \o line
    BY <1>0, <1>5, NextLineReads
  <2>2. /\ pc[q] = "fgets" /\ buffer[q] # <<>>
        /\ File(q)' = File(q) /\ Statement(q)' = Statement(q) /\ bytes' = bytes /\ eof' = eof
        /\ ~Statement(q).where.enabled => rows'[q] = Append(rows[q], Project(Statement(q), LineValues(q)))
    BY <1>0, <1>5 DEF NextLine, Matches, files, File, Statement
  <2>3. PICK t, before : t = File(q) /\ before = SubSeq(bytes[File(q)], 1, start)
    OBVIOUS
  <2>4. Returned(q) = before /\ Returned(q)' = before \o line /\ before \in Text
    BY <2>1, <2>2, <2>3 DEF Returned
  <2>5. WholeRows(t, before \o line)
    BY <1>1, <2>1, <2>2, <2>3, <2>4, WholeRowsAppended
  <2>6. Len(Ends(before \o line)) = Len(Ends(before)) + 1
    <3>1. Ends(before \o line) = Append(Ends(before), Len(before) + Len(line))
      BY <2>1, <2>4, EndsAppend
    <3>2. Ends(before) \in Seq(1 .. Len(before))
      BY <2>4, EndsAreLineEnds DEF LineEnds
    <3>3. PICK ends, n : ends = Ends(before) /\ n = Len(before) + Len(line)
      OBVIOUS
    <3>4. Len(Append(ends, n)) = Len(ends) + 1
      BY <3>2, <3>3
    <3> QED BY <3>1, <3>3, <3>4
  <2>7. ~Statement(q).where.enabled => Len(rows'[q]) = Len(rows[q]) + 1
    <3>1. PICK row : row = Project(Statement(q), LineValues(q))
      OBVIOUS
    <3>2. Len(Append(rows[q], row)) = Len(rows[q]) + 1
      BY <1>0
    <3> QED BY <2>2, <3>1, <3>2
  <2> QED BY <1>1, <2>2, <2>3, <2>4, <2>5, <2>6, <2>7
<1>6. CASE UNCHANGED vars
  <2>1. Untouched(q) /\ script' = script
    BY <1>6 DEF vars, reader, Untouched
  <2> QED BY <1>2, <2>1
<1>7. ASSUME NEW p \in Proc, Step(p) \/ Kill(p) PROVE Good(q)'
  <2>1. CASE p # q
    BY <1>0, <1>2, <1>7, <2>1, OthersUntouched
  <2>2. CASE p = q
    BY <1>0, <1>3, <1>4, <1>5, <1>7, <2>2, OwnStep
  <2> QED BY <2>1, <2>2
<1> QED BY <1>6, <1>7 DEF Next, Done

\* The invariant holds at first and is kept.
LEMMA LinesInit ==
  ASSUME Undisturbed, ShortLines, Init
  PROVE  LinesInv
<1>1. DurableInv /\ AllShort
  BY DurableInit, FilesAtFirst DEF AllShort, EveryLine
<1>2. \A p \in Proc : pc[p] = "parse"
  BY DEF Init
<1>3. Readers /\ Checked /\ CheckedLines
  BY <1>2 DEF Readers, Checked, CheckedLines, Selecting
<1> QED BY <1>1, <1>3, PrintedInit DEF LinesInv

LEMMA LinesNext ==
  ASSUME Undisturbed, ShortLines, LinesInv, [Next]_vars
  PROVE  LinesInv'
<1>1. TypeInv /\ DurableInv /\ AllShort /\ Readers /\ Checked /\ Printed
  BY DEF LinesInv, DurableInv
<1> QED BY <1>1, DurableNext, ShortNext, ReadersNext, CheckedNext, PrintedNext,
           CheckedLinesNext DEF LinesInv

\* When a SELECT ends, everything it has read has been returned.
LEMMA AllReturned ==
  ASSUME LinesInv, NEW p \in Proc, EndSelect(p)
  PROVE  /\ SubSeq(bytes[File(p)], 1, offset[p]) = Returned(p)
         /\ Returned(p) \in Text /\ WholeRows(File(p), Returned(p))
         /\ ~Statement(p).where.enabled => Len(rows[p]) = Len(Ends(Returned(p)))
<1>1. /\ pc[p] = "fgets" /\ buffer[p] = <<>> /\ DurableInv
  BY DEF EndSelect, LinesInv
<1>2. bytes[File(p)] \in Text /\ offset[p] \in Nat /\ offset[p] <= Len(bytes[File(p)])
  BY <1>1, ReaderType DEF Selecting, LinesInv, Readers, ReadsText
<1>3. offset[p] - Len(buffer[p]) = offset[p]
  <2>1. PICK n : n = Len(buffer[p])
    OBVIOUS
  <2>2. n = 0
    BY <1>1, <2>1
  <2> QED BY <1>2, <2>1, <2>2
<1>4. SubSeq(bytes[File(p)], 1, offset[p]) \in Text
  <2>1. PICK text, n : text = bytes[File(p)] /\ n = offset[p]
    OBVIOUS
  <2>2. text \in Seq(Char) /\ n \in Nat /\ n <= Len(text)
    BY <1>2, <2>1 DEF Text
  <2>3. SubSeq(text, 1, n) \in Seq(Char)
    BY <2>2
  <2> QED BY <2>1, <2>3 DEF Text
<1> QED BY <1>1, <1>3, <1>4 DEF Returned, LinesInv, CheckedLines

\* Where invocations cannot harm one another and lines are short, SELECT * without
\* WHERE reports as many rows as the part of the file it has read has lines: none
\* lost, joined or doubled where one block ends and the next begins, or while
\* others append.
THEOREM RowsOfLines ==
  ASSUME Undisturbed, ShortLines
  PROVE  Spec => OneLineOneRow
<1> DEFINE Counts(p) == Len(rows[p]) = Len(Ends(SubSeq(bytes[File(p)], 1, offset[p])))
<1>1. Init => LinesInv
  BY LinesInit
<1>2. LinesInv /\ [Next]_vars => LinesInv'
  BY LinesNext
<1>3. LinesInv => \A p \in Proc : EndSelect(p) /\ Statement(p).selectAll /\ ~Statement(p).where.enabled
                                     => Counts(p)
  BY AllReturned
<1>4. LinesInv /\ [Next]_vars
        => [\A p \in Proc : EndSelect(p) /\ Statement(p).selectAll /\ ~Statement(p).where.enabled
                               => Counts(p)]_vars
  BY <1>3
<1> QED BY <1>1, <1>2, <1>4, PTL DEF Spec, OneLineOneRow

-----------------------------------------------------------------------------
(* Answers from files of any content.  What others append is any text, so  *)
(* that a line may be long, torn or run into the next one; the argument is *)
(* about the pieces that fgets makes of it.                                *)

\* Two multiples of a number are at least that number apart.
LEMMA MultiplesApart ==
  ASSUME NEW a \in Nat, NEW b \in Nat, NEW d \in Nat \ {0}, a < b, a % d = 0, b % d = 0
  PROVE  b - a >= d
<1>1. /\ a \div d \in Int /\ b \div d \in Int
      /\ a = d * (a \div d) /\ b = d * (b \div d)
  OBVIOUS
<1>2. PICK x \in Int, y \in Int : a = d * x /\ b = d * y
  BY <1>1
<1>3. x < y
  BY <1>2
<1>4. d * (y - x) >= d
  BY <1>3
<1> QED BY <1>2, <1>4

\* The multiple after a multiple.
LEMMA NextMultiple ==
  ASSUME NEW a \in Nat, NEW d \in Nat \ {0}, a % d = 0
  PROVE  (a + d) % d = 0
<1>1. PICK b \in Nat : b = a + d
  OBVIOUS
<1>2. PICK x \in Int, y \in Int, r \in 0 .. d - 1 : a = d * x /\ b = d * y + r /\ r = b % d
  <2>1. a \div d \in Int /\ a = d * (a \div d)
    OBVIOUS
  <2>2. b \div d \in Int /\ b % d \in 0 .. d - 1 /\ b = d * (b \div d) + (b % d)
    OBVIOUS
  <2>3. PICK x, y, r : x = a \div d /\ y = b \div d /\ r = b % d
    OBVIOUS
  <2> QED BY <2>1, <2>2, <2>3
<1>3. PICK z \in Int : z = (x + 1) - y
  OBVIOUS
<1>4. d * z = r
  BY <1>1, <1>2, <1>3
<1>5. z >= 1 => d * z >= d
  OBVIOUS
<1>6. z <= 0 - 1 => d * z <= 0 - d
  OBVIOUS
<1>7. z = 0
  BY <1>2, <1>4, <1>5, <1>6
<1>8. r = 0
  BY <1>4, <1>7
<1> QED BY <1>1, <1>2, <1>8

\* One more piece at the end of a text of whole pieces, where a piece begins.
LEMMA PiecesAppended ==
  ASSUME NEW t, NEW text \in Text, WholePieces(t, text), BeginsPiece(text, Len(text) + 1),
         NEW line \in Text, NEW e \in 1 .. LineBuf - 1, e = Len(line),
         \A k \in 1 .. e - 1 : line[k] # LF,
         Len(SplitPipeLine(line)) = Len(Columns[t])
  PROVE  /\ WholePieces(t, text \o line)
         /\ line[e] = LF \/ e = LineBuf - 1 => BeginsPiece(text \o line, Len(text \o line) + 1)
<1>0. PICK both, n, d :
         both = text \o line /\ n = Len(text) /\ d = LineBuf - 1
  OBVIOUS
<1>1. /\ text \in Seq(Char) /\ line \in Seq(Char) /\ n \in Nat /\ e \in Nat \ {0} /\ d \in Nat \ {0}
      /\ e <= d /\ Len(both) = n + e /\ DOMAIN both = 1 .. n + e /\ DOMAIN text = 1 .. n
      /\ \A k \in 1 .. n : both[k] = text[k]
      /\ \A k \in 1 .. e : both[n + k] = line[k]
  <2>1. text \in Seq(Char) /\ line \in Seq(Char) /\ d \in Nat \ {0} /\ LineBuf \in Nat
    BY <1>0, SizeAssumption DEF Text
  <2>2. e \in Nat \ {0} /\ e <= d
    BY <1>0, <2>1
  <2>3. /\ n \in Nat /\ Len(both) = n + e /\ DOMAIN both = 1 .. n + e /\ DOMAIN text = 1 .. n
        /\ \A k \in 1 .. n : both[k] = text[k]
        /\ \A k \in 1 .. e : both[n + k] = line[k]
    BY <1>0, <2>1, SMTT(20)
  <2> QED BY <2>1, <2>2, <2>3
<1>2. PICK b \in 1 .. n + 1 :
        /\ b = 1 \/ text[b - 1] = LF
        /\ \A k \in b .. n : text[k] # LF
        /\ ((n + 1) - b) % d = 0
  <2>1. \E b \in 1 .. n + 1 :
          /\ b = 1 \/ text[b - 1] = LF
          /\ \A k \in b .. (n + 1) - 1 : text[k] # LF
          /\ ((n + 1) - b) % d = 0
    BY <1>0 DEF BeginsPiece
  <2>2. (n + 1) - 1 = n
    BY <1>1
  <2> QED BY <2>1, <2>2
<1>3. ASSUME NEW k \in n + 1 .. (n + e) - 1 PROVE both[k] # LF
  <2>1. PICK l \in 1 .. e - 1 : k = n + l /\ l \in 1 .. e
    <3>1. k - n \in 1 .. e - 1 /\ k = n + (k - n) /\ k - n \in 1 .. e
      BY <1>1
    <3> QED BY <3>1
  <2> QED BY <1>1, <2>1
<1>4. ASSUME NEW i \in 1 .. n + e, BeginsPiece(both, i), \A k \in i .. n : both[k] # LF
      PROVE  i = n + 1 \/ i + d <= n + 1
  <2>1. PICK c \in 1 .. i :
          /\ c = 1 \/ both[c - 1] = LF
          /\ \A k \in c .. i - 1 : both[k] # LF
          /\ (i - c) % d = 0
    BY <1>0, <1>4 DEF BeginsPiece
  <2>2. c <= n + 1
    <3> SUFFICES ASSUME ~(c <= n + 1) PROVE FALSE
      OBVIOUS
    <3>1. c # 1 /\ c - 1 \in n + 1 .. (n + e) - 1
      BY <1>1
    <3> QED BY <1>3, <2>1, <3>1
  <2>3. ASSUME NEW k \in c .. n PROVE both[k] # LF
    <3>1. k \in c .. i - 1 \/ k \in i .. n
      BY <1>1
    <3> QED BY <1>4, <2>1, <3>1
  <2>4. ~(c < b)
    <3> SUFFICES ASSUME c < b PROVE FALSE
      OBVIOUS
    <3>1. b # 1 /\ b - 1 \in c .. n /\ b - 1 \in 1 .. n
      BY <1>1
    <3> QED BY <1>1, <1>2, <2>3, <3>1
  <2>5. ~(b < c)
    <3> SUFFICES ASSUME b < c PROVE FALSE
      OBVIOUS
    <3>1. c # 1 /\ c - 1 \in b .. n /\ c - 1 \in 1 .. n
      BY <1>1, <2>2
    <3> QED BY <1>1, <1>2, <2>1, <3>1
  <2>6. b = c
    BY <1>1, <2>4, <2>5
  <2>7. PICK x \in Nat, y \in Nat : x = i - b /\ y = (n + 1) - b
    <3>1. i - b \in Nat /\ (n + 1) - b \in Nat
      BY <1>1, <2>6
    <3> QED BY <3>1
  <2>8. x % d = 0 /\ y % d = 0
    BY <1>2, <2>1, <2>6, <2>7
  <2>9. CASE x < y
    <3>1. y - x >= d
      BY <1>1, <2>8, <2>9, MultiplesApart
    <3> QED BY <1>1, <2>7, <3>1
  <2>10. CASE y < x
    <3>1. x - y >= d
      BY <1>1, <2>8, <2>10, MultiplesApart
    <3> QED BY <1>1, <2>7, <3>1
  <2>11. CASE x = y
    BY <1>1, <2>7, <2>11
  <2> QED BY <2>9, <2>10, <2>11
<1>5. SubSeq(both, n + 1, n + e) = line
  <2>1. n + 1 \in n + 1 .. n + e /\ n + e \in n + 1 .. n + e
    BY <1>1
  <2>2. SubSeq(both, n + 1, n + e) = SubSeq(line, (n + 1) - n, (n + e) - n)
    BY <1>0, <1>1, <2>1, SubSeqOfConcat2
  <2>3. (n + 1) - n = 1 /\ (n + e) - n = e
    BY <1>1
  <2>4. SubSeq(line, 1, e) = line
    BY <1>1
  <2> QED BY <2>2, <2>3, <2>4
<1>6. ASSUME NEW i \in 1 .. n + e, NEW j \in i .. n + e, IsPiece(both, i, j)
      PROVE  Len(SplitPipeLine(SubSeq(both, i, j))) = Len(Columns[t])
  <2>1. /\ BeginsPiece(both, i) /\ j - i < d
        /\ \A k \in i .. j - 1 : both[k] # LF
        /\ both[j] = LF \/ j - i = LineBuf - 2 \/ j = Len(both)
    BY <1>0, <1>6 DEF IsPiece
  <2>2. CASE j <= n
    <3>1. i \in 1 .. n /\ j \in i .. n /\ j # Len(both) /\ j \in 1 .. n
      BY <1>1, <2>2
    <3>2. BeginsPiece(text, i)
      <4>1. PICK c \in 1 .. i :
              /\ c = 1 \/ both[c - 1] = LF
              /\ \A k \in c .. i - 1 : both[k] # LF
              /\ (i - c) % (LineBuf - 1) = 0
        BY <2>1 DEF BeginsPiece
      <4>2. (c # 1 => c - 1 \in 1 .. n) /\ \A k \in c .. i - 1 : k \in 1 .. n
        BY <1>1, <3>1
      <4> QED BY <1>1, <4>1, <4>2 DEF BeginsPiece
    <3>3. \A k \in i .. j - 1 : k \in 1 .. n
      BY <1>1, <3>1
    <3>4. IsPiece(text, i, j)
      BY <1>0, <1>1, <2>1, <3>1, <3>2, <3>3 DEF IsPiece
    <3>5. Len(SplitPipeLine(SubSeq(text, i, j))) = Len(Columns[t])
      BY <1>0, <1>1, <3>1, <3>4 DEF WholePieces
    <3>6. SubSeq(both, i, j) = SubSeq(text, i, j)
      BY <1>0, <1>1, <3>1, SubSeqOfConcat1
    <3> QED BY <3>5, <3>6
  <2>3. CASE ~(j <= n)
    <3>1. \A k \in i .. n : both[k] # LF
      <4>1. \A k \in i .. n : k \in i .. j - 1
        BY <1>1, <2>3
      <4> QED BY <2>1, <4>1
    <3>2. i = n + 1 \/ i + d <= n + 1
      BY <1>4, <2>1, <3>1
    <3>3. i = n + 1
      BY <1>1, <2>1, <2>3, <3>2
    <3>4. j = n + e
      <4> SUFFICES ASSUME j # n + e PROVE FALSE
        OBVIOUS
      <4>1. j \in n + 1 .. (n + e) - 1
        <5>1. n \in Nat /\ e \in Nat
          BY <1>1
        <5> QED BY <3>3, <5>1
      <4>2. j - i # LineBuf - 2
        BY <1>0, <1>1, <3>3, <4>1, SizeAssumption
      <4> QED BY <1>1, <1>3, <2>1, <4>1, <4>2
    <3> QED BY <1>5, <3>3, <3>4
  <2> QED BY <2>2, <2>3
<1>7. WholePieces(t, both)
  BY <1>1, <1>6 DEF WholePieces
<1>8. ASSUME line[e] = LF PROVE BeginsPiece(both, (n + e) + 1)
  <2>1. PICK i \in Nat \ {0} : i = (n + e) + 1
    BY <1>1
  <2>2. i \in 1 .. i /\ i - 1 = n + e /\ i - i = 0 /\ \A k \in i .. i - 1 : FALSE
    BY <1>1, <2>1
  <2>3. both[i - 1] = LF
    <3>1. e \in 1 .. e
      BY <1>1
    <3> QED BY <1>1, <1>8, <2>2, <3>1
  <2>4. 0 % d = 0
    BY <1>1, RemainderSmall
  <2>5. BeginsPiece(both, i)
    BY <1>0, <2>2, <2>3, <2>4 DEF BeginsPiece
  <2> QED BY <2>1, <2>5
<1>9. ASSUME e = d, line[e] # LF PROVE BeginsPiece(both, (n + e) + 1)
  <2>1. PICK i \in Nat \ {0} : i = (n + e) + 1
    BY <1>1
  <2>2. b \in 1 .. i /\ i - b = ((n + 1) - b) + d /\ (n + 1) - b \in Nat
        /\ (b # 1 => b - 1 \in 1 .. n)
    BY <1>1, <1>9, <2>1
  <2>3. (i - b) % d = 0
    <3>1. PICK a \in Nat : a = (n + 1) - b /\ a % d = 0
      BY <1>2, <2>2
    <3>2. (a + d) % d = 0
      BY <1>1, <3>1, NextMultiple
    <3> QED BY <2>2, <3>1, <3>2
  <2>4. ASSUME NEW k \in b .. i - 1 PROVE both[k] # LF
    <3>1. (k \in b .. n /\ k \in 1 .. n) \/ k \in n + 1 .. (n + e) - 1 \/ k = n + e
      <4>1. n \in Nat /\ e \in Nat \ {0} /\ b \in 1 .. n + 1
        BY <1>1
      <4> QED BY <2>1, <4>1
    <3>2. both[n + e] = line[e]
      <4>1. e \in 1 .. e
        BY <1>1
      <4> QED BY <1>1, <4>1
    <3> QED BY <1>1, <1>2, <1>3, <1>9, <3>1, <3>2
  <2>5. BeginsPiece(both, i)
    BY <1>0, <1>1, <1>2, <2>2, <2>3, <2>4 DEF BeginsPiece
  <2> QED BY <2>1, <2>5
<1> QED BY <1>0, <1>1, <1>7, <1>8, <1>9

\* The buffer of a stream when its file grows, when more is read, and when fgets
\* has returned part of it.
LEMMA BufferedGrown ==
  ASSUME NEW text \in Text, NEW s \in Text, NEW off \in Nat, NEW buf \in Text, Buffered(text, off, buf)
  PROVE  Buffered(text \o s, off, buf)
<1>1. /\ Len(text) \in Nat /\ Len(s) \in Nat /\ Len(buf) \in Nat
      /\ Len(text \o s) = Len(text) + Len(s)
      /\ \A i \in 1 .. Len(text) : (text \o s)[i] = text[i]
  BY DEF Text
<1>2. Len(buf) <= off /\ off <= Len(text)
  BY DEF Buffered
<1>3. \A i \in 1 .. Len(buf) : (off - Len(buf)) + i \in 1 .. Len(text)
  BY <1>1, <1>2
<1>4. off <= Len(text \o s)
  BY <1>1, <1>2
<1> QED BY <1>1, <1>2, <1>3, <1>4 DEF Buffered

LEMMA BufferedMore ==
  ASSUME NEW text \in Text, NEW off \in Nat, NEW buf \in Text, Buffered(text, off, buf),
         NEW chunk \in Text, off + Len(chunk) <= Len(text),
         \A i \in 1 .. Len(chunk) : chunk[i] = text[off + i]
  PROVE  Buffered(text, off + Len(chunk), buf \o chunk)
<1>0. PICK n, k, both : n = Len(buf) /\ k = Len(chunk) /\ both = buf \o chunk
  OBVIOUS
<1>1. /\ n \in Nat /\ k \in Nat /\ n <= off /\ off + k <= Len(text)
      /\ \A i \in 1 .. n : buf[i] = text[(off - n) + i]
      /\ \A i \in 1 .. k : chunk[i] = text[off + i]
  BY <1>0 DEF Buffered, Text
<1>2. /\ Len(both) = n + k
      /\ \A i \in 1 .. n : both[i] = buf[i]
      /\ \A i \in 1 .. k : both[n + i] = chunk[i]
  BY <1>0 DEF Text
<1>3. ASSUME NEW i \in 1 .. n + k PROVE both[i] = text[(off - n) + i]
  <2>1. CASE i <= n
    <3>1. i \in 1 .. n
      BY <1>1, <2>1
    <3> QED BY <1>1, <1>2, <3>1
  <2>2. CASE ~(i <= n)
    <3>1. PICK j \in 1 .. k : i = n + j /\ (off - n) + i = off + j
      <4>1. i - n \in 1 .. k /\ i = n + (i - n) /\ (off - n) + i = off + (i - n)
        BY <1>1, <2>2
      <4> QED BY <4>1
    <3> QED BY <1>1, <1>2, <3>1
  <2> QED BY <2>1, <2>2
<1>4. (off + k) - (n + k) = off - n /\ n + k <= off + k
  BY <1>1
<1> QED BY <1>0, <1>1, <1>2, <1>3, <1>4 DEF Buffered

LEMMA BufferedRest ==
  ASSUME NEW text \in Text, NEW off \in Nat, NEW buf \in Text, Buffered(text, off, buf),
         NEW e \in 1 .. Len(buf)
  PROVE  /\ Buffered(text, off, SubSeq(buf, e + 1, Len(buf)))
         /\ Len(SubSeq(buf, e + 1, Len(buf))) = Len(buf) - e
<1>0. PICK n, rest : n = Len(buf) /\ rest = SubSeq(buf, e + 1, Len(buf))
  OBVIOUS
<1>1. /\ buf \in Seq(Char) /\ n \in Nat /\ e \in 1 .. n /\ n <= off /\ off <= Len(text)
      /\ \A i \in 1 .. n : buf[i] = text[(off - n) + i]
  BY <1>0 DEF Buffered, Text
<1>2. Len(rest) = n - e /\ \A i \in 1 .. n - e : rest[i] = buf[e + i]
  BY <1>0, <1>1
<1>3. ASSUME NEW i \in 1 .. n - e PROVE rest[i] = text[(off - (n - e)) + i]
  <2>1. PICK j \in 1 .. n : j = e + i /\ (off - n) + j = (off - (n - e)) + i
    <3>1. e + i \in 1 .. n /\ (off - n) + (e + i) = (off - (n - e)) + i
      BY <1>1
    <3> QED BY <3>1
  <2> QED BY <1>1, <1>2, <2>1
<1>4. n - e <= off
  BY <1>1
<1> QED BY <1>0, <1>1, <1>2, <1>3, <1>4 DEF Buffered

\* What fgets takes from its buffer is a piece: it goes up to the first newline,
\* or fills the line buffer, or is all there is.
LEMMA TakesPiece ==
  ASSUME TypeInv, NEW p \in Proc, LineReady(p), buffer[p] # <<>>
  PROVE  \E e \in 1 .. LineBuf - 1 :
           /\ e = LineLength(p) /\ e \in 1 .. Len(buffer[p])
           /\ \A k \in 1 .. e - 1 : buffer[p][k] # LF
           /\ buffer[p][e] = LF \/ e = LineBuf - 1 \/ (eof[p] /\ e = Len(buffer[p]))
<1>0. PICK w, n : w = Window(p) /\ n = Len(buffer[p])
  OBVIOUS
<1>1. /\ Len(w) \in Nat /\ Len(w) <= n /\ Len(w) <= LineBuf - 1
      /\ Len(w) = LineBuf - 1 \/ Len(w) = n
      /\ \A i \in 1 .. Len(w) : w[i] = buffer[p][i]
      /\ LineBuf - 1 \in Nat \ {0} /\ n \in Nat \ {0}
  <2>1. buffer[p] \in Text
    BY DEF TypeInv, Shapes
  <2>2. n \in Nat \ {0}
    BY <1>0, <2>1 DEF Text
  <2>3. LineBuf - 1 \in Nat \ {0}
    BY SizeAssumption
  <2>4. Len(w) \in Nat
    BY <1>0, WindowType DEF Text
  <2> QED BY <1>0, <2>2, <2>3, <2>4, WindowType
<1>2. CASE LineEnd(p) = 0
  <2>1. \A i \in 1 .. Len(w) : w[i] # LF
    BY <1>0, <1>1, <1>2, LineEndIs
  <2>2. PICK e \in Nat \ {0} : e = Len(w)
    BY <1>1
  <2>3. e = LineLength(p)
    BY <1>0, <1>2, <2>2 DEF LineLength
  <2>4. /\ e \in 1 .. LineBuf - 1 /\ e \in 1 .. n
        /\ \A k \in 1 .. e - 1 : k \in 1 .. Len(w)
    BY <1>1, <2>2
  <2>5. e = LineBuf - 1 \/ (eof[p] /\ e = n)
    BY <1>0, <1>1, <1>2, <2>2 DEF LineReady
  <2>6. \A k \in 1 .. e - 1 : buffer[p][k] # LF
    BY <1>1, <2>1, <2>4
  <2> QED BY <1>0, <2>3, <2>4, <2>5, <2>6
<1>3. CASE LineEnd(p) # 0
  <2>1. PICK e \in 1 .. Len(w) : /\ e = LineEnd(p) /\ w[e] = LF
                                /\ \A k \in 1 .. e - 1 : w[k] # LF
    BY <1>0, <1>3, LineEndIs
  <2>2. e = LineLength(p)
    BY <1>1, <2>1 DEF LineLength
  <2>3. /\ e \in 1 .. LineBuf - 1 /\ e \in 1 .. n
        /\ \A k \in 1 .. e - 1 : k \in 1 .. Len(w)
    BY <1>1, <2>1
  <2>4. buffer[p][e] = LF /\ \A k \in 1 .. e - 1 : buffer[p][k] # LF
    BY <1>1, <2>1, <2>3
  <2> QED BY <1>0, <2>2, <2>3, <2>4
<1> QED BY <1>2, <1>3

\* What fgets has returned before and after one more call.
LEMMA PieceReturned ==
  ASSUME TypeInv, NEW p \in Proc, Reading(p), NextLine(p)
  PROVE  /\ Reading(p)'
         /\ \E before \in Text, line \in Text, e \in 1 .. LineBuf - 1 :
              /\ Returned(p) = before /\ Returned(p)' = before \o line /\ e = Len(line)
              /\ \A k \in 1 .. e - 1 : line[k] # LF
              /\ line[e] = LF \/ e = LineBuf - 1 \/ (eof'[p] /\ buffer'[p] = <<>>)
              /\ Len(SplitPipeLine(line)) = Len(Columns[File(p)])
<1>1. /\ pc[p] = "fgets" /\ LineReady(p) /\ buffer[p] # <<>> /\ WellFormed(p)
      /\ File(p)' = File(p) /\ bytes' = bytes /\ eof' = eof /\ offset' = offset
      /\ buffer'[p] = SubSeq(buffer[p], LineLength(p) + 1, Len(buffer[p]))
  BY DEF NextLine, files, File, Statement, TypeInv, Shapes
<1>2. PICK text \in Text, off \in Nat, buf \in Text :
        text = bytes[File(p)] /\ off = offset[p] /\ buf = buffer[p]
  BY <1>1, ReadingType
<1>3. PICK e \in 1 .. LineBuf - 1 :
        /\ e = LineLength(p) /\ e \in 1 .. Len(buf)
        /\ \A k \in 1 .. e - 1 : buf[k] # LF
        /\ buf[e] = LF \/ e = LineBuf - 1 \/ (eof[p] /\ e = Len(buf))
  BY <1>1, <1>2, TakesPiece
<1>4. PICK rest : rest = SubSeq(buf, e + 1, Len(buf))
  OBVIOUS
<1>5. Buffered(text, off, buf)
  BY <1>2 DEF Reading
<1>6. Buffered(text, off, rest) /\ Len(rest) = Len(buf) - e
  <2>1. PICK k \in 1 .. Len(buf) : k = e
    BY <1>3
  <2>2. /\ Buffered(text, off, SubSeq(buf, k + 1, Len(buf)))
        /\ Len(SubSeq(buf, k + 1, Len(buf))) = Len(buf) - k
    BY <1>5, BufferedRest, Zenon
  <2> QED BY <1>4, <2>1, <2>2
<1>7. buffer'[p] = rest /\ offset'[p] = off /\ bytes'[File(p)'] = text
  BY <1>1, <1>2, <1>3, <1>4
<1>8. PICK n \in Nat, start \in Nat :
        /\ n = Len(buf) /\ start = off - n /\ start + n <= Len(text) /\ e \in 1 .. n
        /\ \A i \in 1 .. n : buf[i] = text[start + i]
  <2>1. Len(buf) \in Nat /\ Len(buf) <= off /\ off <= Len(text) /\ Len(text) \in Nat
    BY <1>5 DEF Buffered, Text
  <2>2. PICK n \in Nat, start \in Nat : n = Len(buf) /\ start = off - n /\ start + n <= Len(text)
    <3>1. off - Len(buf) \in Nat /\ (off - Len(buf)) + Len(buf) <= Len(text)
      BY <2>1
    <3> QED BY <2>1, <3>1
  <2> QED BY <1>3, <1>5, <2>2 DEF Buffered
<1>9. /\ Returned(p) = SubSeq(text, 1, start)
      /\ Returned(p)' = SubSeq(text, 1, start + e)
  <2>1. off - Len(rest) = start + e
    BY <1>6, <1>8
  <2> QED BY <1>1, <1>2, <1>7, <1>8, <2>1 DEF Returned
<1>10. PICK line, before : line = SubSeq(text, start + 1, start + e) /\ before = SubSeq(text, 1, start)
  OBVIOUS
<1>11. /\ line \in Text /\ Len(line) = e /\ \A i \in 1 .. e : line[i] = text[start + i]
       /\ before \in Text /\ SubSeq(text, 1, start + e) = before \o line
  <2>1. e \in Nat \ {0} /\ start + e <= Len(text)
    BY <1>8
  <2>2. NextPart(text, start, e, line)
    BY <1>10, <2>1, PrefixGrows
  <2> QED BY <1>10, <2>2 DEF NextPart
<1>12. \A i \in 1 .. e : line[i] = buf[i]
  <2>1. \A i \in 1 .. e : i \in 1 .. n
    BY <1>8
  <2> QED BY <1>8, <1>11, <2>1
<1>13. SubSeq(buf, 1, e) = line
  <2>1. buf \in Seq(Char) /\ line \in Seq(Char) /\ e \in Nat /\ e <= n
    BY <1>8, <1>11 DEF Text
  <2>2. PICK piece : piece = SubSeq(buf, 1, e)
    OBVIOUS
  <2>3. piece \in Seq(Char) /\ Len(piece) = e /\ \A i \in 1 .. e : piece[i] = buf[i]
    BY <1>8, <2>1, <2>2
  <2> QED BY <1>11, <1>12, <2>1, <2>2, <2>3, SeqEqual
<1>14. Len(SplitPipeLine(line)) = Len(Columns[File(p)])
  BY <1>1, <1>2, <1>3, <1>13 DEF WellFormed, LineValues
<1>15. line[e] = LF \/ e = LineBuf - 1 \/ (eof'[p] /\ buffer'[p] = <<>>)
  <2>1. e \in 1 .. e
    BY <1>8
  <2>2. line[e] = buf[e]
    BY <1>12, <2>1
  <2>3. e = n => rest = <<>>
    <3>1. buf \in Seq(Char)
      BY DEF Text
    <3> QED BY <1>4, <1>8, <3>1
  <2> QED BY <1>1, <1>3, <1>7, <1>8, <2>2, <2>3
<1>16. \A k \in 1 .. e - 1 : line[k] # LF
  <2>1. \A k \in 1 .. e - 1 : k \in 1 .. e
    BY <1>8
  <2> QED BY <1>3, <1>12, <2>1
<1>17. Reading(p)'
  BY <1>6, <1>7 DEF Reading
<1> QED BY <1>9, <1>10, <1>11, <1>14, <1>15, <1>16, <1>17

\* Everything that fgets has returned has been checked, piece by piece, and the
\* next piece begins where the last one ended, unless it was the end of the file.
AtPiece(p) ==
  /\ Reading(p)
  /\ WholePieces(File(p), Returned(p))
  /\ BeginsPiece(Returned(p), Len(Returned(p)) + 1) \/ (eof[p] /\ buffer[p] = <<>>)

PiecesInv == /\ GrowInv /\ Checked /\ Printed
             /\ \A p \in Proc : pc[p] = "fgets" => AtPiece(p)

LEMMA PiecesNext ==
  ASSUME NothingErased, PiecesInv, [Next]_vars
  PROVE  PiecesInv'
<1>0. /\ GrowInv /\ TypeInv /\ Checked /\ Printed
      /\ pc \in [Proc -> {pc[r] : r \in Proc}] /\ offset \in [Proc -> Nat]
      /\ buffer \in [Proc -> Text] /\ eof \in [Proc -> BOOLEAN]
  BY DEF PiecesInv, GrowInv, TypeInv, Shapes
<1> SUFFICES ASSUME NEW q \in Proc, pc'[q] = "fgets" PROVE AtPiece(q)'
  BY <1>0, GrowNext, CheckedNext, PrintedNext DEF PiecesInv
<1>1. pc[q] = "fgets" => AtPiece(q)
  BY DEF PiecesInv
<1>2. ASSUME Untouched(q), script' = script PROVE AtPiece(q)'
  <2>1. /\ pc[q] = "fgets" /\ File(q)' = File(q)
        /\ offset'[q] = offset[q] /\ buffer'[q] = buffer[q] /\ eof'[q] = eof[q]
    BY <1>2 DEF Untouched, File, Statement
  <2>2. AtPiece(q) /\ Reading(q)
    BY <1>1, <2>1 DEF AtPiece
  <2>3. Returned(q)' = Returned(q)
    BY <1>0, <2>1, <2>2, ReturnedStays
  <2>4. PICK text \in Text, off \in Nat, buf \in Text :
          text = bytes[File(q)] /\ off = offset[q] /\ buf = buffer[q]
    BY <1>0, <2>1, ReadingType
  <2>5. PICK s \in Text : bytes'[File(q)] = text \o s
    <3>1. File(q) \in Table
      BY <1>0, <2>1, ReadingType
    <3> QED BY <1>0, <2>4, <3>1, FilesGrow
  <2>6. Buffered(text \o s, off, buf)
    BY <2>2, <2>4, BufferedGrown DEF Reading
  <2>7. Reading(q)'
    BY <2>1, <2>4, <2>5, <2>6 DEF Reading
  <2> QED BY <2>1, <2>2, <2>3, <2>7 DEF AtPiece
<1>3. CASE OpenRead(q)
  <2>1. /\ File(q)' = File(q) /\ bytes' = bytes /\ offset'[q] = 0 /\ buffer'[q] = <<>>
        /\ Returned(q)' = <<>> /\ bytes[File(q)] \in Text
    <3>1. File(q) \in Table
      BY <1>0, <1>3, CurrentStatement DEF OpenRead, Selecting
    <3> QED BY <1>0, <1>3, <3>1, NothingReturned DEF OpenRead, files, File, Statement, TypeInv, Shapes
  <2>2. Reading(q)'
    <3>1. Len(bytes[File(q)]) \in Nat /\ Len(<<>>) = 0
      BY <2>1 DEF Text
    <3>2. Buffered(bytes[File(q)], 0, <<>>)
      BY <3>1 DEF Buffered
    <3> QED BY <2>1, <3>2 DEF Reading
  <2>3. WholePieces(File(q)', <<>>)
    <3>1. DOMAIN <<>> = {}
      OBVIOUS
    <3> QED BY <3>1 DEF WholePieces
  <2>4. BeginsPiece(<<>>, 1)
    <3>1. 0 % (LineBuf - 1) = 0
      <4>1. LineBuf - 1 \in Nat \ {0} /\ 0 < LineBuf - 1
        BY SizeAssumption
      <4> QED BY <4>1, RemainderSmall
    <3>2. 1 \in 1 .. 1 /\ 1 - 1 = 0 /\ \A k \in 1 .. 1 - 1 : FALSE
      OBVIOUS
    <3> QED BY <3>1, <3>2 DEF BeginsPiece
  <2>5. Len(<<>>) + 1 = 1
    OBVIOUS
  <2> QED BY <2>1, <2>2, <2>3, <2>4, <2>5 DEF AtPiece
<1>4. CASE Refill(q)
  <2>1. /\ Returned(q)' = Returned(q)
        /\ pc[q] = "fgets" /\ ~LineReady(q) /\ File(q)' = File(q) /\ bytes' = bytes
        /\ offset'[q] = offset[q] + Len(Chunk(q)) /\ buffer'[q] = buffer[q] \o Chunk(q)
    BY <1>0, <1>4, RefillReturns
  <2>2. AtPiece(q) /\ ~eof[q]
    BY <1>1, <2>1 DEF LineReady
  <2>3. PICK text \in Text, off \in Nat, buf \in Text :
          text = bytes[File(q)] /\ off = offset[q] /\ buf = buffer[q]
    BY <1>0, <2>1, ReadingType
  <2>4. Buffered(text, off, buf) /\ off <= Len(text)
    BY <2>2, <2>3 DEF AtPiece, Reading, Buffered
  <2>5. PICK chunk \in Text :
          /\ chunk = Chunk(q) /\ off + Len(chunk) <= Len(text)
          /\ \A i \in 1 .. Len(chunk) : chunk[i] = text[off + i]
    BY <1>0, <2>3, <2>4, ChunkIs
  <2>6. Buffered(text, off + Len(chunk), buf \o chunk)
    BY <2>4, <2>5, BufferedMore
  <2>7. Reading(q)'
    BY <2>1, <2>3, <2>5, <2>6 DEF Reading
  <2> QED BY <2>1, <2>2, <2>7 DEF AtPiece
<1>5. CASE NextLine(q)
  <2>1. pc[q] = "fgets" /\ File(q)' = File(q) /\ Columns' = Columns
    BY <1>5 DEF NextLine, File, Statement
  <2>2. AtPiece(q) /\ Reading(q)
    BY <1>1, <2>1 DEF AtPiece
  <2>3. BeginsPiece(Returned(q), Len(Returned(q)) + 1)
    BY <1>5, <2>2 DEF AtPiece, NextLine
  <2>4. PICK before \in Text, line \in Text, e \in 1 .. LineBuf - 1 :
          /\ Returned(q) = before /\ Returned(q)' = before \o line /\ e = Len(line)
          /\ \A k \in 1 .. e - 1 : line[k] # LF
          /\ line[e] = LF \/ e = LineBuf - 1 \/ (eof'[q] /\ buffer'[q] = <<>>)
          /\ Len(SplitPipeLine(line)) = Len(Columns[File(q)])
    BY <1>0, <1>5, <2>2, PieceReturned
  <2>5. PICK t : t = File(q)
    OBVIOUS
  <2>6. WholePieces(t, before) /\ BeginsPiece(before, Len(before) + 1)
    BY <2>2, <2>3, <2>4, <2>5 DEF AtPiece
  <2>7. /\ WholePieces(t, before \o line)
        /\ line[e] = LF \/ e = LineBuf - 1 => BeginsPiece(before \o line, Len(before \o line) + 1)
    BY <2>4, <2>5, <2>6, PiecesAppended
  <2>8. Reading(q)'
    BY <1>0, <1>5, <2>2, PieceReturned
  <2> QED BY <2>1, <2>4, <2>5, <2>7, <2>8 DEF AtPiece
<1>6. CASE UNCHANGED vars
  <2>1. Untouched(q) /\ script' = script
    BY <1>6 DEF vars, reader, Untouched
  <2> QED BY <1>2, <2>1
<1>7. ASSUME NEW p \in Proc, Step(p) \/ Kill(p) PROVE AtPiece(q)'
  <2>1. CASE p # q
    BY <1>0, <1>2, <1>7, <2>1, OthersUntouched
  <2>2. CASE p = q
    BY <1>0, <1>3, <1>4, <1>5, <1>7, <2>2, OwnStep
  <2> QED BY <2>1, <2>2
<1> QED BY <1>6, <1>7 DEF Next, Done

\* Whatever the data files hold, and however long their lines and the rows are
\* that others append to them, whole or in parts: a SELECT that prints a result
\* has read nothing but pieces of as many values as the table has columns.  No
\* number of invocations that append and die can make it answer from a piece
\* that fgets did not return in full.
THEOREM PiecesChecked ==
  ASSUME NothingErased
  PROVE  Spec => NoMalformedPiece
<1>1. Init => PiecesInv
  <2>1. Init => \A p \in Proc : pc[p] = "parse"
    BY DEF Init
  <2>2. Init => Checked
    BY <2>1 DEF Checked, Selecting
  <2> QED BY <2>1, <2>2, GrowInit, PrintedInit DEF PiecesInv
<1>2. PiecesInv /\ [Next]_vars => PiecesInv'
  BY PiecesNext
<1>3. PiecesInv => \A p \in Proc : EndSelect(p) \/ ReadFails(p) => WholePieces(File(p), Returned(p))
  BY DEF PiecesInv, AtPiece, EndSelect, ReadFails
<1>4. PiecesInv /\ [Next]_vars
        => [\A p \in Proc : EndSelect(p) \/ ReadFails(p) => WholePieces(File(p), Returned(p))]_vars
  BY <1>3
<1> QED BY <1>1, <1>2, <1>4, PTL DEF Spec, NoMalformedPiece
=============================================================================
