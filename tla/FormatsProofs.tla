--------------------------- MODULE FormatsProofs ---------------------------
(***************************************************************************)
(* What the program does to texts, for texts, lists and rows of every      *)
(* length: what a row written to a .data file is worth to its readers, and *)
(* that the buffers are large enough for what is put into them, and that   *)
(* a table drawn of texts is aligned.                                      *)
(***************************************************************************)
EXTENDS RowFormatProofs, RowFormatCheck, ResultTableCheck, Buffers

-----------------------------------------------------------------------------
(* The row format.                                                         *)

\* The lines that are looked at are texts.
LEMMA LineType ==
  LineSpec => [](line \in Text)
<1>1. LineInit => line \in Text
  BY DEF LineInit, Text
<1>2. line \in Text /\ [LineNext]_line => (line \in Text)'
  BY DEF LineNext, Text
<1> QED BY <1>1, <1>2, PTL DEF LineSpec

\* Reading inverts writing: whatever values a line holds, serialize_row writes
\* them so that split_pipe_line returns the same values.
THEOREM RoundTrips == LineSpec => []RoundTrip
<1>1. line \in Text => RoundTrip
  BY SplitPipeLineType, SplitSerializeRow DEF RoundTrip, ValueLists
<1> QED BY <1>1, LineType, PTL

\* serialize_row writes one line: a value with newlines in it can never begin a
\* second one.
THEOREM OneLines == LineSpec => []OneLinePerRow
<1>1. line \in Text => OneLinePerRow
  BY SplitPipeLineType, SerializeRowOneLine DEF OneLinePerRow
<1> QED BY <1>1, LineType, PTL

-----------------------------------------------------------------------------
(* split_pipe_line against the reference definition.                       *)

\* How many backslashes come right before a place.
LEMMA RunNext ==
  ASSUME NEW text \in Text
  PROVE  /\ Run(text, 1) = 0
         /\ \A i \in 1 .. Len(text) :
              /\ Run(text, i) \in Nat
              /\ Run(text, i + 1) = IF text[i] = Bslash THEN Run(text, i) + 1 ELSE 0
<1> DEFINE Other(i) == {0} \cup {j \in 1 .. i - 1 : text[j] # Bslash}
<1>1. Other(1) = {0} /\ Max({0}) = 0
  <2>1. Max({0}) = 0
    BY MaxIs
  <2> QED BY <2>1
<1>2. ASSUME NEW i \in 1 .. Len(text)
      PROVE  /\ Run(text, i) \in Nat
             /\ Run(text, i + 1) = IF text[i] = Bslash THEN Run(text, i) + 1 ELSE 0
  <2>1. PICK T, U : T = Other(i) /\ U = Other(i + 1)
    OBVIOUS
  <2>0. i \in Nat \ {0} /\ i - 1 \in Nat /\ (i + 1) - 1 = i
    BY DEF Text
  <2>2. /\ T \subseteq 0 .. i - 1 /\ 0 \in T
        /\ U = IF text[i] = Bslash THEN T ELSE T \cup {i}
    BY <2>0, <2>1
  <2>3. PICK m \in T : \A y \in T : y <= m
    BY <2>0, <2>2, GreatestNat
  <2>4. m \in 0 .. i - 1 /\ Max(T) = m
    <3>1. T \subseteq Nat
      BY <2>0, <2>2
    <3> QED BY <2>2, <2>3, <3>1, MaxIs
  <2>5. Run(text, i) = i - 1 - Max(T) /\ Run(text, i + 1) = i - Max(U)
    BY <2>0, <2>1 DEF Run
  <2>6. CASE text[i] = Bslash
    BY <2>0, <2>2, <2>4, <2>5, <2>6
  <2>7. CASE text[i] # Bslash
    <3>1. U \subseteq Nat /\ i \in U /\ \A y \in U : y <= i
      BY <2>0, <2>2, <2>7
    <3>2. Max(U) = i
      BY <3>1, MaxIs
    <3> QED BY <2>0, <2>4, <2>5, <2>7, <3>2
  <2> QED BY <2>6, <2>7
<1> QED BY <1>1, <1>2 DEF Run

\* A scan from left to right meets the escapes of the definition, and no two
\* of them overlap.
LEMMA EscapeStarts ==
  ASSUME NEW text \in Text, NEW i \in 1 .. Len(text)
  PROVE  /\ i \notin Escaped(text) => (i \in Starts(text) <=> IsEscape(text, i))
         /\ i \in Starts(text) => i + 1 \in Escaped(text) /\ i + 1 \notin Starts(text)
         /\ i \notin Starts(text) => i + 1 \notin Escaped(text)
<1> DEFINE Even(r) == r % 2 = 0
<1>1. \A j \in 1 .. Len(text) : j \in Starts(text) <=> IsEscape(text, j) /\ Even(Run(text, j))
  BY DEF Starts, IsEscape, Text
<1>2. \A j \in Int : j + 1 \in Escaped(text) <=> j \in Starts(text)
  BY DEF Starts, Escaped, Text
<1>3. \A r \in Nat : Even(r + 1) <=> ~Even(r)
  OBVIOUS
<1>4. Even(0)
  OBVIOUS
<1> HIDE DEF Even
<1>5. ASSUME i \notin Escaped(text), IsEscape(text, i) PROVE Even(Run(text, i))
  <2>1. CASE i = 1
    BY <1>4, <2>1, RunNext
  <2>2. CASE i # 1
    <3>1. PICK j \in 1 .. Len(text) : i = j + 1
      <4>1. i - 1 \in 1 .. Len(text) /\ i = (i - 1) + 1
        BY <2>2 DEF Text
      <4> QED BY <4>1
    <3>2. j \notin Starts(text)
      BY <1>2, <1>5, <3>1
    <3>3. Run(text, j) \in Nat /\ Run(text, i) = IF text[j] = Bslash THEN Run(text, j) + 1 ELSE 0
      BY <3>1, RunNext
    <3>4. text[j] = Bslash => IsEscape(text, j)
      <4>1. j < Len(text) /\ text[j + 1] = Bslash
        BY <1>5, <3>1 DEF IsEscape, Text
      <4> QED BY <4>1 DEF IsEscape
    <3> QED BY <1>1, <1>3, <1>4, <3>2, <3>3, <3>4
  <2> QED BY <2>1, <2>2
<1>6. i + 1 \in Starts(text) => i \notin Starts(text)
  <2> SUFFICES ASSUME i + 1 \in Starts(text), i \in Starts(text) PROVE FALSE
    OBVIOUS
  <2>1. i + 1 \in 1 .. Len(text) /\ text[i] = Bslash /\ Even(Run(text, i)) /\ Even(Run(text, i + 1))
    BY <1>1 DEF Starts, Text
  <2>2. Run(text, i) \in Nat /\ Run(text, i + 1) = Run(text, i) + 1
    BY <2>1, RunNext
  <2> QED BY <1>3, <2>1, <2>2
<1> QED BY <1>1, <1>2, <1>5, <1>6

\* The values between bounds, and the bounds from a place on.
Values(text, bounds) == [k \in 1 .. Len(bounds) - 1 |-> Between(text, bounds[k], bounds[k + 1])]
Ends(text, i) == InOrder(Separators(text) \cap i .. Len(text), Len(text)) \o <<Len(text) + 1>>
ReferenceFrom(text, i) == Values(text, <<i - 1>> \o Ends(text, i))

\* A value grows by the character before it, if that counts.
LEMMA BetweenNext ==
  ASSUME NEW text \in Text, NEW i \in 1 .. Len(text), NEW right \in i + 1 .. Len(text) + 1
  PROVE  /\ Between(text, i - 1, right) \in Text
         /\ Between(text, i - 1, i) = <<>>
         /\ i \notin Kept(text) => Between(text, i - 1, right) = Between(text, i, right)
         /\ i \in Kept(text) =>
              Between(text, i - 1, right) = <<Meant(text, i)>> \o Between(text, i, right)
<1>0. /\ i \in Nat /\ i - 1 \in Nat /\ (i - 1) + 1 = i /\ right \in Nat /\ right - 1 \in Nat
      /\ i \in 1 .. right - 1
      /\ right - 1 <= Len(text) /\ Len(text) \in Nat /\ text \in Seq(Char) /\ DOMAIN text = 1 .. Len(text)
  BY DEF Text
<1>1. PICK A, B, n : /\ A = Kept(text) \cap i .. right - 1 /\ n = right - 1 /\ n \in Nat
                     /\ B = Kept(text) \cap i + 1 .. right - 1
  BY <1>0
<1>2. /\ Between(text, i - 1, right) = [k \in DOMAIN InOrder(A, n) |-> Meant(text, InOrder(A, n)[k])]
      /\ Between(text, i, right) = [k \in DOMAIN InOrder(B, n) |-> Meant(text, InOrder(B, n)[k])]
  BY <1>0, <1>1 DEF Between
<1>3. Kept(text) \subseteq 1 .. Len(text)
  BY <1>0 DEF Kept
<1>4. ASSUME NEW k \in Kept(text) PROVE Meant(text, k) \in Char
  <2>1. text[k] \in Char
    BY <1>0, <1>3
  <2> QED BY <2>1, CharAssumption DEF Meant, Unescaped
<1>5. PICK a, b : /\ a = InOrder(A, n) /\ a \in Seq(Kept(text))
                  /\ b = InOrder(B, n) /\ b \in Seq(Kept(text))
  <2>1. PICK a, b, C, D : a = InOrder(A, n) /\ b = InOrder(B, n) /\ C = A \cap 1 .. n /\ D = B \cap 1 .. n
    OBVIOUS
  <2>2. a \in Seq(C) /\ b \in Seq(D) /\ C \subseteq Kept(text) /\ D \subseteq Kept(text)
    BY <1>1, <2>1, InOrderType
  <2>3. a \in Seq(Kept(text)) /\ b \in Seq(Kept(text))
    BY <2>2, SeqSubset
  <2> QED BY <2>1, <2>3
<1>10. /\ Between(text, i - 1, right) = [k \in 1 .. Len(a) |-> Meant(text, a[k])]
       /\ Between(text, i, right) = [k \in 1 .. Len(b) |-> Meant(text, b[k])]
  <2>1. DOMAIN a = 1 .. Len(a) /\ DOMAIN b = 1 .. Len(b)
    BY <1>5
  <2>2. /\ Between(text, i - 1, right) = [k \in DOMAIN a |-> Meant(text, a[k])]
        /\ Between(text, i, right) = [k \in DOMAIN b |-> Meant(text, b[k])]
    BY <1>2, <1>5
  <2> QED BY <2>1, <2>2
<1>6. Between(text, i - 1, right) \in Text
  <2>1. Between(text, i - 1, right) = [k \in 1 .. Len(a) |-> Meant(text, a[k])]
    BY <1>10
  <2>2. \A k \in 1 .. Len(a) : Meant(text, a[k]) \in Char
    BY <1>4, <1>5
  <2>3. Len(a) \in Nat
    BY <1>5
  <2> QED BY <2>1, <2>2, <2>3 DEF Text
<1>7. Between(text, i - 1, i) = <<>>
  <2>1. PICK C : C = Kept(text) \cap i .. i - 1
    OBVIOUS
  <2>2. C \cap 1 .. i - 1 = {}
    BY <2>1, <1>0
  <2>3. InOrder(C, i - 1) = <<>>
    BY <1>0, <2>2, InOrderNone
  <2>4. Between(text, i - 1, i) = [k \in DOMAIN InOrder(C, i - 1) |-> Meant(text, InOrder(C, i - 1)[k])]
    BY <1>0, <2>1 DEF Between
  <2> QED BY <2>3, <2>4
<1>8. ASSUME i \notin Kept(text) PROVE Between(text, i - 1, right) = Between(text, i, right)
  <2>1. A = B
    BY <1>0, <1>1, <1>8
  <2> QED BY <1>2, <2>1
<1>9. ASSUME i \in Kept(text)
      PROVE  Between(text, i - 1, right) = <<Meant(text, i)>> \o Between(text, i, right)
  <2>1. i \in A /\ i \in 1 .. n /\ A \cap 1 .. i - 1 = {} /\ B = A \ {i}
    BY <1>0, <1>1, <1>9
  <2>2. a = <<i>> \o b
    <3>1. InOrder(A, n) = <<i>> \o InOrder(A \ {i}, n)
      BY <1>1, <2>1, InOrderCons
    <3> QED BY <1>5, <2>1, <3>1
  <2>3. /\ Len(b) \in Nat /\ Len(a) = Len(b) + 1 /\ a[1] = i
        /\ \A k \in 1 .. Len(b) : a[k + 1] = b[k]
    BY <1>5, <2>2
  <2>4. PICK s, t : s = Between(text, i - 1, right) /\ t = <<Meant(text, i)>> \o Between(text, i, right)
    OBVIOUS
  <2>5. PICK y : y = Between(text, i, right)
    OBVIOUS
  <2>6. s = [k \in 1 .. Len(a) |-> Meant(text, a[k])] /\ y = [k \in 1 .. Len(b) |-> Meant(text, b[k])]
    BY <1>10, <2>4, <2>5
  <2>7. y \in Seq(Char) /\ Len(y) = Len(b) /\ Meant(text, i) \in Char
    <3>1. \A k \in 1 .. Len(b) : Meant(text, b[k]) \in Char
      BY <1>4, <1>5
    <3> QED BY <1>4, <1>9, <2>3, <2>6, <3>1
  <2>8. t \in Seq(Char) /\ Len(t) = Len(b) + 1 /\ t[1] = Meant(text, i) /\ \A k \in 1 .. Len(b) : t[k + 1] = y[k]
    BY <2>3, <2>4, <2>5, <2>7
  <2>9. s \in Seq(Char) /\ Len(s) = Len(b) + 1
    BY <1>6, <2>3, <2>4, <2>6 DEF Text
  <2>10. ASSUME NEW k \in 1 .. Len(b) + 1 PROVE s[k] = t[k]
    <3>1. CASE k = 1
      BY <2>3, <2>6, <2>8, <3>1
    <3>2. CASE k # 1
      <4>1. PICK j \in 1 .. Len(b) : k = j + 1
        <5>1. k - 1 \in 1 .. Len(b) /\ k = (k - 1) + 1
          BY <2>3, <3>2
        <5> QED BY <5>1
      <4>2. s[k] = Meant(text, a[k]) /\ t[k] = y[j] /\ y[j] = Meant(text, b[j]) /\ a[k] = b[j]
        BY <2>3, <2>6, <2>8, <4>1
      <4> QED BY <4>2
    <3> QED BY <3>1, <3>2
  <2>11. s = t
    BY <2>8, <2>9, <2>10, SeqEqual
  <2> QED BY <2>4, <2>11
<1> QED BY <1>6, <1>7, <1>8, <1>9

\* The ends of the values that begin at a place or after it.
LEMMA EndsNext ==
  ASSUME NEW text \in Text, NEW i \in 1 .. Len(text)
  PROVE  /\ Ends(text, i + 1) \in Seq(i + 1 .. Len(text) + 1) \ {<<>>}
         /\ i \notin Separators(text) => Ends(text, i) = Ends(text, i + 1)
         /\ i \in Separators(text) => Ends(text, i) = <<i>> \o Ends(text, i + 1)
<1>0. i \in Nat /\ Len(text) \in Nat /\ Separators(text) \subseteq 1 .. Len(text)
  BY DEF Text, Separators
<1>1. PICK A, B, n : /\ A = Separators(text) \cap i .. Len(text) /\ n = Len(text) /\ n \in Nat
                     /\ B = Separators(text) \cap i + 1 .. Len(text)
  BY <1>0
<1>2. PICK b, R : b = InOrder(B, n) /\ R = i + 1 .. n + 1 /\ b \in Seq(R)
  <2>1. PICK b, D : b = InOrder(B, n) /\ D = B \cap 1 .. n
    OBVIOUS
  <2>2. b \in Seq(D) /\ D \subseteq i + 1 .. n + 1
    BY <1>0, <1>1, <2>1, InOrderType
  <2>3. b \in Seq(i + 1 .. n + 1)
    BY <2>2, SeqSubset
  <2> QED BY <2>1, <2>3
<1>3. n + 1 \in R /\ <<n + 1>> \in Seq(R)
  BY <1>0, <1>1, <1>2
<1>4. Ends(text, i + 1) = b \o <<n + 1>> /\ Ends(text, i) = InOrder(A, n) \o <<n + 1>>
  BY <1>1, <1>2 DEF Ends
<1>5. b \o <<n + 1>> \in Seq(R) /\ b \o <<n + 1>> # <<>>
  BY <1>2, <1>3
<1>6. ASSUME i \notin Separators(text) PROVE Ends(text, i) = Ends(text, i + 1)
  <2>1. A = B
    BY <1>0, <1>1, <1>6
  <2> QED BY <1>2, <1>4, <2>1
<1>7. ASSUME i \in Separators(text) PROVE Ends(text, i) = <<i>> \o Ends(text, i + 1)
  <2>1. i \in A /\ i \in 1 .. n /\ A \cap 1 .. i - 1 = {} /\ B = A \ {i}
    BY <1>0, <1>1, <1>7
  <2>2. InOrder(A, n) = <<i>> \o b
    <3>1. InOrder(A, n) = <<i>> \o InOrder(A \ {i}, n)
      BY <1>1, <2>1, InOrderCons
    <3> QED BY <1>2, <2>1, <3>1
  <2>3. R \subseteq Nat /\ i \in Nat
    BY <1>0, <1>2
  <2>4. b \in Seq(Nat) /\ <<n + 1>> \in Seq(Nat) /\ <<i>> \in Seq(Nat)
    BY <1>2, <1>3, <2>3, SeqSubset
  <2>5. (<<i>> \o b) \o <<n + 1>> = <<i>> \o (b \o <<n + 1>>)
    BY <2>4, ConcatAssociative
  <2> QED BY <1>4, <2>2, <2>5
<1>8. R = i + 1 .. Len(text) + 1
  BY <1>1, <1>2
<1> QED BY <1>4, <1>5, <1>6, <1>7, <1>8

\* The reference, place by place.
LEMMA ReferenceNext ==
  ASSUME NEW text \in Text, NEW i \in 1 .. Len(text)
  PROVE  /\ i \in Separators(text) =>
              ReferenceFrom(text, i) = << <<>> >> \o ReferenceFrom(text, i + 1)
         /\ i \notin Separators(text) /\ i \notin Kept(text) =>
              ReferenceFrom(text, i) = ReferenceFrom(text, i + 1)
         /\ i \notin Separators(text) /\ i \in Kept(text) =>
              ReferenceFrom(text, i)
                = [ReferenceFrom(text, i + 1) EXCEPT ![1] = <<Meant(text, i)>> \o @]
<1>0. i \in Nat /\ i - 1 \in Nat /\ (i + 1) - 1 = i /\ Len(text) \in Nat
  BY DEF Text
<1>1. PICK ends, m : ends = Ends(text, i + 1) /\ m = Len(ends)
  OBVIOUS
<1>2. ends \in Seq(i + 1 .. Len(text) + 1) \ {<<>>} /\ m \in Nat \ {0}
  <2>1. PICK R : R = i + 1 .. Len(text) + 1
    OBVIOUS
  <2>2. ends \in Seq(R) \ {<<>>}
    BY <1>1, <2>1, EndsNext
  <2>3. m \in Nat \ {0}
    BY <1>1, <2>2
  <2> QED BY <2>1, <2>2, <2>3
<1>3. PICK later : later = ReferenceFrom(text, i + 1)
  OBVIOUS
<1>4. later = [k \in 1 .. m |-> Between(text, (<<i>> \o ends)[k], (<<i>> \o ends)[k + 1])]
  <2>1. later = Values(text, <<i>> \o ends)
    BY <1>0, <1>1, <1>3 DEF ReferenceFrom
  <2>2. Len(<<i>> \o ends) - 1 = m
    BY <1>1, <1>2
  <2> QED BY <2>1, <2>2 DEF Values
<1>5. /\ (<<i>> \o ends)[1] = i /\ (<<i>> \o ends)[2] = ends[1]
      /\ \A k \in 2 .. m : (<<i>> \o ends)[k] = ends[k - 1] /\ (<<i>> \o ends)[k + 1] = ends[k]
      /\ ends[1] \in i + 1 .. Len(text) + 1
  BY <1>1, <1>2
<1>6. CASE i \in Separators(text)
  <2>1. PICK before : before = <<i>> \o ends
    OBVIOUS
  <2>2. before \in Seq(i .. Len(text) + 1) /\ Len(before) = m + 1 /\ before[1] = i
    <3>1. ends \in Seq(i .. Len(text) + 1)
      <4>1. i + 1 .. Len(text) + 1 \subseteq i .. Len(text) + 1
        BY <1>0
      <4> QED BY <1>2, <4>1, SeqSubset
    <3>2. <<i>> \in Seq(i .. Len(text) + 1)
      BY <1>0
    <3> QED BY <1>1, <1>2, <2>1, <3>1, <3>2
  <2>3. ReferenceFrom(text, i) = Values(text, <<i - 1>> \o before)
    BY <1>1, <1>6, <2>1, EndsNext DEF ReferenceFrom
  <2>4. /\ Len(<<i - 1>> \o before) = m + 2 /\ (<<i - 1>> \o before)[1] = i - 1
        /\ \A k \in 1 .. m + 1 : (<<i - 1>> \o before)[k + 1] = before[k]
    BY <1>0, <1>2, <2>2
  <2>5. PICK all : all = <<i - 1>> \o before
    OBVIOUS
  <2>6. ReferenceFrom(text, i) = [k \in 1 .. m + 1 |-> Between(text, all[k], all[k + 1])]
    BY <1>2, <2>3, <2>4, <2>5, SMTT(20) DEF Values
  <2>7. Between(text, all[1], all[2]) = <<>>
    <3>1. all[1] = i - 1 /\ all[2] = i
      BY <1>2, <2>2, <2>4, <2>5
    <3>2. i + 1 \in i + 1 .. Len(text) + 1
      BY <1>0
    <3> QED BY <3>1, <3>2, BetweenNext, ZenonT(30)
  <2>8. ASSUME NEW k \in 1 .. m PROVE Between(text, all[k + 1], all[(k + 1) + 1]) = later[k]
    <3>1. all[k + 1] = before[k] /\ all[(k + 1) + 1] = before[k + 1]
      BY <1>2, <2>4, <2>5
    <3> QED BY <1>4, <2>1, <3>1
  <2>9. PICK now : now = ReferenceFrom(text, i)
    OBVIOUS
  <2>10. /\ DOMAIN now = 1 .. m + 1 /\ now = [k \in 1 .. m + 1 |-> now[k]] /\ now[1] = <<>>
         /\ \A k \in 1 .. m : now[k + 1] = later[k]
    BY <1>2, <2>6, <2>7, <2>8, <2>9
  <2>11. /\ DOMAIN later = 1 .. m /\ later = [k \in 1 .. m |-> later[k]]
    BY <1>4
  <2>12. PICK T : T = {later[k] : k \in 1 .. m} \cup {<<>>}
    OBVIOUS
  <2>13. later \in Seq(T) /\ Len(later) = m /\ << <<>> >> \in Seq(T)
    BY <1>2, <2>11, <2>12, SMTT(20)
  <2>14. now \in Seq(T) /\ Len(now) = m + 1
    <3>1. ASSUME NEW k \in 1 .. m + 1 PROVE now[k] \in T
      <4>1. k = 1 \/ (k - 1 \in 1 .. m /\ k = (k - 1) + 1)
        BY <1>2
      <4> QED BY <2>10, <2>12, <4>1, SMTT(20)
    <3>2. now = [k \in 1 .. m + 1 |-> now[k]] /\ m + 1 \in Nat
      BY <1>2, <2>10
    <3> QED BY <3>1, <3>2
  <2>15. PICK both : both = << <<>> >> \o later
    OBVIOUS
  <2>16. /\ both \in Seq(T) /\ Len(both) = m + 1 /\ both[1] = <<>>
         /\ \A k \in 1 .. m : both[k + 1] = later[k]
    BY <1>2, <2>13, <2>15, SMTT(20)
  <2>17. ASSUME NEW k \in 1 .. m + 1 PROVE now[k] = both[k]
    <3>1. k = 1 \/ (k - 1 \in 1 .. m /\ k = (k - 1) + 1)
      BY <1>2
    <3> QED BY <2>10, <2>16, <3>1
  <2>18. now = both
    BY <2>14, <2>16, <2>17, SeqEqual
  <2> QED BY <1>3, <1>6, <2>9, <2>15, <2>18
<1>7. ASSUME i \notin Separators(text)
      PROVE  ReferenceFrom(text, i) = [later EXCEPT ![1] = Between(text, i - 1, ends[1])]
  <2>1. PICK all : all = <<i - 1>> \o ends
    OBVIOUS
  <2>2. ReferenceFrom(text, i) = Values(text, all)
    BY <1>1, <1>7, <2>1, EndsNext DEF ReferenceFrom
  <2>3. /\ Len(all) = m + 1 /\ all[1] = i - 1 /\ all[2] = ends[1]
        /\ \A k \in 2 .. m : all[k] = ends[k - 1] /\ all[k + 1] = ends[k]
    BY <1>0, <1>1, <1>2, <2>1, SMTT(20)
  <2>4. ReferenceFrom(text, i) = [k \in 1 .. m |-> Between(text, all[k], all[k + 1])]
    BY <1>2, <2>2, <2>3 DEF Values
  <2>5. ASSUME NEW k \in 2 .. m PROVE later[k] = Between(text, all[k], all[k + 1])
    <3>1. k \in 1 .. m
      BY <1>2
    <3> QED BY <1>4, <1>5, <2>3, <3>1
  <2>6. \A k \in 1 .. m : k # 1 => k \in 2 .. m
    BY <1>2
  <2>7. PICK now, value :
          /\ now = [k \in 1 .. m |-> Between(text, all[k], all[k + 1])]
          /\ value = Between(text, i - 1, ends[1])
    OBVIOUS
  <2>8. DOMAIN later = 1 .. m /\ DOMAIN now = 1 .. m /\ now[1] = value
    BY <1>2, <1>4, <2>3, <2>7
  <2>9. \A k \in 1 .. m : k # 1 => now[k] = later[k]
    BY <2>5, <2>6, <2>7
  <2>10. later = [k \in 1 .. m |-> later[k]] /\ now = [k \in 1 .. m |-> now[k]]
    BY <1>4, <2>7
  <2>11. now = [later EXCEPT ![1] = value]
    BY <2>8, <2>9, <2>10
  <2> QED BY <2>4, <2>7, <2>11
<1>8. later[1] = Between(text, i, ends[1])
  BY <1>2, <1>4, <1>5
<1>9. later = [later EXCEPT ![1] = later[1]]
  BY <1>4
<1>10. CASE i \notin Separators(text) /\ i \notin Kept(text)
  <2>1. Between(text, i - 1, ends[1]) = later[1]
    BY <1>5, <1>8, <1>10, BetweenNext
  <2> QED BY <1>3, <1>7, <1>9, <1>10, <2>1
<1>11. CASE i \notin Separators(text) /\ i \in Kept(text)
  <2>1. Between(text, i - 1, ends[1]) = <<Meant(text, i)>> \o later[1]
    BY <1>5, <1>8, <1>11, BetweenNext
  <2> QED BY <1>3, <1>7, <1>11, <2>1
<1> QED BY <1>3, <1>6, <1>10, <1>11

\* The text that is split ends before the first newline.
LEMMA ReferenceOfBody ==
  ASSUME NEW text \in Text
  PROVE  \E stop \in 1 .. Len(text) + 1, body \in Text :
           /\ Len(body) = stop - 1
           /\ \A i \in 1 .. stop - 1 : body[i] = text[i] /\ text[i] # LF
           /\ stop <= Len(text) => text[stop] = LF
           /\ ReferenceSplit(text) = ReferenceFrom(body, 1)
<1> DEFINE more == Append(text, LF)
           I == {i \in 1 .. Len(more) : more[i] = LF}
<1>0. /\ Len(text) \in Nat /\ Len(more) = Len(text) + 1 /\ more[Len(text) + 1] = LF
      /\ \A i \in 1 .. Len(text) : more[i] = text[i]
  BY DEF Text
<1>1. I \subseteq Nat /\ Len(text) + 1 \in I
  BY <1>0
<1>2. PICK stop : stop = SelectInSeq(more, LAMBDA c : c = LF)
  OBVIOUS
<1>3. stop \in I /\ \A y \in I : stop <= y
  <2>1. stop = Min(I)
    BY <1>1, <1>2 DEF SelectInSeq
  <2> HIDE DEF I
  <2>2. \E x \in I : \A y \in I : x <= y
    BY <1>1, LeastNat
  <2> QED BY <2>1, <2>2 DEF Min
<1>4. stop \in 1 .. Len(text) + 1 /\ (stop <= Len(text) => text[stop] = LF)
  BY <1>0, <1>3
<1>5. \A i \in 1 .. stop - 1 : text[i] # LF
  <2> SUFFICES ASSUME NEW i \in 1 .. stop - 1, text[i] = LF PROVE FALSE
    OBVIOUS
  <2>1. i \in 1 .. Len(text) /\ i \in I /\ ~(stop <= i)
    BY <1>0, <1>4
  <2> QED BY <1>3, <2>1
<1> HIDE DEF I
<1>6. PICK body : body = SubSeq(text, 1, stop - 1)
  OBVIOUS
<1>7. body \in Text /\ Len(body) = stop - 1 /\ \A i \in 1 .. stop - 1 : body[i] = text[i]
  BY <1>0, <1>4, <1>6 DEF Text
<1>8. ReferenceSplit(text) = ReferenceFrom(body, 1)
  <2> DEFINE bounds == <<0>> \o InOrder(Separators(body), stop - 1) \o <<stop>>
  <2>0. stop - 1 \in Nat /\ stop \in Nat /\ Separators(body) \subseteq 1 .. stop - 1 /\ (stop - 1) + 1 = stop
    BY <1>4, <1>7 DEF Separators, Text
  <2>1. ReferenceSplit(text) = Values(body, bounds)
    BY <1>2, <1>6 DEF ReferenceSplit, Values
  <2>2. Separators(body) \cap 1 .. stop - 1 = Separators(body)
    BY <2>0
  <2>3. Ends(body, 1) = InOrder(Separators(body), stop - 1) \o <<stop>>
    BY <1>7, <2>0, <2>2 DEF Ends
  <2>4. PICK e, A : e = InOrder(Separators(body), stop - 1) /\ A = Separators(body) \cap 1 .. stop - 1
    OBVIOUS
  <2>5. e \in Seq(A) /\ A \subseteq Nat
    BY <2>0, <2>4, InOrderType
  <2>6. e \in Seq(Nat) /\ <<0>> \in Seq(Nat) /\ <<stop>> \in Seq(Nat)
    <3>1. e \in Seq(Nat)
      BY <2>5, SeqSubset
    <3> QED BY <2>0, <3>1
  <2>7. bounds = <<0>> \o (e \o <<stop>>)
    BY <2>4, <2>6, ConcatAssociative
  <2> HIDE DEF bounds
  <2>8. ReferenceFrom(body, 1) = Values(body, <<0>> \o Ends(body, 1))
    BY DEF ReferenceFrom
  <2> QED BY <2>1, <2>3, <2>4, <2>7, <2>8
<1> QED BY <1>4, <1>5, <1>7, <1>8

\* The scan of split_pipe_line yields the values of the definition.
LEMMA SplitIsReference ==
  ASSUME NEW text \in Text
  PROVE  SplitPipeLine(text) = ReferenceSplit(text)
<1>1. PICK stop \in 1 .. Len(text) + 1, body \in Text :
           /\ Len(body) = stop - 1
           /\ \A i \in 1 .. stop - 1 : body[i] = text[i] /\ text[i] # LF
           /\ stop <= Len(text) => text[stop] = LF
           /\ ReferenceSplit(text) = ReferenceFrom(body, 1)
  BY ReferenceOfBody
<1>2. PICK f : /\ \A i \in 1 .. Len(text) + 1 : f[i] \in ValueLists /\ f[i] = Turn(text, f, i)
               /\ SplitPipeLine(text) = f[1]
  BY SplitPipeLineScan
<1>0. Len(text) \in Nat /\ stop \in Nat \ {0} /\ Len(body) \in Nat
  BY <1>1 DEF Text
<1>3. ASSUME NEW i \in 1 .. stop - 1
      PROVE  /\ IsEscape(text, i) = IsEscape(body, i)
             /\ IsEscape(text, i) => body[i + 1] = text[i + 1] /\ i + 1 \in 1 .. stop - 1
  <2>1. i < Len(text) \/ i = Len(text)
    BY <1>0
  <2>2. text[i] = body[i] /\ i \in 1 .. Len(body) /\ i <= Len(text)
    BY <1>0, <1>1
  <2>3. CASE i + 1 \in 1 .. stop - 1
    <3>1. i < Len(text) /\ i < Len(body) /\ body[i + 1] = text[i + 1]
      BY <1>0, <1>1, <2>3
    <3> QED BY <2>2, <2>3, <3>1 DEF IsEscape
  <2>4. CASE i + 1 \notin 1 .. stop - 1
    <3>1. i + 1 = stop /\ ~(i < Len(body))
      BY <1>0, <1>1, <2>4
    <3>2. ~IsEscape(text, i)
      <4>1. i < Len(text) => text[i + 1] = LF
        BY <1>0, <1>1, <3>1
      <4>2. LF \notin {"n", "r", "|", Bslash}
        BY DEF LF, Bslash
      <4> QED BY <4>1, <4>2 DEF IsEscape
    <3>3. ~IsEscape(body, i)
      BY <3>1 DEF IsEscape
    <3>4. IsEscape(text, i) \in BOOLEAN /\ IsEscape(body, i) \in BOOLEAN
      BY DEF IsEscape
    <3> QED BY <3>2, <3>3, <3>4
  <2> QED BY <2>3, <2>4
<1>4. f[stop] = << <<>> >>
  <2>1. stop > Len(text) \/ text[stop] = LF
    BY <1>0, <1>1
  <2> QED BY <1>2, <2>1 DEF Turn
<1>5. ReferenceFrom(body, stop) = << <<>> >>
  <2>1. /\ stop - 1 \in Nat /\ (stop - 1) + 1 = stop
        /\ Separators(body) \cap stop .. stop - 1 \cap 1 .. stop - 1 = {}
    BY <1>0
  <2>2. InOrder(Separators(body) \cap stop .. stop - 1, stop - 1) = <<>>
    BY <2>1, InOrderNone
  <2>3. Ends(body, stop) = <<stop>>
    <3>1. Len(body) = stop - 1 /\ Len(body) + 1 = stop
      BY <1>0, <1>1
    <3>2. Ends(body, stop) = <<>> \o <<stop>>
      BY <2>2, <3>1 DEF Ends
    <3> QED BY <3>2
  <2>4. ReferenceFrom(body, stop) = << Between(body, stop - 1, stop) >>
    <3>1. PICK c : c = <<stop - 1>> \o <<stop>>
      OBVIOUS
    <3>2. Len(c) - 1 = 1 /\ c[1] = stop - 1 /\ c[2] = stop
      BY <1>0, <3>1
    <3>3. ReferenceFrom(body, stop) = Values(body, c)
      BY <2>3, <3>1 DEF ReferenceFrom
    <3>4. ReferenceFrom(body, stop) = [k \in 1 .. 1 |-> Between(body, c[k], c[k + 1])]
      BY <3>2, <3>3 DEF Values
    <3>5. PICK v, y : /\ v = [k \in 1 .. 1 |-> Between(body, c[k], c[k + 1])]
                      /\ y = Between(body, stop - 1, stop)
      OBVIOUS
    <3>6. DOMAIN v = 1 .. 1 /\ v = [k \in 1 .. 1 |-> v[k]] /\ v[1] = y
      BY <3>2, <3>5
    <3>7. v = <<y>>
      BY <3>6
    <3> QED BY <3>4, <3>5, <3>7
  <2>5. PICK A : A = Kept(body) \cap stop .. stop - 1
    OBVIOUS
  <2>6. InOrder(A, stop - 1) = <<>>
    <3>1. A \cap 1 .. stop - 1 = {}
      BY <1>0, <2>5
    <3> QED BY <2>1, <3>1, InOrderNone
  <2>7. Between(body, stop - 1, stop) = [k \in DOMAIN InOrder(A, stop - 1) |-> Meant(body, InOrder(A, stop - 1)[k])]
    BY <2>1, <2>5 DEF Between
  <2>8. Between(body, stop - 1, stop) = <<>>
    BY <2>6, <2>7
  <2> QED BY <2>4, <2>8
<1> DEFINE Same(i) == i \notin Escaped(body) => f[i] = ReferenceFrom(body, i)
<1>6. ASSUME NEW i \in 1 .. stop - 1, \A j \in i + 1 .. stop : Same(j)
      PROVE  Same(i)
  <2> SUFFICES ASSUME i \notin Escaped(body) PROVE f[i] = ReferenceFrom(body, i)
    OBVIOUS
  <2>1. /\ i \in 1 .. Len(body) /\ i \in 1 .. Len(text) + 1 /\ ~(i > Len(text)) /\ text[i] # LF
        /\ body[i] = text[i] /\ i + 1 \in i + 1 .. stop /\ DOMAIN body = 1 .. Len(body)
    BY <1>0, <1>1 DEF Text
  <2>2. /\ i \in Starts(body) <=> IsEscape(text, i)
        /\ i \in Starts(body) => i + 1 \in Escaped(body) /\ i + 1 \notin Starts(body)
        /\ i \notin Starts(body) => i + 1 \notin Escaped(body)
    BY <1>3, <2>1, EscapeStarts
  <2>3. f[i] = Turn(text, f, i)
    BY <1>2, <2>1
  <2>4. /\ i \in Separators(body) <=> text[i] = "|"
        /\ i \in Kept(body) <=> ~IsEscape(text, i) /\ text[i] # CR
    BY <2>1, <2>2 DEF Separators, Kept
  <2>5. CR # "|" /\ CR # Bslash /\ "|" # Bslash
    BY DEF CR, Bslash
  <2>6. CASE text[i] = CR
    <3>1. ~IsEscape(text, i)
      BY <2>5, <2>6 DEF IsEscape
    <3>2. f[i] = f[i + 1]
      BY <2>1, <2>3, <2>6 DEF Turn
    <3>3. f[i + 1] = ReferenceFrom(body, i + 1)
      BY <1>6, <2>1, <2>2, <3>1
    <3>4. ReferenceFrom(body, i) = ReferenceFrom(body, i + 1)
      BY <2>1, <2>4, <2>5, <2>6, ReferenceNext
    <3> QED BY <3>2, <3>3, <3>4
  <2>7. CASE text[i] = "|"
    <3>1. ~IsEscape(text, i)
      BY <2>5, <2>7 DEF IsEscape
    <3>2. f[i] = << <<>> >> \o f[i + 1]
      BY <2>1, <2>3, <2>5, <2>7 DEF Turn
    <3>3. f[i + 1] = ReferenceFrom(body, i + 1)
      BY <1>6, <2>1, <2>2, <3>1
    <3>4. ReferenceFrom(body, i) = << <<>> >> \o ReferenceFrom(body, i + 1)
      BY <2>1, <2>4, <2>7, ReferenceNext
    <3> QED BY <3>2, <3>3, <3>4
  <2>8. CASE IsEscape(text, i)
    <3>1. text[i] # CR /\ text[i] # "|"
      BY <2>5, <2>8 DEF IsEscape
    <3>2. f[i] = [f[i + 2] EXCEPT ![1] = <<Unescaped(text[i + 1])>> \o @]
      BY <2>1, <2>3, <2>8, <3>1 DEF Turn
    <3>3. PICK j \in 1 .. Len(body) : j = i + 1 /\ j + 1 = i + 2 /\ j + 1 \in i + 1 .. stop /\ body[j] = text[j]
      <4>1. i + 1 \in 1 .. Len(body) /\ (i + 1) + 1 = i + 2 /\ (i + 1) + 1 \in i + 1 .. stop
        BY <1>0, <1>1, <1>3, <2>1, <2>8
      <4>2. body[i + 1] = text[i + 1]
        BY <1>3, <2>8
      <4> QED BY <4>1, <4>2
    <3>4. j \in Escaped(body) /\ j \notin Starts(body) /\ j + 1 \notin Escaped(body)
      BY <2>2, <2>8, <3>3, EscapeStarts
    <3>5. f[j + 1] = ReferenceFrom(body, j + 1)
      BY <1>6, <3>3, <3>4
    <3>6. text[i + 1] # CR
      BY <2>8 DEF IsEscape, CR, Bslash
    <3>7. j \notin Separators(body) /\ j \in Kept(body) /\ Meant(body, j) = Unescaped(text[i + 1])
      BY <2>1, <3>3, <3>4, <3>6 DEF Separators, Kept, Meant
    <3>8. ReferenceFrom(body, j) = [ReferenceFrom(body, j + 1) EXCEPT ![1] = <<Meant(body, j)>> \o @]
      BY <3>7, ReferenceNext
    <3>9. ReferenceFrom(body, i) = ReferenceFrom(body, i + 1)
      BY <2>1, <2>4, <2>8, <3>1, ReferenceNext
    <3> QED BY <3>2, <3>3, <3>5, <3>7, <3>8, <3>9
  <2>9. CASE text[i] # CR /\ text[i] # "|" /\ ~IsEscape(text, i)
    <3>1. f[i] = [f[i + 1] EXCEPT ![1] = <<text[i]>> \o @]
      BY <2>1, <2>3, <2>9 DEF Turn
    <3>2. f[i + 1] = ReferenceFrom(body, i + 1)
      BY <1>6, <2>1, <2>2, <2>9
    <3>3. Meant(body, i) = text[i]
      BY <2>1 DEF Meant
    <3>4. ReferenceFrom(body, i) = [ReferenceFrom(body, i + 1) EXCEPT ![1] = <<Meant(body, i)>> \o @]
      BY <2>1, <2>4, <2>9, ReferenceNext
    <3> QED BY <3>1, <3>2, <3>3, <3>4
  <2> QED BY <2>6, <2>7, <2>8, <2>9
<1>7. Same(stop)
  BY <1>4, <1>5
<1> HIDE DEF Same
<1> DEFINE G == {n \in Nat : n < stop => \A j \in stop - n .. stop : Same(j)}
<1>8. 0 \in G
  BY <1>0, <1>7
<1>9. ASSUME NEW n \in Nat, n \in G PROVE n + 1 \in G
  <2> SUFFICES ASSUME n + 1 < stop, NEW j \in stop - (n + 1) .. stop PROVE Same(j)
    OBVIOUS
  <2>1. \A k \in stop - n .. stop : Same(k)
    BY <1>0, <1>9
  <2>2. j \in stop - n .. stop \/ (j \in 1 .. stop - 1 /\ j + 1 = stop - n)
    BY <1>0
  <2> HIDE DEF G
  <2> QED BY <1>6, <2>1, <2>2
<1>10. stop - 1 \in G
  <2>1. Nat \subseteq G
    <3> HIDE DEF G
    <3> QED BY <1>8, <1>9, SetInduction
  <2>2. stop - 1 \in Nat
    BY <1>0
  <2> HIDE DEF G
  <2> QED BY <2>1, <2>2
<1>11. Same(1)
  BY <1>0, <1>10
<1>12. 1 \notin Escaped(body)
  BY DEF Escaped, Starts
<1> QED BY <1>1, <1>2, <1>11, <1>12 DEF Same

\* split_pipe_line splits a line as the format defines it, whatever the line.
THEOREM SplitsAsDefined == LineSpec => []SplitMatchesReference
<1>1. line \in Text => SplitMatchesReference
  BY SplitIsReference DEF SplitMatchesReference
<1> QED BY <1>1, LineType, PTL

-----------------------------------------------------------------------------
(* The lines of a text.                                                    *)

\* The text does not end inside a line.
Whole(text) ==
  IF Places(text, LF) = <<>> THEN text = <<>> ELSE Last(Places(text, LF)) = Len(text)

LEMMA PlacesType ==
  ASSUME NEW S, NEW text \in Seq(S), NEW c
  PROVE  /\ Places(text, c) \in Seq(1 .. Len(text))
         /\ \A k \in 2 .. Len(Places(text, c)) : Places(text, c)[k - 1] < Places(text, c)[k]
<1>1. PICK P, n, D, e : /\ P = {i \in DOMAIN text : text[i] = c} /\ n = Len(text) /\ D = P \cap 1 .. n
                        /\ e = InOrder(P, n)
  OBVIOUS
<1>2. n \in Nat /\ D \subseteq 1 .. n
  BY <1>1
<1>3. e \in Seq(D)
  BY <1>1, <1>2, InOrderType
<1>4. e \in Seq(1 .. n)
  BY <1>2, <1>3, SeqSubset
<1>5. \A k \in 2 .. Len(e) : e[k - 1] < e[k]
  BY <1>1, <1>2, InOrderAscends
<1> QED BY <1>1, <1>4, <1>5 DEF Places

LEMMA ScreenAppend ==
  ASSUME NEW S, NEW C, LF \notin S, S \subseteq C, LF \in C,
         NEW text \in Seq(C), Whole(text), NEW l \in Seq(S)
  PROVE  /\ text \o Append(l, LF) \in Seq(C) /\ Whole(text \o Append(l, LF))
         /\ Screen(text \o Append(l, LF)) = Append(Screen(text), l)
<1>0. PICK new : new = text \o Append(l, LF)
  OBVIOUS
<1>1. PICK n, w, m : n = Len(text) /\ w = Len(l) /\ m = n + w + 1
  OBVIOUS
<1>2. /\ n \in Nat /\ w \in Nat /\ m \in Nat /\ n < m /\ text \in Seq(C) /\ l \in Seq(C) /\ LF \in C
      /\ \A i \in 1 .. w : l[i] # LF
  <2>2. l \in Seq(C)
    BY SeqSubset
  <2> QED BY <1>1, <2>2
<1>3. /\ new \in Seq(C) /\ Len(new) = m
      /\ \A i \in 1 .. n : new[i] = text[i]
      /\ \A i \in 1 .. w : new[n + i] = l[i]
      /\ new[m] = LF
  <2>1. PICK t : t = Append(l, LF)
    OBVIOUS
  <2>2. t \in Seq(C) /\ Len(t) = w + 1 /\ t[w + 1] = LF /\ \A i \in 1 .. w : t[i] = l[i]
    BY <1>1, <1>2, <2>1
  <2>3. /\ new \in Seq(C) /\ Len(new) = n + (w + 1)
        /\ \A i \in 1 .. n : new[i] = text[i]
        /\ \A i \in 1 .. w + 1 : new[n + i] = t[i]
    BY <1>0, <1>1, <1>2, <2>1, <2>2
  <2>4. n + (w + 1) = m /\ w + 1 \in 1 .. w + 1 /\ \A i \in 1 .. w : i \in 1 .. w + 1
    BY <1>1, <1>2
  <2> QED BY <2>2, <2>3, <2>4
<1>4. PICK ends : /\ ends = Places(text, LF) /\ ends \in Seq(1 .. n)
                  /\ \A k \in 2 .. Len(ends) : ends[k - 1] < ends[k]
  BY <1>1, <1>2, PlacesType
<1>5. PICK P, Q : P = {i \in DOMAIN text : text[i] = LF} /\ Q = {i \in DOMAIN new : new[i] = LF}
  OBVIOUS
<1>6. Places(new, LF) = Append(ends, m)
  <2>1. \A k \in 1 .. n : k \in P <=> k \in Q
    BY <1>1, <1>2, <1>3, <1>5
  <2>2. Q \cap n + 1 .. m = {m}
    <3>1. m \in Q /\ m \in n + 1 .. m
      BY <1>1, <1>2, <1>3, <1>5
    <3>2. ASSUME NEW k \in Q, k \in n + 1 .. m, k # m PROVE FALSE
      <4>1. k - n \in 1 .. w /\ k = n + (k - n)
        BY <1>1, <1>2, <3>2
      <4>2. new[k] = l[k - n] /\ l[k - n] # LF
        BY <1>2, <1>3, <4>1
      <4> QED BY <1>5, <3>2, <4>2
    <3> QED BY <3>1, <3>2
  <2>3. InOrder(Q, m) = Append(InOrder(P, n), m)
    BY <1>2, <2>1, <2>2, InOrderLast
  <2>4. Places(new, LF) = InOrder(Q, m) /\ Places(text, LF) = InOrder(P, n)
    BY <1>1, <1>3, <1>5 DEF Places
  <2> QED BY <1>4, <2>3, <2>4
<1>7. PICK more, z : more = Append(ends, m) /\ z = Len(ends)
  OBVIOUS
<1>8. /\ z \in Nat /\ Len(more) = z + 1 /\ more[z + 1] = m /\ DOMAIN more = 1 .. z + 1 /\ DOMAIN ends = 1 .. z
      /\ \A k \in 1 .. z : more[k] = ends[k] /\ ends[k] \in 1 .. n
      /\ more # <<>>
      /\ \A k \in 2 .. z : ends[k - 1] < ends[k]
  <2>1. ends \in Seq(Nat) /\ m \in Nat
    <3>1. 1 .. n \subseteq Nat
      BY <1>2
    <3> QED BY <1>2, <1>4, <3>1, SeqSubset
  <2>2. /\ z \in Nat /\ Len(more) = z + 1 /\ more[z + 1] = m /\ DOMAIN more = 1 .. z + 1
        /\ DOMAIN ends = 1 .. z /\ \A k \in 1 .. z : more[k] = ends[k]
    BY <1>7, <2>1
  <2>3. \A k \in 1 .. z : ends[k] \in 1 .. n
    <3>1. PICK R : R = 1 .. n
      OBVIOUS
    <3>2. ends \in Seq(R) /\ z = Len(ends)
      BY <1>4, <1>7, <3>1
    <3>3. \A k \in 1 .. z : ends[k] \in R
      BY <3>2
    <3> QED BY <3>1, <3>3
  <2>4. more # <<>>
    BY <2>2
  <2> QED BY <1>4, <1>7, <2>2, <2>3, <2>4
<1>9. Whole(new)
  BY <1>3, <1>6, <1>7, <1>8 DEF Whole, Last
<1>10. PICK from, till : /\ from = [k \in 1 .. z + 1 |-> IF k = 1 THEN 1 ELSE more[k - 1] + 1]
                         /\ till = [k \in 1 .. z + 1 |-> more[k] - 1]
  OBVIOUS
<1>11. \A k \in 1 .. z : from[k] \in 1 .. n /\ till[k] \in from[k] - 1 .. n
  <2> SUFFICES ASSUME NEW k \in 1 .. z
               PROVE  from[k] \in 1 .. n /\ till[k] \in from[k] - 1 .. n
    OBVIOUS
  <2>1. k \in 1 .. z + 1 /\ (k # 1 => k - 1 \in 1 .. z)
    BY <1>8
  <2>2. from[k] = (IF k = 1 THEN 1 ELSE more[k - 1] + 1) /\ till[k] = ends[k] - 1
    BY <1>8, <1>10, <2>1
  <2>3. ends[k] \in 1 .. n /\ (k # 1 => more[k - 1] \in 1 .. n /\ more[k - 1] < ends[k])
    <3>1. k # 1 => k \in 2 .. z
      BY <1>8
    <3> QED BY <1>8, <2>1, <3>1
  <2> QED BY <1>2, <2>2, <2>3
<1>12. from[z + 1] = n + 1 /\ till[z + 1] = n + w
  <2>1. till[z + 1] = n + w
    BY <1>1, <1>2, <1>8, <1>10
  <2>2. CASE z = 0
    <3>1. n = 0
      <4>1. ends = <<>>
        <5>1. PICK R : R = 1 .. n
          OBVIOUS
        <5>2. ends \in Seq(R) /\ Len(ends) = 0
          BY <1>4, <1>7, <2>2, <5>1
        <5> QED BY <5>2
      <4> QED BY <1>1, <1>4, <4>1 DEF Whole
    <3> QED BY <1>10, <2>1, <2>2, <3>1
  <2>3. CASE z # 0
    <3>1. ends[z] = n
      BY <1>1, <1>4, <1>7, <1>8, <2>3 DEF Whole, Last
    <3>2. z \in 1 .. z /\ z + 1 \in 1 .. z + 1 /\ (z + 1) - 1 = z /\ z + 1 # 1
      BY <1>8, <2>3
    <3>3. from[z + 1] = more[z] + 1
      BY <1>10, <3>2
    <3> QED BY <1>8, <2>1, <3>1, <3>2, <3>3
  <2> QED BY <2>2, <2>3
<1>13. ASSUME NEW a \in 1 .. n, NEW b \in a - 1 .. n
       PROVE  SubSeq(new, a, b) = SubSeq(text, a, b) /\ SubSeq(text, a, b) \in Seq(C)
  <2>1. PICK s, t : s = SubSeq(new, a, b) /\ t = SubSeq(text, a, b)
    OBVIOUS
  <2>2. /\ a \in 1 .. Len(text) + 1 /\ b \in a - 1 .. Len(text)
        /\ a \in 1 .. Len(new) + 1 /\ b \in a - 1 .. Len(new)
    BY <1>1, <1>2, <1>3
  <2>3. /\ s \in Seq(C) /\ Len(s) = b - a + 1 /\ \A i \in 1 .. b - a + 1 : s[i] = new[a + i - 1]
    BY <1>3, <2>1, <2>2, SubSeqProperties
  <2>4. /\ t \in Seq(C) /\ Len(t) = b - a + 1 /\ \A i \in 1 .. b - a + 1 : t[i] = text[a + i - 1]
    BY <1>2, <2>1, <2>2, StretchIs, SMTT(20)
  <2>5. ASSUME NEW i \in 1 .. Len(s) PROVE s[i] = t[i]
    <3>1. a + i - 1 \in 1 .. n /\ i \in 1 .. b - a + 1
      BY <1>2, <2>3
    <3> QED BY <1>3, <2>3, <2>4, <3>1
  <2>6. s = t
    BY <2>3, <2>4, <2>5, SeqEqual
  <2> QED BY <2>1, <2>4, <2>6
<1>14. SubSeq(new, n + 1, n + w) = l
  <2>1. PICK s, a, b : s = SubSeq(new, a, b) /\ a = n + 1 /\ b = n + w
    OBVIOUS
  <2>2. a \in 1 .. Len(new) + 1 /\ b \in a - 1 .. Len(new) /\ b - a + 1 = w
    BY <1>1, <1>2, <1>3, <2>1
  <2>3. s \in Seq(C) /\ Len(s) = w /\ \A i \in 1 .. w : s[i] = new[a + i - 1]
    <3>1. s \in Seq(C) /\ Len(s) = b - a + 1 /\ \A i \in 1 .. b - a + 1 : s[i] = new[a + i - 1]
      <4>1. a \in 1 .. Len(new) + 1 /\ b \in a - 1 .. Len(new) /\ new \in Seq(C)
        BY <1>3, <2>2
      <4>2. /\ SubSeq(new, a, b) \in Seq(C) /\ Len(SubSeq(new, a, b)) = b - a + 1
            /\ \A i \in 1 .. b - a + 1 : SubSeq(new, a, b)[i] = new[a + i - 1]
        BY <4>1, StretchIs, Zenon
      <4> QED BY <2>1, <4>2, Zenon
    <3> QED BY <2>2, <3>1
  <2>4. \A i \in 1 .. w : a + i - 1 = n + i
    BY <1>2, <2>1
  <2>5. \A i \in 1 .. w : s[i] = l[i]
    BY <1>3, <2>3, <2>4
  <2>6. s = l
    BY <1>1, <1>2, <2>3, <2>5, SeqEqual
  <2> QED BY <2>1, <2>6
<1>15. PICK before, after : before = Screen(text) /\ after = Screen(new)
  OBVIOUS
<1>16. /\ before = [k \in 1 .. z |-> SubSeq(text, from[k], till[k])]
       /\ after = [k \in 1 .. z + 1 |-> SubSeq(new, from[k], till[k])]
  <2>1. /\ before = [k \in 1 .. z |-> SubSeq(text, IF k = 1 THEN 1 ELSE ends[k - 1] + 1, ends[k] - 1)]
        /\ after = [k \in 1 .. z + 1 |-> SubSeq(new, IF k = 1 THEN 1 ELSE more[k - 1] + 1, more[k] - 1)]
    BY <1>4, <1>6, <1>7, <1>8, <1>15 DEF Screen
  <2>2. ASSUME NEW k \in 1 .. z
        PROVE  from[k] = (IF k = 1 THEN 1 ELSE ends[k - 1] + 1) /\ till[k] = ends[k] - 1
    <3>1. k \in 1 .. z + 1 /\ (k # 1 => k - 1 \in 1 .. z)
      BY <1>8
    <3> QED BY <1>8, <1>10, <3>1
  <2>3. ASSUME NEW k \in 1 .. z + 1
        PROVE  from[k] = (IF k = 1 THEN 1 ELSE more[k - 1] + 1) /\ till[k] = more[k] - 1
    BY <1>10
  <2> QED BY <2>1, <2>2, <2>3, ZenonT(30)
<1>17. before \in Seq(Seq(C)) /\ Len(before) = z
  <2>1. \A k \in 1 .. z : before[k] \in Seq(C)
    BY <1>11, <1>13, <1>16
  <2>2. before = [k \in 1 .. z |-> before[k]] /\ z \in Nat
    <3>1. PICK g : g = [k \in 1 .. z |-> SubSeq(text, from[k], till[k])]
      OBVIOUS
    <3>2. g = [k \in 1 .. z |-> g[k]]
      BY <3>1
    <3> QED BY <1>8, <1>16, <3>1, <3>2
  <2>3. PICK D : D = Seq(C)
    OBVIOUS
  <2>4. before \in Seq(D) /\ Len(before) = z
    <3>1. \A k \in 1 .. z : before[k] \in D
      BY <2>1, <2>3
    <3> QED BY <2>2, <3>1, IsSequence
  <2> QED BY <2>3, <2>4
<1>18. after \in Seq(Seq(C)) /\ Len(after) = z + 1 /\ after[z + 1] = l /\ \A k \in 1 .. z : after[k] = before[k]
  <2>1. after[z + 1] = l
    <3>1. z + 1 \in 1 .. z + 1
      BY <1>8
    <3>2. after[z + 1] = SubSeq(new, from[z + 1], till[z + 1])
      BY <1>16, <3>1
    <3> QED BY <1>12, <1>14, <3>2
  <2>2. ASSUME NEW k \in 1 .. z PROVE after[k] = before[k] /\ before[k] \in Seq(C)
    <3>1. k \in 1 .. z + 1
      BY <1>8
    <3> QED BY <1>11, <1>13, <1>16, <3>1
  <2>3. ASSUME NEW k \in 1 .. z + 1 PROVE after[k] \in Seq(C)
    <3>1. k \in 1 .. z \/ k = z + 1
      BY <1>8
    <3> QED BY <1>2, <2>1, <2>2, <3>1
  <2>4. after = [k \in 1 .. z + 1 |-> after[k]] /\ z + 1 \in Nat
    <3>1. PICK g : g = [k \in 1 .. z + 1 |-> SubSeq(new, from[k], till[k])]
      OBVIOUS
    <3>2. g = [k \in 1 .. z + 1 |-> g[k]]
      BY <3>1
    <3>3. after = g
      BY <1>16, <3>1
    <3> QED BY <1>8, <3>2, <3>3
  <2>5. after \in Seq(Seq(C)) /\ Len(after) = z + 1
    <3>1. PICK D : D = Seq(C)
      OBVIOUS
    <3>2. PICK y \in Nat : y = z + 1
      BY <2>4
    <3>3. after \in Seq(D) /\ Len(after) = y
      <4>1. after = [k \in 1 .. y |-> after[k]] /\ \A k \in 1 .. y : after[k] \in D
        BY <2>3, <2>4, <3>1, <3>2
      <4> QED BY <4>1, IsSequence
    <3> QED BY <3>1, <3>2, <3>3
  <2> QED BY <2>1, <2>2, <2>5
<1>19. after = Append(before, l)
  <2>1. l \in Seq(C)
    BY <1>2
  <2>2. Len(after) = Len(before) + 1 /\ (\A k \in 1 .. Len(before) : after[k] = before[k]) /\ after[Len(before) + 1] = l
    BY <1>17, <1>18
  <2> QED BY <1>17, <1>18, <2>1, <2>2, IsAppend
<1> QED BY <1>0, <1>3, <1>9, <1>15, <1>19

\* The text shows these lines, and no more.
Drawn(S, text, ls) ==
  /\ LF \notin S
  /\ text \in Seq(S \cup {LF})
  /\ Whole(text)
  /\ ls \in Seq(Seq(S))
  /\ Screen(text) = ls

LEMMA NothingDrawn ==
  ASSUME NEW S, LF \notin S
  PROVE  Drawn(S, <<>>, <<>>)
<1>1. Places(<<>>, LF) = <<>>
  <2>1. PICK P : P = {i \in DOMAIN <<>> : <<>>[i] = LF}
    OBVIOUS
  <2>2. InOrder(P, 0) = <<>> /\ Len(<<>>) = 0
    BY InOrderSnoc
  <2> QED BY <2>1, <2>2 DEF Places
<1>2. Screen(<<>>) = <<>>
  BY <1>1 DEF Screen
<1> QED BY <1>1, <1>2 DEF Drawn, Whole

LEMMA DrawnAppend ==
  ASSUME NEW S, NEW text, NEW ls, Drawn(S, text, ls), NEW l, l \in Seq(S)
  PROVE  Drawn(S, text \o Append(l, LF), Append(ls, l))
<1>1. PICK new, more : new = text \o Append(l, LF) /\ more = Append(ls, l)
  OBVIOUS
<1>2. /\ LF \notin S /\ text \in Seq(S \cup {LF}) /\ Whole(text) /\ Screen(text) = ls
      /\ ls \in Seq(Seq(S)) /\ l \in Seq(S)
  BY DEF Drawn
<1>3. new \in Seq(S \cup {LF}) /\ Whole(new) /\ Screen(new) = Append(Screen(text), l)
  <2>1. PICK C : C = S \cup {LF}
    OBVIOUS
  <2>2. LF \notin S /\ S \subseteq C /\ LF \in C /\ text \in Seq(C) /\ Whole(text) /\ l \in Seq(S)
    BY <1>2, <2>1
  <2>3. /\ text \o Append(l, LF) \in Seq(C) /\ Whole(text \o Append(l, LF))
        /\ Screen(text \o Append(l, LF)) = Append(Screen(text), l)
    BY <2>2, ScreenAppend, Zenon
  <2> QED BY <1>1, <2>1, <2>3
<1>4. more \in Seq(Seq(S))
  <2>1. PICK L : L = Seq(S)
    OBVIOUS
  <2>2. ls \in Seq(L) /\ l \in L
    BY <1>2, <2>1
  <2>3. Append(ls, l) \in Seq(L)
    BY <2>2
  <2> QED BY <1>1, <2>1, <2>3
<1> QED BY <1>1, <1>2, <1>3, <1>4, Zenon DEF Drawn

Ended(ls) == [k \in DOMAIN ls |-> Append(ls[k], LF)]

\* Line after line is printed.
LEMMA EndedAppend ==
  ASSUME NEW C, LF \in C, NEW x \in Seq(Seq(C)), NEW l \in Seq(C)
  PROVE  /\ Ended(x) \in Seq(Seq(C)) /\ Append(l, LF) \in Seq(C)
         /\ FlattenSeq(Ended(x)) \in Seq(C)
         /\ FlattenSeq(Ended(Append(x, l))) = FlattenSeq(Ended(x)) \o Append(l, LF)
<1>1. PICK T, a, s, y : T = Seq(C) /\ a = Ended(x) /\ s = Append(l, LF) /\ y = Append(x, l)
  OBVIOUS
<1>2. \A k \in T : Append(k, LF) \in T
  BY <1>1
<1>3. x \in Seq(T) /\ l \in T /\ s \in T
  BY <1>1, <1>2
<1>4. PICK n \in Nat : /\ n = Len(x) /\ DOMAIN x = 1 .. n /\ DOMAIN y = 1 .. n + 1 /\ y[n + 1] = l
                       /\ \A k \in 1 .. n : y[k] = x[k] /\ x[k] \in T
  <2>1. PICK n : n = Len(x)
    OBVIOUS
  <2>2. n \in Nat /\ DOMAIN x = 1 .. n /\ \A k \in 1 .. n : x[k] \in T
    BY <1>3, <2>1
  <2>3. Len(y) = n + 1 /\ y[n + 1] = l /\ DOMAIN y = 1 .. n + 1 /\ \A k \in 1 .. n : y[k] = x[k]
    BY <1>1, <1>3, <2>1
  <2> QED BY <2>1, <2>2, <2>3
<1>5. PICK b : b = Ended(y)
  OBVIOUS
<1>6. a = [k \in 1 .. n |-> Append(x[k], LF)] /\ b = [k \in 1 .. n + 1 |-> Append(y[k], LF)]
  BY <1>1, <1>4, <1>5 DEF Ended
<1>7. a \in Seq(T) /\ Len(a) = n
  <2>1. \A k \in 1 .. n : a[k] \in T
    BY <1>2, <1>4, <1>6
  <2>2. a = [k \in 1 .. n |-> a[k]]
    BY <1>6
  <2> QED BY <1>4, <2>1, <2>2, IsSequence
<1>8. b \in Seq(T) /\ Len(b) = n + 1 /\ b[n + 1] = s /\ \A k \in 1 .. n : b[k] = a[k]
  <2>1. n + 1 \in 1 .. n + 1 /\ n + 1 \in Nat /\ \A k \in 1 .. n : k \in 1 .. n + 1
    BY <1>4
  <2>2. b[n + 1] = s
    BY <1>1, <1>4, <1>6, <2>1
  <2>3. \A k \in 1 .. n : b[k] = a[k]
    BY <1>4, <1>6, <2>1
  <2>4. ASSUME NEW k \in 1 .. n + 1 PROVE b[k] \in T
    <3>1. k \in 1 .. n \/ k = n + 1
      BY <1>4
    <3>2. \A i \in 1 .. n : a[i] \in T
      BY <1>7
    <3> QED BY <1>3, <2>2, <2>3, <3>1, <3>2
  <2>5. b = [k \in 1 .. n + 1 |-> b[k]]
    BY <1>6
  <2>6. b \in Seq(T) /\ Len(b) = n + 1
    BY <2>1, <2>4, <2>5, IsSequence
  <2> QED BY <2>2, <2>3, <2>6
<1>9. b = Append(a, s)
  BY <1>3, <1>7, <1>8, IsAppend
<1>10. a \in Seq(Seq(C)) /\ s \in Seq(C)
  BY <1>1, <1>3, <1>7
<1>11. FlattenSeq(a) \in Seq(C) /\ FlattenSeq(Append(a, s)) = FlattenSeq(a) \o s
  BY <1>10, FlattenSeqType, FlattenSeqAppend
<1> QED BY <1>1, <1>5, <1>9, <1>10, <1>11

Lists(S) == Seq(Seq(S))

LEMMA DrawnLines ==
  ASSUME NEW S, NEW text, NEW ls, Drawn(S, text, ls), NEW more, more \in Lists(S)
  PROVE  Drawn(S, text \o FlattenSeq(Ended(more)), ls \o more)
<1> DEFINE G == {x \in Seq(Seq(S)) : Drawn(S, text \o FlattenSeq(Ended(x)), ls \o x)}
<1>1. PICK L, C : L = Seq(S) /\ C = S \cup {LF}
  OBVIOUS
<1>2. /\ S \subseteq C /\ LF \in C /\ text \in Seq(C) /\ ls \in Seq(L)
      /\ Seq(L) \subseteq Seq(Seq(C)) /\ L \subseteq Seq(C)
  <2>1. S \subseteq C /\ LF \in C /\ text \in Seq(C) /\ ls \in Seq(L)
    BY <1>1 DEF Drawn
  <2>2. \A x \in Seq(S) : x \in Seq(C)
    BY <2>1, SeqSubset
  <2>3. PICK T : T = Seq(C)
    OBVIOUS
  <2>4. L \subseteq T
    BY <1>1, <2>2, <2>3
  <2>5. \A x \in Seq(L) : x \in Seq(T)
    BY <2>4, SeqSubset
  <2> QED BY <2>1, <2>3, <2>4, <2>5
<1>3. <<>> \in G
  <2>1. Ended(<<>>) = <<>> /\ FlattenSeq(<<>>) = <<>>
    BY DEF Ended, FlattenSeq
  <2>2. text \o <<>> = text /\ ls \o <<>> = ls
    BY <1>2
  <2>3. <<>> \in Seq(Seq(S))
    OBVIOUS
  <2> QED BY <2>1, <2>2, <2>3
<1>4. ASSUME NEW x \in Seq(L), NEW l \in L, x \in G PROVE Append(x, l) \in G
  <2>1. PICK y, s, t, e : y = Append(x, l) /\ s = Append(l, LF) /\ t = text \o e /\ e = FlattenSeq(Ended(x))
    OBVIOUS
  <2>2. Drawn(S, t, ls \o x) /\ l \in Seq(S)
    BY <1>1, <1>4, <2>1
  <2>3. Drawn(S, t \o s, Append(ls \o x, l))
    BY <2>1, <2>2, DrawnAppend, Zenon
  <2>4. e \in Seq(C) /\ s \in Seq(C) /\ FlattenSeq(Ended(y)) = e \o s
    <3>1. x \in Seq(Seq(C)) /\ l \in Seq(C)
      BY <1>2, <1>4
    <3> QED BY <1>2, <2>1, <3>1, EndedAppend, Zenon
  <2>5. t \o s = text \o FlattenSeq(Ended(y))
    <3>1. text \in Seq(C) /\ e \in Seq(C) /\ s \in Seq(C)
      BY <1>2, <2>4
    <3>2. text \o (e \o s) = (text \o e) \o s
      BY <3>1, ConcatAssociative
    <3> QED BY <2>1, <2>4, <3>2
  <2>6. Append(ls \o x, l) = ls \o y /\ y \in Seq(L)
    <3>1. ls \in Seq(L) /\ x \in Seq(L) /\ l \in L
      BY <1>2, <1>4
    <3>2. Append(ls \o x, l) = ls \o Append(x, l)
      <4>1. ls \o x \in Seq(L) /\ <<l>> \in Seq(L)
        BY <3>1
      <4>2. Append(ls \o x, l) = (ls \o x) \o <<l>>
        BY <3>1, <4>1, AppendIsConcat
      <4>3. Append(x, l) = x \o <<l>>
        BY <3>1, AppendIsConcat
      <4>4. (ls \o x) \o <<l>> = ls \o (x \o <<l>>)
        BY <3>1, <4>1, ConcatAssociative
      <4> QED BY <4>2, <4>3, <4>4
    <3>3. y \in Seq(L)
      BY <2>1, <3>1
    <3> QED BY <2>1, <3>2, <3>3
  <2> QED BY <1>1, <2>1, <2>3, <2>5, <2>6
<1>5. Seq(L) \subseteq G
  <2> HIDE DEF G
  <2> QED BY <1>3, <1>4, SnocInduction
<1>6. more \in Seq(L)
  BY <1>1 DEF Lists
<1> QED BY <1>5, <1>6

-----------------------------------------------------------------------------
(* The lines of the table.                                                 *)

\* What stands in a column that is width wide: in a separator, and in a line
\* that shows a text.
Rule(width)       == Append(Fill("-", width + 2), "+")
Shown(width, text) == <<Space>> \o Padded(text, width) \o <<Space, "|">>

RuleLine(widths)       == <<"+">> \o FlattenSeq([c \in DOMAIN widths |-> Rule(widths[c])])
CellLine(widths, text) == <<"|">> \o FlattenSeq([c \in DOMAIN widths |-> Shown(widths[c], text[c])])

Glyphs(S) == S \cup {"+", "-", "|", Space}

LEMMA RuleIs ==
  ASSUME NEW S, NEW width \in Nat
  PROVE  /\ Rule(width) \in Seq(Glyphs(S)) /\ Len(Rule(width)) = width + 3
         /\ \A j \in 1 .. width + 3 : Rule(width)[j] = IF j = width + 3 THEN "+" ELSE "-"
<1>1. PICK f, w, C : f = Fill("-", width + 2) /\ w = width + 2 /\ w \in Nat /\ C = Glyphs(S)
  OBVIOUS
<1>2. f = [i \in 1 .. w |-> "-"] /\ "-" \in C /\ "+" \in C
  BY <1>1 DEF Fill, Glyphs
<1>3. f \in Seq(C) /\ Len(f) = w /\ \A i \in 1 .. w : f[i] = "-"
  BY <1>1, <1>2
<1>4. PICK r : r = Append(f, "+")
  OBVIOUS
<1>5. r \in Seq(C) /\ Len(r) = w + 1 /\ r[w + 1] = "+" /\ \A i \in 1 .. w : r[i] = "-"
  <2>1. PICK p : p = "+"
    OBVIOUS
  <2>2. p \in C /\ f \in Seq(C) /\ Len(f) = w /\ r = Append(f, p)
    BY <1>2, <1>3, <1>4, <2>1
  <2>3. r \in Seq(C) /\ Len(r) = w + 1 /\ r[w + 1] = p /\ \A i \in 1 .. w : r[i] = f[i]
    BY <2>2, AppendProperties
  <2> QED BY <1>3, <2>1, <2>3
<1>6. w + 1 = width + 3 /\ \A j \in 1 .. width + 3 : j = w + 1 \/ j \in 1 .. w
  BY <1>1
<1>7. \A j \in 1 .. width + 3 : r[j] = IF j = width + 3 THEN "+" ELSE "-"
  <2> SUFFICES ASSUME NEW j \in 1 .. width + 3 PROVE r[j] = IF j = width + 3 THEN "+" ELSE "-"
    OBVIOUS
  <2>1. j = w + 1 \/ (j \in 1 .. w /\ j # width + 3)
    BY <1>1
  <2> QED BY <1>5, <1>6, <2>1
<1>8. r = Rule(width)
  BY <1>1, <1>4 DEF Rule
<1> QED BY <1>1, <1>5, <1>6, <1>7, <1>8

LEMMA ShownIs ==
  ASSUME NEW S, NEW width \in Nat, NEW text \in Seq(S), Len(text) <= width
  PROVE  /\ Shown(width, text) \in Seq(Glyphs(S)) /\ Len(Shown(width, text)) = width + 3
         /\ Shown(width, text)[width + 3] = "|"
         /\ SubSeq(Shown(width, text), 1, width + 2)
              = <<Space>> \o text \o Fill(Space, width + 1 - Len(text))
<1>1. PICK n, k, C : n = Len(text) /\ k = width - Len(text) /\ C = Glyphs(S)
  OBVIOUS
<1>2. /\ n \in Nat /\ k \in Nat /\ n + k = width /\ width + 1 - Len(text) = k + 1
      /\ Space \in C /\ "|" \in C /\ S \subseteq C
  BY <1>1 DEF Glyphs
<1>3. text \in Seq(C)
  BY <1>2, SeqSubset
<1>4. PICK f, g : f = Fill(Space, k) /\ g = Fill(Space, k + 1)
  OBVIOUS
<1>5. /\ f \in Seq(C) /\ Len(f) = k /\ \A i \in 1 .. k : f[i] = Space
      /\ g \in Seq(C) /\ Len(g) = k + 1 /\ \A i \in 1 .. k + 1 : g[i] = Space
  <2>1. k + 1 \in Nat
    BY <1>2
  <2>2. f = [i \in 1 .. k |-> Space] /\ g = [i \in 1 .. k + 1 |-> Space]
    BY <1>4 DEF Fill
  <2>3. f = [i \in 1 .. k |-> f[i]] /\ g = [i \in 1 .. k + 1 |-> g[i]]
        /\ (\A i \in 1 .. k : f[i] = Space) /\ (\A i \in 1 .. k + 1 : g[i] = Space)
    BY <2>2
  <2>4. f \in Seq(C) /\ Len(f) = k
    <3>1. f = [i \in 1 .. k |-> f[i]] /\ \A i \in 1 .. k : f[i] \in C
      BY <1>2, <2>3
    <3> QED BY <1>2, <3>1, IsSequence
  <2>5. g \in Seq(C) /\ Len(g) = k + 1
    <3>1. PICK q \in Nat : q = k + 1
      BY <2>1
    <3>2. g = [i \in 1 .. q |-> g[i]] /\ \A i \in 1 .. q : g[i] \in C
      BY <1>2, <2>3, <3>1
    <3>3. g \in Seq(C) /\ Len(g) = q
      BY <3>2, IsSequence
    <3> QED BY <3>1, <3>3
  <2> QED BY <2>3, <2>4, <2>5
<1>6. PICK t, u, s : t = text \o f /\ u = <<Space>> \o t /\ s = u \o <<Space, "|">>
  OBVIOUS
<1>7. /\ t \in Seq(C) /\ Len(t) = n + k
      /\ \A i \in 1 .. n : t[i] = text[i]
      /\ \A i \in 1 .. k : t[n + i] = Space
  BY <1>1, <1>3, <1>5, <1>6
<1>8. /\ u \in Seq(C) /\ Len(u) = 1 + (n + k) /\ u[1] = Space
      /\ \A i \in 1 .. n + k : u[1 + i] = t[i]
  <2>1. <<Space>> \in Seq(C) /\ Len(<<Space>>) = 1
    BY <1>2
  <2> QED BY <1>2, <1>6, <1>7, <2>1
<1>9. PICK z \in Nat : z = 1 + (n + k) /\ z + 1 = width + 2 /\ z + 2 = width + 3
  BY <1>2
<1>10. /\ s \in Seq(C) /\ Len(s) = z + 2 /\ s[z + 1] = Space /\ s[z + 2] = "|"
       /\ \A i \in 1 .. z : s[i] = u[i]
  <2>1. PICK e : e = <<Space, "|">>
    OBVIOUS
  <2>2. e \in Seq(C) /\ Len(e) = 2 /\ e[1] = Space /\ e[2] = "|"
    BY <1>2, <2>1
  <2>3. s = u \o e /\ u \in Seq(C) /\ Len(u) = z
    BY <1>6, <1>8, <1>9, <2>1
  <2>4. /\ s \in Seq(C) /\ Len(s) = z + 2
        /\ \A i \in 1 .. z : s[i] = u[i]
        /\ \A i \in 1 .. 2 : s[z + i] = e[i]
    <3>1. u \in Seq(C) /\ e \in Seq(C)
      BY <2>2, <2>3
    <3>2. /\ u \o e \in Seq(C) /\ Len(u \o e) = Len(u) + Len(e)
          /\ \A i \in 1 .. Len(u) : (u \o e)[i] = u[i]
          /\ \A i \in 1 .. Len(e) : (u \o e)[Len(u) + i] = e[i]
      BY <3>1, ConcatIs
    <3> QED BY <2>2, <2>3, <3>2
  <2> QED BY <2>2, <2>4
<1>11. PICK a, b : a = SubSeq(s, 1, z + 1) /\ b = (<<Space>> \o text) \o g
  OBVIOUS
<1>12. a \in Seq(C) /\ Len(a) = z + 1 /\ \A i \in 1 .. z + 1 : a[i] = s[i]
  <2>1. 1 \in 1 .. Len(s) + 1 /\ z + 1 \in 1 - 1 .. Len(s)
    BY <1>10
  <2>2. /\ a \in Seq(C) /\ Len(a) = (z + 1) - 1 + 1
        /\ \A i \in 1 .. (z + 1) - 1 + 1 : a[i] = s[1 + i - 1]
    BY <1>10, <1>11, <2>1, StretchIs
  <2>3. (z + 1) - 1 + 1 = z + 1 /\ \A i \in 1 .. z + 1 : 1 + i - 1 = i
    OBVIOUS
  <2> QED BY <2>2, <2>3
<1>13. /\ b \in Seq(C) /\ Len(b) = (1 + n) + (k + 1) /\ b[1] = Space
       /\ \A i \in 1 .. n : b[1 + i] = text[i]
       /\ \A i \in 1 .. k + 1 : b[(1 + n) + i] = Space
  <2>1. PICK v : v = <<Space>> \o text
    OBVIOUS
  <2>2. v \in Seq(C) /\ Len(v) = 1 + n /\ v[1] = Space /\ \A i \in 1 .. n : v[1 + i] = text[i]
    BY <1>1, <1>2, <1>3, <2>1
  <2>3. b = v \o g /\ g \in Seq(C) /\ Len(g) = k + 1
    BY <1>5, <1>11, <2>1
  <2>4. /\ v \o g \in Seq(C) /\ Len(v \o g) = Len(v) + Len(g)
        /\ \A i \in 1 .. Len(v) : (v \o g)[i] = v[i]
        /\ \A i \in 1 .. Len(g) : (v \o g)[Len(v) + i] = g[i]
    <3>1. v \in Seq(C) /\ g \in Seq(C)
      BY <2>2, <2>3
    <3> QED BY <3>1, ConcatIs
  <2>5. 1 \in 1 .. 1 + n /\ \A i \in 1 .. n : 1 + i \in 1 .. 1 + n
    BY <1>2
  <2>6. /\ b \in Seq(C) /\ Len(b) = (1 + n) + (k + 1)
        /\ \A i \in 1 .. 1 + n : b[i] = v[i]
        /\ \A i \in 1 .. k + 1 : b[(1 + n) + i] = g[i]
    BY <2>2, <2>3, <2>4
  <2> QED BY <1>5, <2>2, <2>5, <2>6
<1>14. ASSUME NEW i \in 1 .. z + 1 PROVE a[i] = b[i]
  <2>1. CASE i = 1
    BY <1>8, <1>9, <1>10, <1>12, <1>13, <2>1, SMTT(20)
  <2>2. CASE i \in 2 .. n + 1
    <3>1. PICK j \in 1 .. n : i = 1 + j
      <4>1. i - 1 \in 1 .. n /\ i = 1 + (i - 1)
        BY <1>2, <2>2
      <4> QED BY <4>1
    <3>2. i \in 1 .. z /\ j \in 1 .. n + k
      BY <1>2, <1>9, <3>1
    <3> QED BY <1>7, <1>8, <1>10, <1>12, <1>13, <3>1, <3>2
  <2>3. CASE i \in n + 2 .. z
    <3>1. PICK j \in 1 .. k : i = 1 + (n + j) /\ i = (1 + n) + j
      <4>1. i - n - 1 \in 1 .. k /\ i = 1 + (n + (i - n - 1)) /\ i = (1 + n) + (i - n - 1)
        BY <1>2, <1>9, <2>3
      <4> QED BY <4>1
    <3>2. i \in 1 .. z /\ n + j \in 1 .. n + k /\ j \in 1 .. k + 1
      BY <1>2, <1>9, <3>1
    <3>3. a[i] = s[i] /\ s[i] = u[i] /\ b[i] = Space
      BY <1>10, <1>12, <1>13, <3>1, <3>2
    <3>4. u[i] = t[n + j] /\ t[n + j] = Space
      BY <1>7, <1>8, <3>1, <3>2
    <3> QED BY <3>3, <3>4
  <2>4. CASE i = z + 1
    <3>1. i = (1 + n) + (k + 1) /\ k + 1 \in 1 .. k + 1
      BY <1>2, <1>9, <2>4
    <3> QED BY <1>10, <1>12, <1>13, <2>4, <3>1
  <2>5. i = 1 \/ i \in 2 .. n + 1 \/ i \in n + 2 .. z \/ i = z + 1
    BY <1>2, <1>9
  <2> QED BY <2>1, <2>2, <2>3, <2>4, <2>5
<1>15. a = b
  <2>1. Len(b) = z + 1
    BY <1>2, <1>9, <1>13
  <2> QED BY <1>12, <1>13, <1>14, <2>1, SeqEqual
<1>16. s = Shown(width, text)
  <2>1. Padded(text, width) = t
    <3>1. CASE Len(text) < width
      BY <1>1, <1>4, <1>6, <3>1, Zenon DEF Padded
    <3>2. CASE ~(Len(text) < width)
      <4>1. k = 0
        BY <1>1, <1>2, <3>2
      <4>2. f = <<>>
        BY <1>5, <4>1
      <4>3. t = text
        BY <1>3, <1>6, <4>2
      <4> QED BY <3>2, <4>3, Zenon DEF Padded
    <3> QED BY <3>1, <3>2
  <2> QED BY <1>6, <2>1 DEF Shown
<1> QED BY <1>1, <1>2, <1>4, <1>9, <1>10, <1>11, <1>15, <1>16

\* Two lines are drawn to the same widths when their columns end at the same
\* places: column c of a line ends at ends[c] + 1.
Spans(widths, ends) ==
  /\ ends \in [0 .. Len(widths) -> Nat]
  /\ ends[0] = 0
  /\ \A c \in 1 .. Len(widths) : ends[c] = ends[c - 1] + (widths[c] + 3)

LEMMA SpansExist ==
  ASSUME NEW widths \in Seq(Nat)
  PROVE  \E ends : Spans(widths, ends)
<1>1. PICK n, C, ss : n = Len(widths) /\ C = Glyphs({}) /\ ss = [c \in 1 .. n |-> Rule(widths[c])]
  OBVIOUS
<1>2. n \in Nat /\ \A c \in 1 .. n : widths[c] \in Nat
  BY <1>1
<1>3. \A c \in 1 .. n : ss[c] \in Seq(C) /\ Len(ss[c]) = widths[c] + 3
  BY <1>1, <1>2, RuleIs
<1>4. ss \in Seq(Seq(C)) /\ Len(ss) = n
  <2>1. PICK T : T = Seq(C)
    OBVIOUS
  <2>2. ss = [c \in 1 .. n |-> ss[c]] /\ \A c \in 1 .. n : ss[c] \in T
    BY <1>1, <1>3, <2>1
  <2>3. ss \in Seq(T) /\ Len(ss) = n
    BY <1>2, <2>2, IsSequence
  <2> QED BY <2>1, <2>3
<1>5. PICK at \in [0 .. n -> Nat] : Offsets(ss, at)
  BY <1>4, OffsetsExist
<1>6. Spans(widths, at)
  BY <1>1, <1>3, <1>4, <1>5 DEF Spans, Offsets
<1> QED BY <1>6

\* They do so in order.
LEMMA SpansGrow ==
  ASSUME NEW widths \in Seq(Nat), NEW ends, Spans(widths, ends)
  PROVE  \A c \in 0 .. Len(widths) : ends[c] \in Nat /\ ends[c] <= ends[Len(widths)]
<1>1. PICK n : n = Len(widths)
  OBVIOUS
<1>2. /\ n \in Nat /\ \A c \in 0 .. n : ends[c] \in Nat
      /\ \A c \in 1 .. n : widths[c] \in Nat /\ ends[c] = ends[c - 1] + (widths[c] + 3)
  BY <1>1 DEF Spans
<1> DEFINE H == {m \in Nat : m <= n => \A c \in 0 .. m : ends[c] <= ends[m]}
<1>3. 0 \in H
  BY <1>2
<1>4. ASSUME NEW m \in Nat, m \in H PROVE m + 1 \in H
  <2> SUFFICES ASSUME m + 1 <= n, NEW c \in 0 .. m + 1 PROVE ends[c] <= ends[m + 1]
    OBVIOUS
  <2>1. PICK p : p = m + 1
    OBVIOUS
  <2>2. p \in 1 .. n /\ p - 1 = m /\ m \in 0 .. n /\ p \in 0 .. n /\ m <= n
    BY <1>2, <2>1
  <2>3. ends[p] = ends[m] + (widths[p] + 3) /\ widths[p] \in Nat /\ ends[m] \in Nat /\ ends[p] \in Nat
    BY <1>2, <2>2
  <2>4. c = p \/ c \in 0 .. m
    BY <2>1
  <2>5. CASE c = p
    BY <2>1, <2>3, <2>5
  <2>6. CASE c \in 0 .. m
    <3>1. ends[c] <= ends[m] /\ c \in 0 .. n
      BY <1>2, <1>4, <2>2, <2>6
    <3>2. PICK x, y, z : x = ends[c] /\ y = ends[m] /\ z = ends[p]
      OBVIOUS
    <3>3. x \in Nat /\ y \in Nat /\ x <= y /\ z = y + (widths[p] + 3) /\ widths[p] \in Nat
      BY <1>2, <2>3, <3>1, <3>2
    <3>4. x <= z
      BY <3>3
    <3> QED BY <2>1, <3>2, <3>4
  <2> QED BY <2>4, <2>5, <2>6
<1>5. n \in H
  <2>1. Nat \subseteq H
    <3> HIDE DEF H
    <3> QED BY <1>3, <1>4, SetInduction
  <2> HIDE DEF H
  <2> QED BY <1>2, <2>1
<1> QED BY <1>1, <1>2, <1>5

\* A mark and the columns after it.
Framed(drawn, C, mark, widths, ends, piece) ==
  /\ drawn \in Seq(C)
  /\ Len(drawn) = ends[Len(widths)] + 1
  /\ drawn[1] = mark
  /\ \A c \in 1 .. Len(widths) : \A j \in 1 .. widths[c] + 3 : drawn[ends[c - 1] + 1 + j] = piece[c][j]

LEMMA FramedLine ==
  ASSUME NEW C, NEW mark \in C, NEW widths \in Seq(Nat), NEW ends, Spans(widths, ends),
         NEW piece, DOMAIN piece = 1 .. Len(widths), piece = [c \in 1 .. Len(widths) |-> piece[c]],
         \A c \in 1 .. Len(widths) : piece[c] \in Seq(C) /\ Len(piece[c]) = widths[c] + 3
  PROVE  Framed(<<mark>> \o FlattenSeq(piece), C, mark, widths, ends, piece)
<1>1. PICK n, T, flat, drawn : n = Len(widths) /\ T = Seq(C) /\ flat = FlattenSeq(piece) /\ drawn = <<mark>> \o flat
  OBVIOUS
<1>2. n \in Nat /\ ends \in [0 .. n -> Nat] /\ \A c \in 1 .. n : widths[c] \in Nat
  BY <1>1 DEF Spans
<1>3. piece \in Seq(Seq(C)) /\ Len(piece) = n
  <2>1. piece = [c \in 1 .. n |-> piece[c]] /\ \A c \in 1 .. n : piece[c] \in T
    BY <1>1
  <2>2. piece \in Seq(T) /\ Len(piece) = n
    BY <1>2, <2>1, IsSequence
  <2> QED BY <1>1, <2>2
<1>4. Offsets(piece, ends)
  <2>1. ASSUME NEW c \in 1 .. n PROVE ends[c - 1] \in Nat /\ ends[c] = ends[c - 1] + Len(piece[c])
    <3>1. c - 1 \in 0 .. n
      BY <1>2
    <3> QED BY <1>1, <1>2, <3>1 DEF Spans
  <2> QED BY <1>3, <2>1 DEF Offsets, Spans
<1>5. /\ flat \in Seq(C) /\ Len(flat) = ends[n]
      /\ \A c \in 1 .. n : \A j \in 1 .. Len(piece[c]) : flat[ends[c - 1] + j] = piece[c][j]
  <2>1. flat \in Seq(C)
    BY <1>1, <1>3, FlattenSeqType
  <2>2. ends \in [0 .. Len(piece) -> Nat] /\ Len(piece) = n
    BY <1>2, <1>3
  <2>3. Laid(FlattenSeq(piece), piece, ends)
    <3>1. piece \in Seq(Seq(C)) /\ ends \in [0 .. Len(piece) -> Nat] /\ Offsets(piece, ends)
      BY <1>3, <1>4, <2>2
    <3> QED BY <3>1, FlattenSeqAt, Zenon
  <2> QED BY <1>1, <2>1, <2>2, <2>3 DEF Laid
<1>6. /\ drawn \in Seq(C) /\ Len(drawn) = 1 + Len(flat) /\ drawn[1] = mark
      /\ \A i \in 1 .. Len(flat) : drawn[1 + i] = flat[i]
  BY <1>1, <1>5
<1>7. ASSUME NEW c \in 1 .. n, NEW j \in 1 .. widths[c] + 3 PROVE drawn[ends[c - 1] + 1 + j] = piece[c][j]
  <2>1. PICK e, d, w, m : e = ends[c - 1] /\ d = ends[c] /\ w = widths[c] /\ m = ends[n]
    OBVIOUS
  <2>2. e \in Nat /\ d \in Nat /\ w \in Nat /\ m \in Nat /\ d = e + (w + 3)
    <3>1. c - 1 \in 0 .. n /\ c \in 0 .. n /\ n \in 0 .. n
      BY <1>2
    <3>2. e \in Nat /\ d \in Nat /\ w \in Nat /\ m \in Nat
      BY <1>2, <2>1, <3>1
    <3>3. d = e + (w + 3)
      BY <1>1, <2>1 DEF Spans
    <3> QED BY <3>2, <3>3
  <2>3. d <= m
    <3>1. c \in 0 .. n
      BY <1>2
    <3> QED BY <1>1, <2>1, <3>1, SpansGrow
  <2>4. e + j \in 1 .. m /\ e + 1 + j = 1 + (e + j)
    <3>1. j \in 1 .. w + 3
      BY <2>1
    <3>2. j \in Nat /\ 1 <= j /\ j <= w + 3
      BY <2>2, <3>1
    <3> QED BY <2>2, <2>3, <3>2, SMTT(20)
  <2>5. flat[e + j] = piece[c][j]
    <3>1. j \in 1 .. Len(piece[c])
      BY <1>1
    <3> QED BY <1>5, <2>1, <3>1
  <2>6. drawn[1 + (e + j)] = flat[e + j]
    BY <1>5, <1>6, <2>1, <2>4
  <2> QED BY <2>1, <2>4, <2>5, <2>6
<1>8. Len(drawn) = ends[n] + 1
  <2>1. ends[n] \in Nat
    BY <1>2
  <2> QED BY <1>5, <1>6, <2>1
<1> QED BY <1>1, <1>6, <1>7, <1>8 DEF Framed

\* A line that shows a text in every column.
Shows(drawn, widths, ends, text) ==
  /\ Len(drawn) = ends[Len(widths)] + 1
  /\ drawn[1] = "|"
  /\ \A c \in 1 .. Len(widths) :
       /\ drawn[ends[c] + 1] = "|"
       /\ SubSeq(drawn, ends[c - 1] + 2, ends[c])
            = <<Space>> \o text[c] \o Fill(Space, widths[c] + 1 - Len(text[c]))

LEMMA CellLineShows ==
  ASSUME NEW S, NEW widths \in Seq(Nat), NEW ends, Spans(widths, ends), NEW text,
         \A c \in 1 .. Len(widths) : text[c] \in Seq(S) /\ Len(text[c]) <= widths[c]
  PROVE  /\ CellLine(widths, text) \in Seq(Glyphs(S))
         /\ Shows(CellLine(widths, text), widths, ends, text)
<1>1. PICK n, C, piece, drawn : /\ n = Len(widths) /\ C = Glyphs(S)
                               /\ piece = [c \in 1 .. n |-> Shown(widths[c], text[c])]
                               /\ drawn = <<"|">> \o FlattenSeq(piece)
  OBVIOUS
<1>2. /\ n \in Nat /\ \A c \in 1 .. n : widths[c] \in Nat /\ piece[c] = Shown(widths[c], text[c])
      /\ "|" \in C /\ DOMAIN piece = 1 .. n /\ piece = [c \in 1 .. n |-> piece[c]]
  BY <1>1 DEF Glyphs
<1>3. drawn = CellLine(widths, text)
  <2>1. DOMAIN widths = 1 .. n
    BY <1>1
  <2> QED BY <1>1, <2>1, Zenon DEF CellLine
<1>4. \A c \in 1 .. n :
        /\ piece[c] \in Seq(C) /\ Len(piece[c]) = widths[c] + 3
        /\ piece[c][widths[c] + 3] = "|"
        /\ SubSeq(piece[c], 1, widths[c] + 2) = <<Space>> \o text[c] \o Fill(Space, widths[c] + 1 - Len(text[c]))
  <2> SUFFICES ASSUME NEW c \in 1 .. n
               PROVE  /\ piece[c] \in Seq(C) /\ Len(piece[c]) = widths[c] + 3
                      /\ piece[c][widths[c] + 3] = "|"
                      /\ SubSeq(piece[c], 1, widths[c] + 2)
                           = <<Space>> \o text[c] \o Fill(Space, widths[c] + 1 - Len(text[c]))
    OBVIOUS
  <2>1. widths[c] \in Nat /\ text[c] \in Seq(S) /\ Len(text[c]) <= widths[c]
    BY <1>1, <1>2
  <2>2. piece[c] = Shown(widths[c], text[c])
    BY <1>2
  <2>3. /\ Shown(widths[c], text[c]) \in Seq(Glyphs(S)) /\ Len(Shown(widths[c], text[c])) = widths[c] + 3
        /\ Shown(widths[c], text[c])[widths[c] + 3] = "|"
        /\ SubSeq(Shown(widths[c], text[c]), 1, widths[c] + 2)
              = <<Space>> \o text[c] \o Fill(Space, widths[c] + 1 - Len(text[c]))
    BY <2>1, ShownIs, Zenon
  <2> QED BY <1>1, <2>2, <2>3, Zenon
<1>5. /\ drawn \in Seq(C) /\ Len(drawn) = ends[n] + 1 /\ drawn[1] = "|"
      /\ \A c \in 1 .. n : \A j \in 1 .. widths[c] + 3 : drawn[ends[c - 1] + 1 + j] = piece[c][j]
  <2>1. PICK mark : mark = "|"
    OBVIOUS
  <2>2. \A c \in 1 .. n : piece[c] \in Seq(C) /\ Len(piece[c]) = widths[c] + 3
    BY <1>4
  <2>3. Framed(<<mark>> \o FlattenSeq(piece), C, mark, widths, ends, piece)
    <3>1. /\ mark \in C /\ DOMAIN piece = 1 .. Len(widths) /\ piece = [c \in 1 .. Len(widths) |-> piece[c]]
          /\ \A c \in 1 .. Len(widths) : piece[c] \in Seq(C) /\ Len(piece[c]) = widths[c] + 3
      BY <1>1, <1>2, <2>1, <2>2
    <3> QED BY <3>1, FramedLine, Zenon
  <2> QED BY <1>1, <2>1, <2>3 DEF Framed
<1>6. ASSUME NEW c \in 1 .. n
      PROVE  /\ drawn[ends[c] + 1] = "|"
             /\ SubSeq(drawn, ends[c - 1] + 2, ends[c]) = SubSeq(piece[c], 1, widths[c] + 2)
  <2>1. PICK a, b, w, m : a = ends[c - 1] /\ b = ends[c] /\ w = widths[c] /\ m = ends[n]
    OBVIOUS
  <2>2. a \in Nat /\ b \in Nat /\ w \in Nat /\ m \in Nat /\ b = a + (w + 3) /\ b <= m
    <3>1. c - 1 \in 0 .. n /\ c \in 0 .. n /\ n \in 0 .. n
      BY <1>2
    <3>2. a \in Nat /\ b \in Nat /\ b <= m /\ m \in Nat
      BY <1>1, <2>1, <3>1, SpansGrow
    <3>3. b = a + (w + 3) /\ w \in Nat
      BY <1>1, <1>2, <2>1 DEF Spans
    <3> QED BY <3>2, <3>3
  <2>3. PICK q : q = piece[c]
    OBVIOUS
  <2>4. /\ q \in Seq(C) /\ Len(q) = w + 3 /\ q[w + 3] = "|"
        /\ \A j \in 1 .. w + 3 : drawn[a + 1 + j] = q[j]
    BY <1>4, <1>5, <2>1, <2>3
  <2>5. drawn[b + 1] = "|"
    <3>1. w + 3 \in 1 .. w + 3 /\ a + 1 + (w + 3) = b + 1
      BY <2>2
    <3> QED BY <2>4, <3>1
  <2>6. PICK u, v : u = SubSeq(drawn, a + 2, b) /\ v = SubSeq(q, 1, w + 2)
    OBVIOUS
  <2>7. u \in Seq(C) /\ Len(u) = w + 2 /\ \A i \in 1 .. w + 2 : u[i] = drawn[a + 1 + i]
    <3>1. drawn \in Seq(C) /\ Len(drawn) = m + 1
      BY <1>5, <2>1
    <3>4. a + 2 \in 1 .. Len(drawn) + 1 /\ b \in (a + 2) - 1 .. Len(drawn)
      BY <2>2, <3>1
    <3>2. /\ SubSeq(drawn, a + 2, b) \in Seq(C) /\ Len(SubSeq(drawn, a + 2, b)) = b - (a + 2) + 1
          /\ \A i \in 1 .. b - (a + 2) + 1 : SubSeq(drawn, a + 2, b)[i] = drawn[(a + 2) + i - 1]
      BY <3>1, <3>4, StretchIs
    <3>3. b - (a + 2) + 1 = w + 2 /\ \A i \in 1 .. w + 2 : (a + 2) + i - 1 = a + 1 + i
      BY <2>2
    <3> QED BY <2>6, <3>2, <3>3
  <2>8. v \in Seq(C) /\ Len(v) = w + 2 /\ \A i \in 1 .. w + 2 : v[i] = q[i]
    <3>1. 1 \in 1 .. Len(q) + 1 /\ w + 2 \in 1 - 1 .. Len(q)
      BY <2>2, <2>4
    <3>2. /\ SubSeq(q, 1, w + 2) \in Seq(C) /\ Len(SubSeq(q, 1, w + 2)) = (w + 2) - 1 + 1
          /\ \A i \in 1 .. (w + 2) - 1 + 1 : SubSeq(q, 1, w + 2)[i] = q[1 + i - 1]
      BY <2>4, <3>1, StretchIs
    <3>3. (w + 2) - 1 + 1 = w + 2 /\ \A i \in 1 .. w + 2 : 1 + i - 1 = i
      BY <2>2
    <3> QED BY <2>6, <3>2, <3>3
  <2>9. \A i \in 1 .. w + 2 : u[i] = v[i]
    <3>1. \A i \in 1 .. w + 2 : i \in 1 .. w + 3
      BY <2>2
    <3> QED BY <2>4, <2>7, <2>8, <3>1
  <2>10. u = v
    BY <2>7, <2>8, <2>9, SeqEqual
  <2> QED BY <2>1, <2>3, <2>5, <2>6, <2>10
<1>7. Shows(drawn, widths, ends, text)
  BY <1>1, <1>4, <1>5, <1>6 DEF Shows
<1> QED BY <1>1, <1>3, <1>5, <1>7

\* A separator has its crosses where the columns end.
LEMMA RuleLineIs ==
  ASSUME NEW S, NEW widths \in Seq(Nat), NEW ends, Spans(widths, ends)
  PROVE  /\ RuleLine(widths) \in Seq(Glyphs(S))
         /\ Len(RuleLine(widths)) = ends[Len(widths)] + 1
         /\ Places(RuleLine(widths), "+") = [k \in 1 .. Len(widths) + 1 |-> ends[k - 1] + 1]
<1>1. PICK n, C, piece, drawn : /\ n = Len(widths) /\ C = Glyphs(S)
                               /\ piece = [c \in 1 .. n |-> Rule(widths[c])]
                               /\ drawn = <<"+">> \o FlattenSeq(piece)
  OBVIOUS
<1>2. /\ n \in Nat /\ \A c \in 1 .. n : widths[c] \in Nat /\ piece[c] = Rule(widths[c])
      /\ "+" \in C /\ DOMAIN piece = 1 .. n /\ piece = [c \in 1 .. n |-> piece[c]]
  BY <1>1 DEF Glyphs
<1>3. drawn = RuleLine(widths)
  <2>1. DOMAIN widths = 1 .. n
    BY <1>1
  <2> QED BY <1>1, <2>1, Zenon DEF RuleLine
<1>4. \A c \in 1 .. n :
        /\ piece[c] \in Seq(C) /\ Len(piece[c]) = widths[c] + 3
        /\ \A j \in 1 .. widths[c] + 3 : piece[c][j] = IF j = widths[c] + 3 THEN "+" ELSE "-"
  BY <1>1, <1>2, RuleIs
<1>5. /\ drawn \in Seq(C) /\ Len(drawn) = ends[n] + 1 /\ drawn[1] = "+"
      /\ \A c \in 1 .. n : \A j \in 1 .. widths[c] + 3 : drawn[ends[c - 1] + 1 + j] = piece[c][j]
  <2>1. PICK mark : mark = "+"
    OBVIOUS
  <2>2. \A c \in 1 .. n : piece[c] \in Seq(C) /\ Len(piece[c]) = widths[c] + 3
    BY <1>4
  <2>3. Framed(<<mark>> \o FlattenSeq(piece), C, mark, widths, ends, piece)
    <3>1. /\ mark \in C /\ DOMAIN piece = 1 .. Len(widths) /\ piece = [c \in 1 .. Len(widths) |-> piece[c]]
          /\ \A c \in 1 .. Len(widths) : piece[c] \in Seq(C) /\ Len(piece[c]) = widths[c] + 3
      BY <1>1, <1>2, <2>1, <2>2
    <3> QED BY <3>1, FramedLine, Zenon
  <2> QED BY <1>1, <2>1, <2>3 DEF Framed
<1>6. PICK P : P = {i \in DOMAIN drawn : drawn[i] = "+"}
  OBVIOUS
<1> DEFINE InPlace(c, e) == Len(e) = c + 1 /\ e \in Seq(Nat) /\ \A k \in 1 .. c + 1 : e[k] = ends[k - 1] + 1
           H == {c \in Nat : c <= n => InPlace(c, InOrder(P, ends[c] + 1))}
<1>7. 0 \in H
  <2>1. ends[0] = 0 /\ 0 + 1 = 1 /\ 1 \in P
    <3>1. ends[n] \in Nat
      BY <1>2, <1>1, SMTT(20) DEF Spans
    <3> QED BY <1>5, <1>6, <3>1 DEF Spans
  <2>2. InOrder(P, 1) = <<1>>
    <3>1. InOrder(P, 0) = <<>> /\ InOrder(P, 0 + 1) = Append(InOrder(P, 0), 0 + 1)
      BY <2>1, InOrderSnoc
    <3>2. Append(<<>>, 1) = <<1>>
      OBVIOUS
    <3> QED BY <2>1, <3>1, <3>2
  <2>3. InPlace(0, <<1>>)
    BY <2>1
  <2> QED BY <2>1, <2>2, <2>3
<1>8. ASSUME NEW c \in Nat, c \in H PROVE c + 1 \in H
  <2> SUFFICES ASSUME c + 1 <= n PROVE InPlace(c + 1, InOrder(P, ends[c + 1] + 1))
    OBVIOUS
  <2>1. PICK d : d = c + 1
    OBVIOUS
  <2>2. d \in 1 .. n /\ d - 1 = c /\ c \in 0 .. n /\ d \in 0 .. n /\ n \in 0 .. n
    BY <1>2, <2>1
  <2>3. PICK a, b, w, m : a = ends[c] /\ b = ends[d] /\ w = widths[d] /\ m = ends[n]
    OBVIOUS
  <2>4. a \in Nat /\ b \in Nat /\ w \in Nat /\ m \in Nat /\ b = a + (w + 3) /\ b <= m
    <3>1. a \in Nat /\ b \in Nat /\ b <= m /\ m \in Nat
      BY <1>1, <2>2, <2>3, SpansGrow
    <3>2. b = a + (w + 3) /\ w \in Nat
      BY <1>1, <1>2, <2>2, <2>3 DEF Spans
    <3> QED BY <3>1, <3>2
  <2>5. \A j \in 1 .. w + 3 : drawn[a + 1 + j] = IF j = w + 3 THEN "+" ELSE "-"
    BY <1>4, <1>5, <2>2, <2>3
  <2>6. P \cap (a + 1) + 1 .. b + 1 = {b + 1}
    <3>1. b + 1 \in P /\ b + 1 \in (a + 1) + 1 .. b + 1
      <4>1. w + 3 \in 1 .. w + 3 /\ a + 1 + (w + 3) = b + 1
        BY <2>4
      <4>2. drawn[b + 1] = "+"
        BY <2>5, <4>1
      <4>3. b + 1 \in 1 .. m + 1 /\ b + 1 \in (a + 1) + 1 .. b + 1
        BY <2>4
      <4>4. drawn \in Seq(C) /\ Len(drawn) = m + 1 /\ DOMAIN drawn = 1 .. m + 1
        <5>1. drawn \in Seq(C) /\ Len(drawn) = m + 1
          BY <1>5, <2>3
        <5> QED BY <5>1
      <4> QED BY <1>6, <4>2, <4>3, <4>4
    <3>2. ASSUME NEW i \in P, i \in (a + 1) + 1 .. b + 1, i # b + 1 PROVE FALSE
      <4>1. PICK j : j = i - (a + 1)
        OBVIOUS
      <4>2. j \in 1 .. w + 3 /\ i = a + 1 + j /\ j # w + 3
        BY <2>4, <3>2, <4>1
      <4>3. drawn[i] = "-"
        BY <2>5, <4>2
      <4> QED BY <1>6, <4>3
    <3> QED BY <3>1, <3>2
  <2>7. InOrder(P, b + 1) = Append(InOrder(P, a + 1), b + 1)
    <3>1. a + 1 \in Nat /\ b + 1 \in Nat /\ a + 1 < b + 1
      BY <2>4
    <3> QED BY <2>6, <3>1, InOrderLast
  <2>8. PICK e, f : e = InOrder(P, a + 1) /\ f = Append(e, b + 1)
    OBVIOUS
  <2>9. Len(e) = c + 1 /\ e \in Seq(Nat) /\ \A k \in 1 .. c + 1 : e[k] = ends[k - 1] + 1
    BY <1>8, <2>2, <2>3, <2>8
  <2>10. f \in Seq(Nat) /\ Len(f) = (c + 1) + 1 /\ f[(c + 1) + 1] = b + 1 /\ \A k \in 1 .. c + 1 : f[k] = e[k]
    <3>1. b + 1 \in Nat
      BY <2>4
    <3> QED BY <2>8, <2>9, <3>1
  <2>11. \A k \in 1 .. (c + 1) + 1 : f[k] = ends[k - 1] + 1
    <3> SUFFICES ASSUME NEW k \in 1 .. (c + 1) + 1 PROVE f[k] = ends[k - 1] + 1
      OBVIOUS
    <3>1. CASE k \in 1 .. c + 1
      BY <2>9, <2>10, <3>1
    <3>2. CASE k = (c + 1) + 1
      <4>1. k - 1 = d
        BY <2>1, <3>2
      <4> QED BY <2>3, <2>10, <3>2, <4>1
    <3> QED BY <3>1, <3>2
  <2> QED BY <2>1, <2>3, <2>7, <2>8, <2>10, <2>11
<1>9. n \in H
  <2>1. Nat \subseteq H
    <3> HIDE DEF H
    <3> QED BY <1>7, <1>8, SetInduction
  <2> HIDE DEF H
  <2> QED BY <1>2, <2>1
<1>10. PICK e : e = InOrder(P, ends[n] + 1)
  OBVIOUS
<1>11. e \in Seq(Nat) /\ Len(e) = n + 1 /\ \A k \in 1 .. n + 1 : e[k] = ends[k - 1] + 1
  BY <1>2, <1>9, <1>10
<1>12. e = [k \in 1 .. n + 1 |-> ends[k - 1] + 1]
  <2>1. DOMAIN e = 1 .. n + 1 /\ e = [k \in DOMAIN e |-> e[k]]
    BY <1>11
  <2> QED BY <1>11, <2>1
<1>13. Places(drawn, "+") = e
  BY <1>5, <1>6, <1>10 DEF Places
<1> QED BY <1>1, <1>3, <1>5, <1>12, <1>13

-----------------------------------------------------------------------------
(* The table as it is printed.                                             *)

\* A result whose texts, names and values, are over S.
IsTable(S) ==
  /\ LF \notin S
  /\ columns \in Seq(Seq(S))
  /\ Len(rows) \in Nat
  /\ DOMAIN rows = 1 .. Len(rows)
  /\ \A r \in 1 .. Len(rows) : \A c \in 1 .. Len(columns) : rows[r][c] \in Seq(S)

\* No text is longer than its column is wide.
LEMMA WidthsFit ==
  ASSUME NEW S, IsTable(S)
  PROVE  /\ Widths(columns, rows) \in Seq(Nat) /\ Len(Widths(columns, rows)) = Len(columns)
         /\ \A c \in 1 .. Len(columns) :
              /\ columns[c] \in Seq(S) /\ Len(columns[c]) <= Widths(columns, rows)[c]
              /\ \A r \in 1 .. Len(rows) :
                   rows[r][c] \in Seq(S) /\ Len(rows[r][c]) <= Widths(columns, rows)[c]
<1>1. PICK n, m, L, w : n = Len(columns) /\ m = Len(rows) /\ L = Seq(S) /\ w = Widths(columns, rows)
  OBVIOUS
<1>2. /\ n \in Nat /\ m \in Nat /\ DOMAIN columns = 1 .. n /\ DOMAIN rows = 1 .. m
      /\ \A c \in 1 .. n : columns[c] \in L /\ \A r \in 1 .. m : rows[r][c] \in L
      /\ \A x \in L : Len(x) \in Nat
  BY <1>1 DEF IsTable
<1>3. w = [c \in 1 .. n |-> Max({Len(columns[c])} \cup {Len(rows[r][c]) : r \in 1 .. m})]
  BY <1>1, <1>2 DEF Widths
<1>4. ASSUME NEW c \in 1 .. n
      PROVE  /\ w[c] \in Nat /\ Len(columns[c]) <= w[c]
             /\ \A r \in 1 .. m : Len(rows[r][c]) <= w[c]
  <2>1. PICK a, T : a = Len(columns[c]) /\ T = {Len(columns[c])} \cup {Len(rows[r][c]) : r \in 1 .. m}
    OBVIOUS
  <2>2. PICK f : f = [r \in 1 .. m |-> Len(rows[r][c])]
    OBVIOUS
  <2>3. /\ a \in Nat /\ \A r \in 1 .. m : f[r] \in Nat /\ f[r] = Len(rows[r][c])
        /\ T = {a} \cup {f[r] : r \in 1 .. m}
    BY <1>2, <2>1, <2>2
  <2> DEFINE G == {k \in Nat : k <= m => \E b \in Nat : a <= b /\ \A r \in 1 .. k : f[r] <= b}
  <2>4. 0 \in G
    BY <2>3
  <2>5. ASSUME NEW k \in Nat, k \in G PROVE k + 1 \in G
    <3> SUFFICES ASSUME k + 1 <= m PROVE \E b \in Nat : a <= b /\ \A r \in 1 .. k + 1 : f[r] <= b
      OBVIOUS
    <3>1. PICK b \in Nat : a <= b /\ \A r \in 1 .. k : f[r] <= b
      BY <1>2, <2>5
    <3>2. f[k + 1] \in Nat
      BY <1>2, <2>3
    <3>3. PICK d : d = b + f[k + 1]
      OBVIOUS
    <3>4. d \in Nat /\ a <= d /\ f[k + 1] <= d /\ b <= d
      BY <2>3, <3>1, <3>2, <3>3
    <3>5. ASSUME NEW r \in 1 .. k + 1 PROVE f[r] <= d
      <4>1. CASE r = k + 1
        BY <3>4, <4>1
      <4>2. CASE r \in 1 .. k
        <5>1. f[r] \in Nat /\ f[r] <= b
          BY <1>2, <2>3, <3>1, <4>2
        <5> QED BY <3>4, <5>1
      <4> QED BY <4>1, <4>2
    <3> QED BY <3>4, <3>5
  <2>6. PICK b \in Nat : a <= b /\ \A r \in 1 .. m : f[r] <= b
    <3>1. Nat \subseteq G
      <4> HIDE DEF G
      <4> QED BY <2>4, <2>5, SetInduction
    <3>2. m \in G
      <4> HIDE DEF G
      <4> QED BY <1>2, <3>1
    <3> QED BY <1>2, <3>2
  <2>7. T \subseteq 0 .. b /\ T # {} /\ T \subseteq Nat
    BY <2>3, <2>6
  <2>8. PICK x \in T : \A y \in T : y <= x
    BY <2>7, GreatestNat
  <2>9. Max(T) = x
    BY <2>7, <2>8, MaxIs
  <2>10. w[c] = x
    BY <1>3, <2>1, <2>9
  <2> QED BY <2>1, <2>2, <2>3, <2>7, <2>8, <2>10
<1>5. w \in Seq(Nat) /\ Len(w) = n
  <2>1. w = [c \in 1 .. n |-> w[c]] /\ \A c \in 1 .. n : w[c] \in Nat
    BY <1>3, <1>4
  <2> QED BY <1>2, <2>1, IsSequence
<1> QED BY <1>1, <1>2, <1>4, <1>5

\* What the two functions print is a line each.
LEMMA SeparatorIs ==
  ASSUME NEW C, NEW widths, RuleLine(widths) \in Seq(C)
  PROVE  Separator(widths) = Append(RuleLine(widths), LF)
<1>1. Separator(widths) = RuleLine(widths) \o <<LF>>
  BY Zenon DEF Separator, RuleLine, Rule
<1> QED BY <1>1, AppendIsConcat

LEMMA TableLineIs ==
  ASSUME NEW C, NEW widths, NEW text, CellLine(widths, text) \in Seq(C)
  PROVE  TableLine(widths, text) = Append(CellLine(widths, text), LF)
<1>1. TableLine(widths, text) = CellLine(widths, text) \o <<LF>>
  BY Zenon DEF TableLine, CellLine, Shown
<1> QED BY <1>1, AppendIsConcat

\* What stands on the terminal: separators, the header and a line for every row.
Lines(screen, widths) ==
  /\ Len(screen) = Len(rows) + 4
  /\ screen[1] = RuleLine(widths)
  /\ screen[2] = CellLine(widths, columns)
  /\ screen[3] = RuleLine(widths)
  /\ \A r \in 1 .. Len(rows) : screen[r + 3] = CellLine(widths, rows[r])
  /\ screen[Len(rows) + 4] = RuleLine(widths)

\* All lines of the table are drawn to the same widths.
ToWidths(S, widths, ends) ==
  /\ widths \in Seq(Nat) /\ Len(widths) = Len(columns)
  /\ Spans(widths, ends)
  /\ RuleLine(widths) \in Seq(Glyphs(S))
  /\ CellLine(widths, columns) \in Seq(Glyphs(S))
  /\ Shows(CellLine(widths, columns), widths, ends, columns)
  /\ \A r \in 1 .. Len(rows) :
       /\ CellLine(widths, rows[r]) \in Seq(Glyphs(S))
       /\ Shows(CellLine(widths, rows[r]), widths, ends, rows[r])

LEMMA DrawnToWidths ==
  ASSUME NEW S, IsTable(S)
  PROVE  \E ends : ToWidths(S, Widths(columns, rows), ends)
<1>1. PICK w : w = Widths(columns, rows)
  OBVIOUS
<1>2. /\ w \in Seq(Nat) /\ Len(w) = Len(columns)
      /\ \A c \in 1 .. Len(w) : columns[c] \in Seq(S) /\ Len(columns[c]) <= w[c]
      /\ \A r \in 1 .. Len(rows) : \A c \in 1 .. Len(w) : rows[r][c] \in Seq(S) /\ Len(rows[r][c]) <= w[c]
  BY <1>1, WidthsFit
<1>3. PICK ends : Spans(w, ends)
  BY <1>2, SpansExist
<1>4. RuleLine(w) \in Seq(Glyphs(S))
  BY <1>2, <1>3, RuleLineIs
<1>5. CellLine(w, columns) \in Seq(Glyphs(S)) /\ Shows(CellLine(w, columns), w, ends, columns)
  BY <1>2, <1>3, CellLineShows, Zenon
<1>6. ASSUME NEW r \in 1 .. Len(rows)
      PROVE  CellLine(w, rows[r]) \in Seq(Glyphs(S)) /\ Shows(CellLine(w, rows[r]), w, ends, rows[r])
  <2>1. \A c \in 1 .. Len(w) : rows[r][c] \in Seq(S) /\ Len(rows[r][c]) <= w[c]
    BY <1>2
  <2> QED BY <1>2, <1>3, <2>1, CellLineShows, Zenon
<1>7. ToWidths(S, w, ends)
  BY <1>2, <1>3, <1>4, <1>5, <1>6 DEF ToWidths
<1> QED BY <1>1, <1>7

LEMMA ScreenIs ==
  ASSUME NEW S, IsTable(S)
  PROVE  /\ Screen(Printed) \in Seq(Seq(Glyphs(S)))
         /\ Lines(Screen(Printed), Widths(columns, rows))
<1>1. PICK w, C, L : w = Widths(columns, rows) /\ C = Glyphs(S) /\ L = Seq(C)
  OBVIOUS
<1>2. PICK R, H, m, body : /\ R = RuleLine(w) /\ H = CellLine(w, columns) /\ m = Len(rows)
                           /\ body = [r \in 1 .. m |-> CellLine(w, rows[r])]
  OBVIOUS
<1>3. /\ R \in Seq(C) /\ H \in Seq(C) /\ m \in Nat /\ DOMAIN rows = 1 .. m
      /\ \A r \in 1 .. m : CellLine(w, rows[r]) \in Seq(C) /\ body[r] = CellLine(w, rows[r])
      /\ LF \notin C
  <2>1. PICK ends : ToWidths(S, w, ends)
    BY <1>1, DrawnToWidths
  <2>2. /\ R \in Seq(C) /\ H \in Seq(C)
        /\ \A r \in 1 .. m : CellLine(w, rows[r]) \in Seq(C)
    BY <1>1, <1>2, <2>1 DEF ToWidths
  <2>3. m \in Nat /\ DOMAIN rows = 1 .. m /\ LF \notin S
    BY <1>2 DEF IsTable
  <2>4. LF \notin C
    BY <1>1, <2>3 DEF Glyphs, LF, Space
  <2> QED BY <1>2, <2>2, <2>3, <2>4
<1>4. body \in Seq(L) /\ Len(body) = m /\ DOMAIN body = 1 .. m
  <2>1. body = [r \in 1 .. m |-> body[r]] /\ \A r \in 1 .. m : body[r] \in L
    BY <1>1, <1>2, <1>3
  <2> QED BY <1>3, <2>1, IsSequence
<1>5. PICK t1, t2, t3, t4, t5, s3, s4, s5 :
        /\ t1 = <<>> \o Append(R, LF) /\ t2 = t1 \o Append(H, LF) /\ t3 = t2 \o Append(R, LF)
        /\ t4 = t3 \o FlattenSeq(Ended(body)) /\ t5 = t4 \o Append(R, LF)
        /\ s3 = Append(Append(Append(<<>>, R), H), R) /\ s4 = s3 \o body /\ s5 = Append(s4, R)
  OBVIOUS
<1>6. Drawn(C, t5, s5)
  <2>1. Drawn(C, t3, s3)
    <3>1. Drawn(C, <<>>, <<>>)
      BY <1>3, NothingDrawn
    <3>2. Drawn(C, t1, Append(<<>>, R))
      BY <1>3, <1>5, <3>1, DrawnAppend, Zenon
    <3>3. Drawn(C, t2, Append(Append(<<>>, R), H))
      BY <1>3, <1>5, <3>2, DrawnAppend, Zenon
    <3> QED BY <1>3, <1>5, <3>3, DrawnAppend, Zenon
  <2>2. body \in Lists(C)
    BY <1>1, <1>4 DEF Lists
  <2>3. Drawn(C, t4, s4)
    BY <1>5, <2>1, <2>2, DrawnLines, Zenon
  <2> QED BY <1>3, <1>5, <2>3, DrawnAppend, Zenon
<1>7. t5 = Printed
  <2>1. Separator(w) = Append(R, LF)
    BY <1>2, <1>3, SeparatorIs, Zenon
  <2>2. TableLine(w, columns) = Append(H, LF)
    BY <1>2, <1>3, TableLineIs, Zenon
  <2>3. [r \in DOMAIN rows |-> TableLine(w, rows[r])] = Ended(body)
    <3>1. \A r \in 1 .. m : TableLine(w, rows[r]) = Append(body[r], LF)
      BY <1>3, TableLineIs, Zenon
    <3> QED BY <1>3, <1>4, <3>1, Zenon DEF Ended
  <2>4. Append(R, LF) \in Seq(C \cup {LF})
    <3>1. PICK D : D = C \cup {LF}
      OBVIOUS
    <3>2. R \in Seq(D) /\ LF \in D
      BY <1>3, <3>1, SeqSubset
    <3> QED BY <3>1, <3>2
  <2>5. t1 = Separator(w)
    <3>1. PICK D, u : D = C \cup {LF} /\ u = Append(R, LF)
      OBVIOUS
    <3>2. u \in Seq(D)
      BY <2>4, <3>1
    <3>3. <<>> \o u = u
      BY <3>2
    <3> QED BY <1>5, <2>1, <3>1, <3>3
  <2>6. Printed = Separator(w) \o TableLine(w, columns) \o Separator(w)
                    \o FlattenSeq([r \in DOMAIN rows |-> TableLine(w, rows[r])]) \o Separator(w)
    BY <1>1 DEF Printed, Drawing
  <2> QED BY <1>5, <2>1, <2>2, <2>3, <2>5, <2>6, Zenon
<1>8. Screen(Printed) = s5
  BY <1>6, <1>7 DEF Drawn
<1>9. /\ s5 \in Seq(L) /\ Len(s5) = m + 4
      /\ s5[1] = R /\ s5[2] = H /\ s5[3] = R
      /\ \A r \in 1 .. m : s5[r + 3] = body[r]
      /\ s5[m + 4] = R
  <2>1. R \in L /\ H \in L
    BY <1>1, <1>3
  <2>2. s3 \in Seq(L) /\ Len(s3) = 3 /\ s3[1] = R /\ s3[2] = H /\ s3[3] = R
    BY <1>5, <2>1
  <2>3. /\ s4 \in Seq(L) /\ Len(s4) = 3 + m
        /\ \A i \in 1 .. 3 : s4[i] = s3[i]
        /\ \A r \in 1 .. m : s4[3 + r] = body[r]
    BY <1>4, <1>5, <2>2
  <2>4. /\ s5 \in Seq(L) /\ Len(s5) = (3 + m) + 1 /\ s5[(3 + m) + 1] = R
        /\ \A i \in 1 .. 3 + m : s5[i] = s4[i]
    BY <1>5, <2>1, <2>3, AppendProperties
  <2>5. 1 \in 1 .. 3 + m /\ 2 \in 1 .. 3 + m /\ 3 \in 1 .. 3 + m /\ (3 + m) + 1 = m + 4
        /\ \A r \in 1 .. m : 3 + r \in 1 .. 3 + m /\ r + 3 = 3 + r
    BY <1>3
  <2> QED BY <2>2, <2>3, <2>4, <2>5
<1>10. Lines(s5, w)
  BY <1>2, <1>3, <1>9 DEF Lines
<1> QED BY <1>1, <1>8, <1>9, <1>10

LEMMA AllAligned ==
  ASSUME NEW S, IsTable(S)
  PROVE  Aligned
<1>1. PICK w, m, screen, C : /\ w = Widths(columns, rows) /\ m = Len(rows) /\ screen = Screen(Printed)
                             /\ C = Glyphs(S)
  OBVIOUS
<1>2. PICK ends : ToWidths(S, w, ends)
  BY <1>1, DrawnToWidths
<1>3. screen \in Seq(Seq(C)) /\ Lines(screen, w) /\ m \in Nat
  <2>1. m \in Nat
    BY <1>1 DEF IsTable
  <2> QED BY <1>1, <2>1, ScreenIs
<1>4. Len(screen) = m + 4 /\ DOMAIN screen = 1 .. m + 4
  BY <1>1, <1>3 DEF Lines
<1>5. PICK z : z = ends[Len(w)] + 1
  OBVIOUS
<1>6. /\ Len(RuleLine(w)) = z /\ Len(CellLine(w, columns)) = z
      /\ \A r \in 1 .. m : Len(CellLine(w, rows[r])) = z
  <2>1. Len(RuleLine(w)) = z
    BY <1>2, <1>5, RuleLineIs DEF ToWidths
  <2> QED BY <1>1, <1>2, <1>5, <2>1 DEF ToWidths, Shows
<1>7. ASSUME NEW i \in 1 .. m + 4 PROVE Len(screen[i]) = z
  <2>1. CASE i \in {1, 2, 3, m + 4}
    BY <1>1, <1>3, <1>6, <2>1 DEF Lines
  <2>2. CASE i \notin {1, 2, 3, m + 4}
    <3>1. i - 3 \in 1 .. m /\ i = (i - 3) + 3
      BY <1>3, <2>2
    <3>2. screen[(i - 3) + 3] = CellLine(w, rows[i - 3])
      BY <1>1, <1>3, <3>1 DEF Lines
    <3> QED BY <1>6, <3>1, <3>2
  <2> QED BY <2>1, <2>2
<1>8. 1 \in 1 .. m + 4
  BY <1>3
<1> QED BY <1>1, <1>4, <1>7, <1>8 DEF Aligned, Range

InPlaceOf(drawn, text, crosses) ==
  /\ \A i \in Range(crosses) : drawn[i] = "|"
  /\ \A c \in DOMAIN columns :
       SubSeq(drawn, crosses[c] + 1, crosses[c + 1] - 1)
         = <<Space>> \o text[c] \o Fill(Space, crosses[c + 1] - crosses[c] - Len(text[c]) - 2)

LEMMA AllInPlace ==
  ASSUME NEW S, IsTable(S)
  PROVE  CellsInPlace
<1>1. PICK w, n, m, screen, crosses : /\ w = Widths(columns, rows) /\ n = Len(columns) /\ m = Len(rows)
                                      /\ screen = Screen(Printed) /\ crosses = Places(screen[1], "+")
  OBVIOUS
<1>2. PICK ends : ToWidths(S, w, ends)
  BY <1>1, DrawnToWidths
<1>3. /\ Lines(screen, w) /\ n \in Nat /\ DOMAIN columns = 1 .. n /\ m \in Nat /\ DOMAIN rows = 1 .. m
      /\ \A c \in 1 .. n : columns[c] \in Seq(S)
      /\ \A r \in 1 .. m : \A c \in 1 .. n : rows[r][c] \in Seq(S)
  <2>1. Lines(screen, w)
    BY <1>1, ScreenIs
  <2> QED BY <1>1, <2>1 DEF IsTable
<1>4. /\ w \in Seq(Nat) /\ Len(w) = n /\ ends[0] = 0
      /\ \A c \in 0 .. n : ends[c] \in Nat
      /\ \A c \in 1 .. n : w[c] \in Nat /\ ends[c] = ends[c - 1] + (w[c] + 3)
  <2>1. w \in Seq(Nat) /\ Len(w) = n /\ Spans(w, ends)
    BY <1>1, <1>2 DEF ToWidths
  <2>2. \A c \in 1 .. n : w[c] \in Nat
    BY <2>1
  <2>3. ends \in [0 .. n -> Nat] /\ ends[0] = 0 /\ \A c \in 1 .. n : ends[c] = ends[c - 1] + (w[c] + 3)
    BY <2>1 DEF Spans
  <2> QED BY <2>1, <2>2, <2>3
<1>5. crosses = [k \in 1 .. n + 1 |-> ends[k - 1] + 1]
  <2>1. Places(RuleLine(w), "+") = [k \in 1 .. Len(w) + 1 |-> ends[k - 1] + 1]
    BY <1>2, RuleLineIs DEF ToWidths
  <2>2. screen[1] = RuleLine(w)
    BY <1>3 DEF Lines
  <2> QED BY <1>1, <1>4, <2>1, <2>2
<1>6. /\ Len(crosses) = n + 1 /\ DOMAIN crosses = 1 .. n + 1
      /\ \A k \in 1 .. n + 1 : crosses[k] = ends[k - 1] + 1
  <2>1. \A k \in 1 .. n + 1 : crosses[k] = ends[k - 1] + 1
    BY <1>5
  <2>2. \A k \in 1 .. n + 1 : crosses[k] \in Nat
    <3> SUFFICES ASSUME NEW k \in 1 .. n + 1 PROVE crosses[k] \in Nat
      OBVIOUS
    <3>1. k - 1 \in 0 .. n
      BY <1>3
    <3>2. ends[k - 1] \in Nat
      BY <1>4, <3>1
    <3> QED BY <2>1, <3>2
  <2>3. crosses = [k \in 1 .. n + 1 |-> crosses[k]] /\ n + 1 \in Nat
    BY <1>3, <1>5
  <2>4. Len(crosses) = n + 1 /\ DOMAIN crosses = 1 .. n + 1
    BY <2>2, <2>3, IsSequence
  <2> QED BY <2>1, <2>4
<1>7. ASSUME NEW drawn, NEW text, Shows(drawn, w, ends, text), \A c \in 1 .. n : text[c] \in Seq(S)
      PROVE  InPlaceOf(drawn, text, crosses)
  <2>1. ASSUME NEW i \in Range(crosses) PROVE drawn[i] = "|"
    <3>1. PICK k \in 1 .. n + 1 : i = ends[k - 1] + 1
      BY <1>6 DEF Range
    <3>2. k = 1 \/ k - 1 \in 1 .. n
      BY <1>3
    <3>3. CASE k = 1
      <4>1. i = 1
        BY <1>4, <3>1, <3>3
      <4> QED BY <1>7, <4>1 DEF Shows
    <3>4. CASE k - 1 \in 1 .. n
      BY <1>4, <1>7, <3>1, <3>4 DEF Shows
    <3> QED BY <3>2, <3>3, <3>4
  <2>2. ASSUME NEW c \in 1 .. n
        PROVE  SubSeq(drawn, crosses[c] + 1, crosses[c + 1] - 1)
                 = <<Space>> \o text[c] \o Fill(Space, crosses[c + 1] - crosses[c] - Len(text[c]) - 2)
    <3>1. PICK a, b, l : a = ends[c - 1] /\ b = ends[c] /\ l = Len(text[c])
      OBVIOUS
    <3>2. a \in Nat /\ b \in Nat /\ l \in Nat /\ w[c] \in Nat /\ b = a + (w[c] + 3)
      <4>1. c - 1 \in 0 .. n /\ c \in 0 .. n
        BY <1>3
      <4>2. l \in Nat
        BY <1>7, <3>1
      <4> QED BY <1>4, <3>1, <4>1, <4>2
    <3>3. crosses[c] = a + 1 /\ crosses[c + 1] = b + 1
      <4>1. c \in 1 .. n + 1 /\ c + 1 \in 1 .. n + 1 /\ (c + 1) - 1 = c
        BY <1>3
      <4> QED BY <1>6, <3>1, <4>1
    <3>4. /\ (a + 1) + 1 = a + 2 /\ (b + 1) - 1 = b
          /\ (b + 1) - (a + 1) - l - 2 = w[c] + 1 - l
      BY <3>2
    <3>5. SubSeq(drawn, a + 2, b) = <<Space>> \o text[c] \o Fill(Space, w[c] + 1 - l)
      BY <1>4, <1>7, <3>1, Zenon DEF Shows
    <3> QED BY <3>1, <3>3, <3>4, <3>5, Zenon
  <2> QED BY <1>3, <2>1, <2>2, Zenon DEF InPlaceOf
<1>8. /\ Shows(screen[2], w, ends, columns)
      /\ \A r \in 1 .. m : Shows(screen[r + 3], w, ends, rows[r])
  BY <1>1, <1>2, <1>3, Zenon DEF ToWidths, Lines
<1>9. InPlaceOf(screen[2], columns, crosses)
  BY <1>3, <1>7, <1>8, Zenon
<1>10. ASSUME NEW r \in 1 .. m PROVE InPlaceOf(screen[r + 3], rows[r], crosses)
  BY <1>3, <1>7, <1>8, Zenon
<1> QED BY <1>1, <1>3, <1>6, <1>9, <1>10, Zenon DEF CellsInPlace, InPlaceOf

-----------------------------------------------------------------------------
TableInv ==
  /\ columns \in Seq(ColumnName)
  /\ rows \in Seq([DOMAIN columns -> Cell])

LEMMA TableInvHolds == TableSpec => []TableInv
<1>1. TableInit => TableInv
  <2> SUFFICES ASSUME TableInit PROVE TableInv
    OBVIOUS
  <2>1. PICK n \in Nat : columns \in [1 .. n -> ColumnName]
    BY DEF TableInit
  <2>2. columns \in Seq(ColumnName)
    BY <2>1
  <2> QED BY <2>2 DEF TableInit, TableInv
<1>2. TableInv /\ [TableNext]_<<columns, rows>> => TableInv'
  <2> SUFFICES ASSUME TableInv, [TableNext]_<<columns, rows>> PROVE TableInv'
    OBVIOUS
  <2>1. CASE TableNext
    <3>1. PICK row \in [DOMAIN columns -> Cell] : rows' = Append(rows, row)
      BY <2>1 DEF TableNext
    <3>2. columns' = columns
      BY <2>1 DEF TableNext
    <3> QED BY <3>1, <3>2 DEF TableInv
  <2>2. CASE UNCHANGED <<columns, rows>>
    BY <2>2 DEF TableInv
  <2> QED BY <2>1, <2>2
<1> QED BY <1>1, <1>2, PTL DEF TableSpec

LEMMA TablesOverS ==
  ASSUME NEW CONSTANT S, LF \notin S, ColumnName \cup Cell \subseteq Seq(S), TableInv
  PROVE  IsTable(S)
<1>1. PICK L, D : L = Seq(S) /\ D = [DOMAIN columns -> Cell]
  OBVIOUS
<1>2. columns \in Seq(ColumnName) /\ ColumnName \subseteq L /\ Cell \subseteq L /\ rows \in Seq(D)
  BY <1>1 DEF TableInv
<1>3. columns \in Seq(L) /\ DOMAIN columns = 1 .. Len(columns)
  BY <1>2, SeqSubset
<1>4. Len(rows) \in Nat /\ DOMAIN rows = 1 .. Len(rows) /\ \A r \in 1 .. Len(rows) : rows[r] \in D
  BY <1>2
<1>5. \A r \in 1 .. Len(rows) : \A c \in 1 .. Len(columns) : rows[r][c] \in L
  BY <1>1, <1>2, <1>3, <1>4
<1> QED BY <1>1, <1>3, <1>4, <1>5 DEF IsTable

\* Whatever is shown, all lines are as wide as the first, provided that no text
\* that is shown has a line break: LineBreaks.cfg shows a table broken by one.
\* print_execution_result measures its columns over the header and all rows.
THEOREM TableAligned ==
  ASSUME NEW CONSTANT S, LF \notin S, ColumnName \cup Cell \subseteq Seq(S)
  PROVE  TableSpec => []Aligned
<1>1. TableInv => Aligned
  BY TablesOverS, AllAligned
<1> QED BY <1>1, TableInvHolds, PTL

\* And every text is in its row, under its name, with bars where the crosses are.
THEOREM TextsInPlace ==
  ASSUME NEW CONSTANT S, LF \notin S, ColumnName \cup Cell \subseteq Seq(S)
  PROVE  TableSpec => []CellsInPlace
<1>1. TableInv => CellsInPlace
  BY TablesOverS, AllInPlace
<1> QED BY <1>1, TableInvHolds, PTL
-----------------------------------------------------------------------------
(* The buffers.                                                            *)

\* Doubling makes room for one more, whatever the first capacity is.
LEMMA DoubledRoom ==
  ASSUME TypeOK, NEW first \in Nat, first > 2
  PROVE  Doubled(first) \in Nat /\ Doubled(first) > capacity /\ Doubled(first) > 1
  BY DEF TypeOK, Doubled

\* A list has room for the item that is appended: string_list_append and its like.
LEMMA AppendRoom ==
  ASSUME BuffersInv, ListAppend \/ TokenAppend
  PROVE  BuffersInv'
<1>1. CASE ListAppend
  BY <1>1, DoubledRoom DEF BuffersInv, TypeOK, InBounds, Room, ListAppend, Put, Kinds
<1>2. CASE TokenAppend
  BY <1>2, DoubledRoom DEF BuffersInv, TypeOK, InBounds, Room, TokenAppend, Put, Kinds
<1> QED BY <1>1, <1>2

\* The tests of split_pipe_line and read_string_token keep room for the NUL.
LEMMA TextRoom ==
  ASSUME BuffersInv, FieldChar \/ LiteralChar \/ TextEnd
  PROVE  BuffersInv'
<1> USE DEF BuffersInv, TypeOK, InBounds, Room, Kinds
<1>1. CASE FieldChar
  BY <1>1 DEF FieldChar, Put, Doubled
<1>2. CASE LiteralChar
  BY <1>2 DEF LiteralChar, Put, Doubled
<1>3. CASE TextEnd
  BY <1>3 DEF TextEnd
<1> QED BY <1>1, <1>2, <1>3

\* So does the test of escape_field, also for a pair.
LEMMA EscapedRoom ==
  ASSUME BuffersInv, EscapedChar \/ EscapedEnd
  PROVE  BuffersInv'
<1> USE DEF BuffersInv, TypeOK, InBounds, Room, Kinds
<1>1. CASE EscapedChar
  <2>1. PICK extra \in {1, 2} :
          /\ capacity' = IF length + extra + 1 >= capacity THEN capacity * 2 + extra + 1 ELSE capacity
          /\ Put(extra)
    BY <1>1 DEF EscapedChar
  <2> QED BY <1>1, <2>1 DEF EscapedChar, Put
<1>2. CASE EscapedEnd
  BY <1>2 DEF EscapedEnd, Finish
<1> QED BY <1>1, <1>2

\* The length that serialize_row adds up is one more than the row needs.
LEMMA RowRoom ==
  ASSUME BuffersInv, MeasureField \/ AllocateRow \/ CopyField \/ CopyNewline, BoundsAssumption
  PROVE  BuffersInv'
<1> USE DEF BuffersInv, TypeOK, InBounds, Room, Kinds
<1>1. CASE MeasureField
  BY <1>1, BoundsAssumption DEF MeasureField
<1>2. CASE AllocateRow
  BY <1>2 DEF AllocateRow
<1>3. CASE CopyField
  BY <1>3, BoundsAssumption DEF CopyField
<1>4. CASE CopyNewline
  BY <1>4 DEF CopyNewline
<1> QED BY <1>1, <1>2, <1>3, <1>4

LEMMA InvInit == Init => BuffersInv
  BY DEF Init, Nothing, BuffersInv, TypeOK, InBounds, Room, Kinds

LEMMA InvNext == BuffersInv /\ [Next]_vars => BuffersInv'
<1> SUFFICES ASSUME BuffersInv, [Next]_vars PROVE BuffersInv'
  OBVIOUS
<1>1. CASE BeginList \/ BeginTokens \/ BeginField \/ BeginLiteral \/ BeginEscaped \/ BeginMeasure
  BY <1>1 DEF BuffersInv, TypeOK, InBounds, Room, Kinds, Begin, Nothing,
              BeginList, BeginTokens, BeginField, BeginLiteral, BeginEscaped, BeginMeasure
<1>2. CASE ListAppend \/ TokenAppend
  BY <1>2, AppendRoom
<1>3. CASE ListEnd
  BY <1>3 DEF BuffersInv, TypeOK, InBounds, Room, Kinds, ListEnd, Finish
<1>4. CASE FieldChar \/ LiteralChar \/ TextEnd
  BY <1>4, TextRoom
<1>5. CASE EscapedChar \/ EscapedEnd
  BY <1>5, EscapedRoom
<1>6. CASE MeasureField \/ AllocateRow \/ CopyField \/ CopyNewline
  BY <1>6, RowRoom, BoundsAssumption
<1>7. CASE UNCHANGED vars
  BY <1>7 DEF vars, BuffersInv, TypeOK, InBounds, Room
<1> QED BY <1>1, <1>2, <1>3, <1>4, <1>5, <1>6, <1>7 DEF Next

\* No buffer is ever written behind its end, for texts, lists and rows of any
\* length: the growth of string_list_append, token_list_append, split_pipe_line,
\* read_string_token and escape_field, and the one allocation of serialize_row.
THEOREM BuffersInBounds == Spec => []InBounds
<1>1. BuffersInv => InBounds
  BY DEF BuffersInv
<1> QED BY <1>1, InvInit, InvNext, PTL DEF Spec
=============================================================================
