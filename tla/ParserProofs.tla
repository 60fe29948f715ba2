---------------------------- MODULE ParserProofs ----------------------------
(***************************************************************************)
(* The front end, for every alphabet and texts of every length:            *)
(* tokenize_sql stays inside its text, finds the longest element at each   *)
(* position and returns well formed tokens, the cursor of the parser never *)
(* passes TOKEN_END, and its statements are well formed.                   *)
(***************************************************************************)
EXTENDS StatementPaths, Lexemes, SeqLemmas, FiniteSetTheorems

-----------------------------------------------------------------------------
(* The tokenizer.                                                          *)

\* A character that is not the terminator is one of the text.
LEMMA AtChar ==
  ASSUME source \in Text, NEW i \in Nat, At(i) # NUL
  PROVE  i \in 1 .. Len(source) /\ At(i) = source[i] /\ At(i) \in Char
  BY DEF At, Text

\* A run of characters ends inside the text or at its terminator.
LEMMA SpanEndRange ==
  ASSUME source \in Text, NEW i \in 1 .. Len(source) + 1, NEW S, NUL \notin S
  PROVE  /\ SpanEnd(i, S) \in i .. Len(source) + 1
         /\ At(SpanEnd(i, S)) \notin S
         /\ \A k \in i .. SpanEnd(i, S) - 1 : At(k) \in S
<1> DEFINE N == Len(source)
           T == {j \in i .. N + 1 : At(j) \notin S}
<1>0. N \in Nat /\ DOMAIN source = 1 .. N
  BY DEF Text
<1>1. N + 1 \in T
  BY <1>0 DEF At
<1>2. T \subseteq Nat /\ T # {}
  BY <1>0, <1>1
<1>3. PICK j \in T : \A k \in T : j <= k
  <2> HIDE DEF T
  <2> QED BY <1>2, LeastNat
<1>4. \A k \in i .. j - 1 : At(k) \in S
  <2> SUFFICES ASSUME NEW k \in i .. j - 1, At(k) \notin S PROVE FALSE
    OBVIOUS
  <2>1. k \in T /\ ~(j <= k)
    BY <1>0, <1>3
  <2> QED BY <1>3, <2>1
<1>5. j \in i .. Len(source) + 1 /\ At(j) \notin S
  BY <1>3
<1>6. \E x \in i .. Len(source) + 1 : At(x) \notin S /\ \A k \in i .. x - 1 : At(k) \in S
  BY <1>4, <1>5
<1> HIDE DEF N, T
<1> QED BY <1>6 DEF SpanEnd

\* What a token copies out of the text is a text.
LEMMA PieceType ==
  ASSUME source \in Text, NEW i \in 1 .. Len(source) + 1, NEW j \in i .. Len(source) + 1
  PROVE  SubSeq(source, i, j - 1) \in Text
<1>1. source \in Seq(Char) /\ Len(source) \in Nat /\ DOMAIN source = 1 .. Len(source)
  BY DEF Text
<1>2. \A k \in i .. j - 1 : source[k] \in Char
  BY <1>1
<1>3. i \in Int /\ j - 1 \in Int
  BY <1>1
<1> QED BY <1>1, <1>2, <1>3, SubSeqProperties DEF Text

-----------------------------------------------------------------------------
\* The scan of read_string_token is well defined.
LEMMA StringFromIs ==
  ASSUME source \in Text, NEW i0 \in 1 .. Len(source) + 1
  PROVE  StringFrom[i0]
           = IF At(i0) = NUL THEN [close |-> 0, value |-> <<>>]
             ELSE IF At(i0) = Quote /\ At(i0 + 1) = Quote
                  THEN [StringFrom[i0 + 2] EXCEPT !.value = <<Quote>> \o @]
             ELSE IF At(i0) = Quote THEN [close |-> i0, value |-> <<>>]
             ELSE [StringFrom[i0 + 1] EXCEPT !.value = <<At(i0)>> \o @]
<1> DEFINE N == Len(source)
           Body(f, i) ==
             IF At(i) = NUL THEN [close |-> 0, value |-> <<>>]
             ELSE IF At(i) = Quote /\ At(i + 1) = Quote
                  THEN [f[i + 2] EXCEPT !.value = <<Quote>> \o @]
             ELSE IF At(i) = Quote THEN [close |-> i, value |-> <<>>]
             ELSE [f[i + 1] EXCEPT !.value = <<At(i)>> \o @]
           Dom(n) == (N + 1 - n) .. (N + 1)
           Good(n) == \E f : f = [i \in Dom(n) |-> Body(f, i)]
<1>0. N \in Nat /\ DOMAIN source = 1 .. N
  BY DEF Text
<1>a. ASSUME NEW i \in 1 .. N + 1
      PROVE  /\ At(i) # NUL => i \in 1 .. N /\ At(i) \in Char /\ i + 1 \in i + 1 .. N + 1
             /\ At(i) = Quote /\ At(i + 1) = Quote => i + 2 \in i + 1 .. N + 1 /\ At(i) # NUL
  <2>1. At(i) # NUL => i \in 1 .. N /\ At(i) \in Char
    BY <1>0, AtChar
  <2>2. At(i + 1) = Quote => i + 1 \in 1 .. N
    BY <1>0, AtChar, SourceAssumption
  <2>3. At(i) = Quote => At(i) # NUL
    BY SourceAssumption
  <2> QED BY <1>0, <2>1, <2>2, <2>3
<1>1. ASSUME NEW f, NEW g, NEW i \in 1 .. N + 1,
             \A j \in i + 1 .. N + 1 : f[j] = g[j]
      PROVE  Body(f, i) = Body(g, i)
  <2>1. At(i) # NUL => f[i + 1] = g[i + 1]
    BY <1>a, <1>1
  <2>2. At(i) = Quote /\ At(i + 1) = Quote => f[i + 2] = g[i + 2]
    BY <1>a, <1>1, SMTT(20)
  <2> QED BY <2>1, <2>2, Zenon
<1>2. Good(0)
  <2> DEFINE e == [i \in Dom(0) |-> Body(<<>>, i)]
  <2>1. ASSUME NEW i \in Dom(0) PROVE Body(<<>>, i) = Body(e, i)
    <3>1. i = N + 1 /\ i \in 1 .. N + 1
      BY <1>0
    <3>2. \A j \in i + 1 .. N + 1 : <<>>[j] = e[j]
      BY <1>0, <3>1
    <3> HIDE DEF e, Body, N
    <3> QED BY <1>1, <3>1, <3>2
  <2>2. e = [i \in Dom(0) |-> Body(e, i)]
    <3> HIDE DEF Body, Dom
    <3> QED BY <2>1
  <2> QED BY <2>2
<1>3. ASSUME NEW n \in Nat, n + 1 <= N, Good(n) PROVE Good(n + 1)
  <2> HIDE DEF Body
  <2>1. PICK f : f = [i \in Dom(n) |-> Body(f, i)]
    BY <1>3
  <2> DEFINE k == N - n
             g == [i \in Dom(n + 1) |-> IF i = k THEN Body(f, i) ELSE f[i]]
  <2>2. /\ Dom(n) \subseteq Dom(n + 1) /\ Dom(n + 1) \subseteq 1 .. N + 1
        /\ k \in Dom(n + 1) /\ k \notin Dom(n)
        /\ \A i \in Dom(n + 1) : i \in Dom(n) \/ i = k
        /\ \A i \in Dom(n + 1) : \A j \in i + 1 .. N + 1 : j \in Dom(n)
    <3>1. N \in Nat /\ n + 1 <= N
      BY <1>0, <1>3
    <3> HIDE DEF N, g
    <3> QED BY <3>1
  <2> HIDE DEF Dom, k
  <2>3. \A i \in Dom(n) : g[i] = f[i]
    BY <2>2
  <2>4. ASSUME NEW i \in Dom(n + 1) PROVE g[i] = Body(g, i)
    <3>1. \A j \in i + 1 .. N + 1 : f[j] = g[j]
      BY <2>2, <2>3
    <3>2. Body(f, i) = Body(g, i)
      <4> HIDE DEF g, N
      <4> QED BY <1>1, <2>2, <3>1
    <3>3. g[i] = Body(f, i)
      BY <2>1, <2>2
    <3> QED BY <3>2, <3>3
  <2>5. g = [i \in Dom(n + 1) |-> Body(g, i)]
    BY <2>4
  <2> QED BY <2>5
<1>4. Good(N)
  <2> DEFINE G == {n \in Nat : n <= N => Good(n)}
  <2> HIDE DEF Good
  <2>1. 0 \in G
    BY <1>2
  <2>2. ASSUME NEW n \in Nat, n \in G PROVE n + 1 \in G
    <3>1. n + 1 <= N => n <= N
      BY <1>0
    <3> QED BY <3>1, <1>3, <2>2
  <2>3. Nat \subseteq G
    <3> HIDE DEF G
    <3> QED BY <2>1, <2>2, SetInduction
  <2> QED BY <2>3, <1>0
<1> DEFINE found == CHOOSE f : f = [i \in 1 .. N + 1 |-> Body(f, i)]
<1>5. found = [i \in 1 .. N + 1 |-> Body(found, i)]
  <2>1. Dom(N) = 1 .. N + 1
    BY <1>0
  <2> HIDE DEF Dom, Body
  <2> QED BY <1>4, <2>1
<1>6. StringFrom = found
  BY DEF StringFrom
<1> HIDE DEF found, Body
<1>7. StringFrom[i0] = Body(StringFrom, i0)
  BY <1>5, <1>6
<1> QED BY <1>7 DEF Body

\* read_string_token finds the closing quote inside the text, or none, and the
\* value it collects is a text.
LEMMA StringFromType ==
  ASSUME source \in Text, NEW i0 \in 1 .. Len(source) + 1
  PROVE  /\ StringFrom[i0].close \in {0} \cup i0 .. Len(source)
         /\ StringFrom[i0].value \in Text
         /\ StringFrom[i0] \in [close : {0} \cup i0 .. Len(source), value : Text]
<1> DEFINE N == Len(source)
           Body(f, i) ==
             IF At(i) = NUL THEN [close |-> 0, value |-> <<>>]
             ELSE IF At(i) = Quote /\ At(i + 1) = Quote
                  THEN [f[i + 2] EXCEPT !.value = <<Quote>> \o @]
             ELSE IF At(i) = Quote THEN [close |-> i, value |-> <<>>]
             ELSE [f[i + 1] EXCEPT !.value = <<At(i)>> \o @]
           Dom(n) == (N + 1 - n) .. (N + 1)
           Found(i) == [close : {0} \cup i .. N, value : Text]
<1>0. N \in Nat /\ DOMAIN source = 1 .. N
  BY DEF Text
<1>a. ASSUME NEW i \in 1 .. N + 1
      PROVE  /\ At(i) # NUL => i \in 1 .. N /\ At(i) \in Char /\ i + 1 \in i + 1 .. N + 1
             /\ At(i) = Quote /\ At(i + 1) = Quote => i + 2 \in i + 1 .. N + 1 /\ At(i) # NUL
  <2>1. At(i) # NUL => i \in 1 .. N /\ At(i) \in Char
    BY <1>0, AtChar
  <2>2. At(i + 1) = Quote => i + 1 \in 1 .. N
    BY <1>0, AtChar, SourceAssumption
  <2>3. At(i) = Quote => At(i) # NUL
    BY SourceAssumption
  <2> QED BY <1>0, <2>1, <2>2, <2>3
<1>5. PICK found : found = StringFrom
  OBVIOUS
<1>6. \A i \in 1 .. N + 1 : found[i] = Body(found, i)
  BY <1>5, StringFromIs
<1>7. ASSUME NEW c \in Char, NEW i \in 1 .. N + 1, NEW j \in i .. N + 1, NEW r \in Found(j)
      PROVE  [r EXCEPT !.value = <<c>> \o @] \in Found(i)
  <2>1. <<c>> \o r.value \in Text
    BY DEF Text
  <2>2. r.close \in {0} \cup i .. N
    BY <1>0
  <2> DEFINE text == <<c>> \o r.value
  <2> HIDE DEF text
  <2>4. r \in [close : {0} \cup j .. N, value : Text]
    OBVIOUS
  <2>5. [r EXCEPT !.value = text] = [close |-> r.close, value |-> text]
    <3> HIDE DEF N
    <3> QED BY <2>4
  <2> QED BY <2>1, <2>2, <2>5 DEF text
<1>8. ASSUME NEW i \in 1 .. N + 1, \A j \in i + 1 .. N + 1 : found[j] \in Found(j)
      PROVE  found[i] \in Found(i)
  <2>1. found[i] = Body(found, i)
    <3> HIDE DEF Body
    <3> QED BY <1>6
  <2>2. CASE At(i) = NUL
    <3>1. [close |-> 0, value |-> <<>>] \in Found(i)
      BY DEF Text
    <3> QED BY <2>1, <2>2, <3>1, Zenon
  <2>3. CASE At(i) = Quote /\ At(i + 1) = Quote
    <3>1. i + 2 \in i + 1 .. N + 1 /\ Quote \in Char /\ At(i) # NUL
      BY <1>a, <2>3
    <3>2. i + 2 \in i .. N + 1 /\ found[i + 2] \in Found(i + 2)
      <4>1. i + 2 \in i .. N + 1
        BY <3>1, <1>0
      <4> HIDE DEF Found
      <4> QED BY <3>1, <4>1, <1>8
    <3>3. [found[i + 2] EXCEPT !.value = <<Quote>> \o @] \in Found(i)
      <4> HIDE DEF Found
      <4> QED BY <3>1, <3>2, <1>7
    <3> QED BY <2>1, <2>3, <3>1, <3>3, Zenon
  <2>4. CASE At(i) # NUL /\ At(i) = Quote /\ At(i + 1) # Quote
    <3>1. [close |-> i, value |-> <<>>] \in Found(i)
      <4>1. i \in i .. N
        BY <1>a, <2>4, <1>0
      <4> QED BY <4>1 DEF Text
    <3> QED BY <2>1, <2>4, <3>1, Zenon
  <2>5. CASE At(i) # NUL /\ At(i) # Quote
    <3>1. i + 1 \in i + 1 .. N + 1 /\ At(i) \in Char
      BY <1>a, <2>5
    <3>2. i + 1 \in i .. N + 1 /\ found[i + 1] \in Found(i + 1)
      <4>1. i + 1 \in i .. N + 1
        BY <3>1, <1>0
      <4> HIDE DEF Found
      <4> QED BY <3>1, <4>1, <1>8
    <3>3. [found[i + 1] EXCEPT !.value = <<At(i)>> \o @] \in Found(i)
      <4> HIDE DEF Found
      <4> QED BY <3>1, <3>2, <1>7
    <3> QED BY <2>1, <2>5, <3>3, Zenon
  <2> QED BY <2>2, <2>3, <2>4, <2>5, Zenon
<1>9. \A i \in 1 .. N + 1 : found[i] \in Found(i)
  <2> HIDE DEF Found
  <2> DEFINE H == {n \in Nat : n <= N => \A i \in Dom(n) : found[i] \in Found(i)}
  <2>1. 0 \in H
    BY <1>0, <1>8
  <2>2. ASSUME NEW n \in Nat, n \in H PROVE n + 1 \in H
    <3> SUFFICES ASSUME n + 1 <= N, NEW i \in Dom(n + 1) PROVE found[i] \in Found(i)
      OBVIOUS
    <3>1. \A j \in Dom(n) : found[j] \in Found(j)
      BY <2>2, <1>0
    <3>2. i \in 1 .. N + 1 /\ \A j \in i + 1 .. N + 1 : j \in Dom(n)
      BY <1>0
    <3> HIDE DEF Dom
    <3> QED BY <3>1, <3>2, <1>8
  <2>3. Nat \subseteq H
    <3> HIDE DEF H
    <3> QED BY <2>1, <2>2, SetInduction
  <2> QED BY <2>3, <1>0
<1> QED BY <1>5, <1>9

-----------------------------------------------------------------------------
\* A reserved word or an identifier.
LEMMA KeywordTypeType ==
  ASSUME NEW lexeme
  PROVE  KeywordType(lexeme) \in TokenType
<1> DEFINE words == {w \in DOMAIN Keyword : SameName(lexeme, w)}
<1>1. CASE words = {}
  BY <1>1 DEF KeywordType, TokenType
<1>2. CASE words # {}
  <2>1. (CHOOSE w \in words : TRUE) \in DOMAIN Keyword
    BY <1>2
  <2>2. KeywordType(lexeme) = Keyword[CHOOSE w \in words : TRUE]
    BY <1>2 DEF KeywordType
  <2> HIDE DEF words
  <2> QED BY <2>1, <2>2, SourceAssumption DEF TokenType
<1> QED BY <1>1, <1>2

\* The two ways in which a step that reads a token moves on.
LEMMA MoveToType ==
  ASSUME TokenizerTypeOK, UNCHANGED source, NEW i \in index + 1 .. Len(source) + 1,
         NEW columns \in Nat, MoveTo(i, columns), tokens' \in Seq(Token)
  PROVE  TokenizerTypeOK'
  BY DEF TokenizerTypeOK, MoveTo, Text

LEMMA AddTokenType ==
  ASSUME TokenizerTypeOK, NEW type \in TokenType, NEW lexeme \in Text, AddToken(type, lexeme)
  PROVE  tokens' \in Seq(Token)
<1>1. [type |-> type, lexeme |-> lexeme, line |-> line, column |-> column,
       start |-> index] \in Token
  BY DEF TokenizerTypeOK, Token, Text
<1> QED BY <1>1 DEF TokenizerTypeOK, AddToken

LEMMA FailsType ==
  ASSUME TokenizerTypeOK, UNCHANGED source, NEW position \in {NoPosition} \cup (Nat \X Nat),
         TokenizerFails(position)
  PROVE  TokenizerTypeOK'
  BY DEF TokenizerTypeOK, TokenizerFails

\* One turn of the loop keeps the index inside the text and the tokens well formed.
LEMMA TokenizeType ==
  ASSUME TokenizerTypeOK, Tokenize
  PROVE  TokenizerTypeOK'
<1> DEFINE N == Len(source)
<1>1. source \in Text /\ N \in Nat /\ index \in 1 .. N + 1 /\ index \in Nat /\ line \in Nat
      /\ line # 0 /\ column \in Nat /\ column # 0 /\ tokens \in Seq(Token)
  BY DEF TokenizerTypeOK, Text
<1>2. UNCHANGED source
  BY DEF Tokenize, SkipNewline, SkipBlank, LineComment, BlockComment, UnterminatedComment,
         Word, Number, StringLiteral, UnterminatedString, SymbolToken,
         UnexpectedCharacter, EndOfInput, Tokenizing
<1>3. LF # NUL /\ NUL \notin Char /\ NUL \notin Blank \cup Letter \cup Digit
      /\ NUL \notin {Quote, "-", "/", "*"} /\ NUL \notin Symbol
  BY SourceAssumption DEF Symbol
<1>4. ASSUME NEW i \in Nat, At(i) # NUL PROVE i \in 1 .. N /\ At(i) \in Char
  BY <1>1, <1>4, AtChar
<1>5. (At(index) # NUL => index + 1 \in index + 1 .. N + 1)
      /\ (At(index + 1) # NUL => index + 2 \in index + 1 .. N + 1)
  <2>1. At(index + 1) # NUL => index + 1 \in 1 .. N
    BY <1>1, <1>4
  <2> QED BY <1>1, <1>4, <2>1
<1>6. ASSUME NEW i \in index + 1 .. N + 1, NEW S, NUL \notin S
      PROVE  /\ SpanEnd(i, S) \in index + 1 .. N + 1
             /\ SpanEnd(i, S) - index \in Nat
  <2>1. SpanEnd(i, S) \in i .. N + 1
    BY <1>1, <1>6, SpanEndRange
  <2> HIDE DEF N
  <2> QED BY <1>1, <2>1
<1>7. CASE SkipNewline
  <2>1. index + 1 \in 1 .. N + 1
    BY <1>1, <1>3, <1>5, <1>7 DEF SkipNewline
  <2> QED BY <1>1, <1>2, <1>7, <2>1 DEF SkipNewline, TokenizerTypeOK
<1>8. CASE SkipBlank
  <2>1. index + 1 \in index + 1 .. N + 1
    BY <1>3, <1>5, <1>8 DEF SkipBlank
  <2> QED BY <1>1, <1>2, <1>8, <2>1, MoveToType DEF SkipBlank
<1>9. CASE LineComment
  <2> DEFINE end == SpanEnd(index + 2, Char \ {LF})
  <2>1. index + 2 \in index + 1 .. N + 1
    BY <1>3, <1>5, <1>9 DEF LineComment, StartsLineComment
  <2>2. end \in index + 1 .. N + 1 /\ end - index \in Nat
    BY <1>3, <1>6, <2>1
  <2>3. MoveTo(end, end - index) /\ tokens' = tokens
    BY <1>9 DEF LineComment
  <2> HIDE DEF end
  <2> QED BY <1>1, <1>2, <2>2, <2>3, MoveToType
<1>10. CASE BlockComment
  <2> DEFINE last == Min(CommentEnds)
             newlines == {k \in index + 2 .. last - 1 : At(k) = LF}
  <2>1. last \in CommentEnds
    <3>1. CommentEnds \subseteq Nat /\ CommentEnds # {}
      BY <1>1, <1>10 DEF BlockComment, CommentEnds
    <3>2. \E x \in CommentEnds : \A y \in CommentEnds : x <= y
      BY <3>1, LeastNat
    <3> QED BY <3>2 DEF Min
  <2>2. last \in index + 2 .. N /\ last \in Nat /\ last + 2 \in index + 1 .. N + 1
    <3>1. last \in index + 2 .. N /\ At(last + 1) = "/"
      BY <2>1 DEF CommentEnds
    <3>2. last \in Nat /\ last + 1 \in Nat
      BY <1>1, <3>1
    <3>3. last + 1 \in 1 .. N
      BY <1>3, <1>4, <3>1, <3>2
    <3> HIDE DEF last, N
    <3> QED BY <1>1, <3>1, <3>3
  <2> HIDE DEF last
  <2>3. Cardinality(newlines) \in Nat
    <3>1. IsFiniteSet(index + 2 .. last - 1)
      BY <1>1, <2>2, FS_Interval
    <3>2. newlines \subseteq index + 2 .. last - 1
      OBVIOUS
    <3> HIDE DEF newlines
    <3> QED BY <3>1, <3>2, FS_Subset, FS_CardinalityType
  <2>4. newlines # {} => Max(newlines) \in newlines
    <3> SUFFICES ASSUME newlines # {} PROVE Max(newlines) \in newlines
      OBVIOUS
    <3>1. newlines \subseteq 0 .. last
      BY <1>1, <2>2
    <3> HIDE DEF newlines
    <3>2. \E x \in newlines : \A y \in newlines : y <= x
      BY <2>2, <3>1, GreatestNat
    <3> QED BY <3>2 DEF Max
  <2>5. newlines # {} => last + 2 - Max(newlines) \in Nat \ {0}
    BY <1>1, <2>2, <2>4
  <2>6. column + last + 2 - index \in Nat \ {0}
    BY <1>1, <2>2
  <2>7. /\ index' = last + 2
        /\ line' = line + Cardinality(newlines)
        /\ column' = IF newlines = {} THEN column + last + 2 - index
                                      ELSE last + 2 - Max(newlines)
        /\ UNCHANGED <<tokens, phase, error>>
    BY <1>10 DEF BlockComment, last
  <2> HIDE DEF newlines
  <2>8. column' \in Nat \ {0}
    BY <2>5, <2>6, <2>7
  <2>9. line' \in Nat \ {0}
    BY <1>1, <2>3, <2>7
  <2>10. index' \in 1 .. Len(source) + 1
    BY <1>1, <2>2, <2>7
  <2> QED BY <1>1, <1>2, <2>7, <2>8, <2>9, <2>10 DEF TokenizerTypeOK
<1>11. CASE UnterminatedComment
  BY <1>2, <1>11, FailsType DEF UnterminatedComment
<1>12. CASE Word
  <2> DEFINE end == SpanEnd(index, Letter \cup Digit)
             lexeme == SubSeq(source, index, end - 1)
  <2>1. At(index) # NUL /\ index \in 1 .. N
    BY <1>1, <1>3, <1>4, <1>12 DEF Word
  <2>2. end \in index .. N + 1
    BY <1>1, <1>3, SpanEndRange
  <2>3. end # index
    BY <1>1, <1>3, <1>12, SpanEndRange DEF Word
  <2>4. end \in index + 1 .. N + 1 /\ end - index \in Nat
    BY <1>1, <2>2, <2>3
  <2>5. lexeme \in Text
    BY <1>1, <2>2, PieceType
  <2>6. AddToken(KeywordType(lexeme), lexeme) /\ MoveTo(end, end - index)
    BY <1>12 DEF Word
  <2> HIDE DEF end, lexeme
  <2>7. tokens' \in Seq(Token)
    BY <2>5, <2>6, KeywordTypeType, AddTokenType
  <2> QED BY <1>1, <1>2, <2>4, <2>6, <2>7, MoveToType
<1>13. CASE Number
  <2> DEFINE end == SpanEnd(index + 1, Digit)
             lexeme == SubSeq(source, index, end - 1)
  <2>1. index + 1 \in index + 1 .. N + 1
    BY <1>3, <1>5, <1>13 DEF Number, StartsNumber
  <2>2. end \in index + 1 .. N + 1 /\ end - index \in Nat
    BY <1>3, <1>6, <2>1
  <2>3. lexeme \in Text
    BY <1>1, <2>2, PieceType
  <2>4. AddToken("NUMBER", lexeme) /\ MoveTo(end, end - index)
    BY <1>13 DEF Number
  <2> HIDE DEF end, lexeme
  <2>5. tokens' \in Seq(Token)
    BY <2>3, <2>4, AddTokenType DEF TokenType
  <2> QED BY <1>1, <1>2, <2>2, <2>4, <2>5, MoveToType
<1>14. CASE StringLiteral
  <2> DEFINE found == StringFrom[index + 1]
  <2>1. index + 1 \in 1 .. N + 1
    BY <1>1, <1>3, <1>5, <1>14 DEF StringLiteral
  <2>2. found.close \in {0} \cup index + 1 .. N /\ found.value \in Text
    BY <1>1, <2>1, StringFromType
  <2>3. found.close # 0 /\ AddToken("STRING", found.value)
        /\ MoveTo(found.close + 1, found.close - index)
    BY <1>14 DEF StringLiteral
  <2> HIDE DEF found
  <2>4. found.close + 1 \in index + 1 .. N + 1 /\ found.close - index \in Nat
    BY <1>1, <2>2, <2>3
  <2>5. tokens' \in Seq(Token)
    BY <2>2, <2>3, AddTokenType DEF TokenType
  <2> QED BY <1>1, <1>2, <2>3, <2>4, <2>5, MoveToType
<1>15. CASE UnterminatedString
  <2>1. <<line, column>> \in Nat \X Nat
    BY <1>1
  <2> QED BY <1>2, <1>15, <2>1, FailsType DEF UnterminatedString
<1>16. CASE SymbolToken
  <2>1. At(index) # NUL /\ At(index) \in Symbol
    BY <1>3, <1>16 DEF SymbolToken
  <2>2. <<At(index)>> \in Text /\ At(index) \in TokenType
    BY <1>1, <1>4, <2>1 DEF Text, TokenType
  <2>3. tokens' \in Seq(Token)
    BY <1>16, <2>2, AddTokenType DEF SymbolToken
  <2>4. index + 1 \in index + 1 .. N + 1 /\ MoveTo(index + 1, 1)
    BY <1>5, <1>16, <2>1 DEF SymbolToken
  <2> QED BY <1>1, <1>2, <2>3, <2>4, MoveToType
<1>17. CASE UnexpectedCharacter
  <2>1. <<line, column>> \in Nat \X Nat
    BY <1>1
  <2> QED BY <1>2, <1>17, <2>1, FailsType DEF UnexpectedCharacter
<1>18. CASE EndOfInput
  <2>1. tokens' \in Seq(Token)
    <3>1. <<>> \in Text
      BY DEF Text
    <3> QED BY <1>18, <3>1, AddTokenType DEF EndOfInput, TokenType
  <2> QED BY <1>1, <1>2, <1>18, <2>1 DEF EndOfInput, TokenizerTypeOK
<1> QED BY <1>7, <1>8, <1>9, <1>10, <1>11, <1>12, <1>13, <1>14, <1>15, <1>16, <1>17, <1>18
        DEF Tokenize

\* tokenize_sql keeps the index inside the text or at its terminator, and every
\* token well formed, whatever the text (parser.c:215-387).
THEOREM TokenizerTypeCorrect == TokenizerSpec => []TokenizerTypeOK
<1>1. TokenizerInit => TokenizerTypeOK
  BY SourceAssumption DEF TokenizerInit, TokenizerTypeOK, NoPosition, Text
<1>2. TokenizerTypeOK /\ [Tokenize]_tvars => TokenizerTypeOK'
  <2>1. TokenizerTypeOK /\ UNCHANGED tvars => TokenizerTypeOK'
    BY DEF TokenizerTypeOK, tvars
  <2> QED BY <2>1, TokenizeType
<1> QED BY <1>1, <1>2, PTL DEF TokenizerSpec

-----------------------------------------------------------------------------
(* The parser.                                                             *)

InsertRecord == [type : {"INSERT"}, table : TableNames, columns : Seq(Text), values : Seq(Text)]
SelectRecord == [type : {"SELECT"}, table : TableNames, selectAll : BOOLEAN,
                 columns : Seq(Text), where : [enabled : BOOLEAN, column : Text, value : Text]]

InsertRules == {"into", "openColumns", "closeColumns", "values", "openValues", "literals",
                "closeValues"}
SelectRules == {"selection", "from", "where", "whereColumn", "equal", "whereValue"}

\* The tokens end with TOKEN_END, which the cursor has not passed.
CursorOK ==
  phase = "parse" => /\ tokens # <<>>
                     /\ tokens[Len(tokens)].type = "END"
                     /\ current \in 1 .. Len(tokens)

\* Inside a statement there is one, and it has the fields that the rule fills in.
StatementOK ==
  /\ rule \in {"statement", "table", "qualified", "columns", "end"} \cup InsertRules \cup SelectRules
  /\ rule \in InsertRules => statement \in InsertRecord
  /\ rule \in SelectRules => statement \in SelectRecord
  /\ rule \in {"table", "qualified", "columns", "end"} => statement \in InsertRecord \cup SelectRecord
  /\ rule = "statement" => statement = NoStatement

ParserInv ==
  /\ TokenizerTypeOK
  /\ CursorOK
  /\ StatementOK
  /\ phase = "tokenize" => current = 1
  /\ script \in Seq(StatementRecord)

LEMMA RecordsOfStatements ==
  StatementRecord = {NoStatement} \cup InsertRecord \cup SelectRecord
  BY DEF StatementRecord, InsertRecord, SelectRecord

LEMMA RulesOfParser ==
  DOMAIN Accepts = {"statement", "table", "qualified", "columns"} \cup InsertRules
                   \cup (SelectRules \ {"where"})
  BY DEF Accepts, InsertRules, SelectRules

\* Filling in a part of a statement leaves it a statement.
LEMMA FilledIn ==
  ASSUME NEW x \in Text
  PROVE  /\ \A r \in InsertRecord : /\ [r EXCEPT !.table = <<x>>] \in InsertRecord
                                    /\ [r EXCEPT !.table = Append(@, x)] \in InsertRecord
                                    /\ [r EXCEPT !.columns = Append(@, x)] \in InsertRecord
                                    /\ [r EXCEPT !.values = Append(@, x)] \in InsertRecord
         /\ \A r \in SelectRecord : /\ [r EXCEPT !.table = <<x>>] \in SelectRecord
                                    /\ [r EXCEPT !.table = Append(@, x)] \in SelectRecord
                                    /\ [r EXCEPT !.columns = Append(@, x)] \in SelectRecord
<1> DEFINE List == Seq(Text)
<1>1. <<x>> \in List /\ \A l \in List : Append(l, x) \in List
  OBVIOUS
<1>2. InsertRecord = [type : {"INSERT"}, table : List, columns : List, values : List]
  BY DEF InsertRecord, TableNames
<1>3. SelectRecord = [type : {"SELECT"}, table : List, selectAll : BOOLEAN, columns : List,
                      where : [enabled : BOOLEAN, column : Text, value : Text]]
  BY DEF SelectRecord, TableNames
<1> DEFINE WhereRecord == [enabled : BOOLEAN, column : Text, value : Text]
<1> HIDE DEF List, WhereRecord
<1>4. ASSUME NEW r \in InsertRecord
      PROVE  /\ r.table \in List /\ r.columns \in List /\ r.values \in List
             /\ \A l \in List : /\ [r EXCEPT !.table = l] \in InsertRecord
                               /\ [r EXCEPT !.columns = l] \in InsertRecord
                               /\ [r EXCEPT !.values = l] \in InsertRecord
  BY <1>2
<1>5. ASSUME NEW r \in SelectRecord
      PROVE  /\ r.table \in List /\ r.columns \in List
             /\ \A l \in List : /\ [r EXCEPT !.table = l] \in SelectRecord
                               /\ [r EXCEPT !.columns = l] \in SelectRecord
  BY <1>3
<1> QED BY <1>1, <1>4, <1>5

-----------------------------------------------------------------------------
\* A token that is not TOKEN_END has another one after it.
LEMMA NextToken ==
  ASSUME ParserInv, phase = "parse", NEW i \in current .. Len(tokens), tokens[i].type # "END"
  PROVE  i + 1 \in current .. Len(tokens)
<1>1. current \in 1 .. Len(tokens) /\ tokens[Len(tokens)].type = "END" /\ Len(tokens) \in Nat
  BY DEF ParserInv, CursorOK, TokenizerTypeOK
<1> QED BY <1>1

\* A rule accepts TOKEN_END between statements only.
LEMMA NotEnd ==
  ASSUME ParserInv, NEW rules, rules \subseteq DOMAIN Accepts \ {"statement"}, Parsing(rules)
  PROVE  /\ phase = "parse" /\ rule \in rules /\ UNCHANGED tvars
         /\ Peek.type # "END" /\ Peek.lexeme \in Text
         /\ current \in 1 .. Len(tokens) /\ current + 1 \in 1 .. Len(tokens)
<1>1. phase = "parse" /\ rule \in rules /\ Peek.type \in Accepts[rule] /\ UNCHANGED tvars
  BY DEF Parsing
<1>2. current \in 1 .. Len(tokens) /\ current \in current .. Len(tokens) /\ Len(tokens) \in Nat
  BY <1>1 DEF ParserInv, CursorOK, TokenizerTypeOK
<1>3. Peek \in Token
  BY <1>2 DEF Peek, ParserInv, TokenizerTypeOK
<1>4. Peek.type # "END"
  <2>1. rule \in {"table", "qualified", "columns", "into", "openColumns", "closeColumns",
                 "values", "openValues", "literals", "closeValues", "selection", "from",
                 "whereColumn", "equal", "whereValue"}
    <3>1. rule \in DOMAIN Accepts \ {"statement"}
      BY <1>1
    <3> QED BY <3>1, RulesOfParser DEF InsertRules, SelectRules
  <2>2. Accepts[rule] \in {{"IDENTIFIER"}, {"INTO"}, {"("}, {")"}, {"VALUES"}, {"FROM"}, {"="},
                           {"*", "IDENTIFIER"}, Literal}
    <3>1. /\ Accepts["table"] = {"IDENTIFIER"}       /\ Accepts["qualified"] = {"IDENTIFIER"}
          /\ Accepts["columns"] = {"IDENTIFIER"}     /\ Accepts["whereColumn"] = {"IDENTIFIER"}
          /\ Accepts["into"] = {"INTO"}              /\ Accepts["openColumns"] = {"("}
          /\ Accepts["closeColumns"] = {")"}         /\ Accepts["values"] = {"VALUES"}
          /\ Accepts["openValues"] = {"("}           /\ Accepts["closeValues"] = {")"}
          /\ Accepts["from"] = {"FROM"}              /\ Accepts["equal"] = {"="}
          /\ Accepts["selection"] = {"*", "IDENTIFIER"}
          /\ Accepts["literals"] = Literal           /\ Accepts["whereValue"] = Literal
      BY DEF Accepts
    <3> QED BY <2>1, <3>1
  <2>3. "END" \notin Accepts[rule]
    BY <2>2 DEF Literal
  <2> QED BY <1>1, <2>3
<1>5. current + 1 \in current .. Len(tokens)
  BY <1>1, <1>2, <1>4, NextToken DEF Peek
<1> QED BY <1>1, <1>2, <1>3, <1>4, <1>5 DEF Token

\* A step of the parser that moves the cursor over tokens before TOKEN_END.
LEMMA AdvanceKeeps ==
  ASSUME ParserInv, phase = "parse", UNCHANGED tvars, NEW count \in Nat, NEW next,
         current + count \in 1 .. Len(tokens), Advance(count, next)
  PROVE  /\ TokenizerTypeOK' /\ CursorOK' /\ (phase = "tokenize" => current = 1)'
         /\ rule' = next
<1>1. TokenizerTypeOK'
  BY DEF ParserInv, TokenizerTypeOK, tvars
<1> QED BY <1>1 DEF ParserInv, CursorOK, Advance, tvars

\* After an item of a list there is another item, or what follows the list.
LEMMA NextItemKeeps ==
  ASSUME ParserInv, NEW rules, rules \subseteq DOMAIN Accepts \ {"statement"}, Parsing(rules),
         NEW next, NextItem(next)
  PROVE  /\ TokenizerTypeOK' /\ CursorOK' /\ (phase = "tokenize" => current = 1)'
         /\ rule' \in {next, IF rule = "selection" THEN "columns" ELSE rule}
<1> DEFINE again == IF rule = "selection" THEN "columns" ELSE rule
<1>1. /\ phase = "parse" /\ UNCHANGED tvars
      /\ current \in 1 .. Len(tokens) /\ current + 1 \in 1 .. Len(tokens)
  BY NotEnd
<1>2. ASSUME Comma PROVE current + 2 \in 1 .. Len(tokens)
  <2>0. tokens[current + 1].type # "END"
    BY <1>2 DEF Comma
  <2>1. current + 1 \in current .. Len(tokens) /\ current + 1 \in Nat
    BY <1>1
  <2>2. (current + 1) + 1 \in current .. Len(tokens)
    BY <1>1, <2>0, <2>1, NextToken
  <2> QED BY <1>1, <2>1, <2>2
<1> HIDE DEF again
<1>3. CASE Comma
  <2>1. Advance(2, again)
    BY <1>3 DEF NextItem, again
  <2> QED BY <1>1, <1>2, <1>3, <2>1, AdvanceKeeps DEF again
<1>4. CASE ~Comma
  <2>1. Advance(1, next)
    BY <1>4 DEF NextItem
  <2> QED BY <1>1, <2>1, AdvanceKeeps
<1> QED BY <1>3, <1>4

-----------------------------------------------------------------------------
\* Every step of the parser keeps the invariant; one case per action.
LEMMA ParseKeeps ==
  ASSUME ParserInv, Parse
  PROVE  ParserInv'
<1> USE DEF InsertRules, SelectRules
<1>1. script \in Seq(StatementRecord) /\ StatementOK
  BY DEF ParserInv
<1>2. <<>> \in Text /\ <<>> \in Seq(Text)
  BY DEF Text
<1>3. phase = "parse" => current \in 1 .. Len(tokens) /\ Len(tokens) \in Nat
  BY DEF ParserInv, CursorOK, TokenizerTypeOK
<1>4. phase = "parse" /\ Peek.type # "END" => current + 1 \in 1 .. Len(tokens)
  BY <1>3, NextToken DEF Peek
<1>5. CASE SkipSemicolon
  <2>1. phase = "parse" /\ rule = "statement" /\ UNCHANGED tvars /\ Advance(1, "statement")
        /\ current + 1 \in 1 .. Len(tokens) /\ UNCHANGED <<statement, script>>
    BY <1>4, <1>5 DEF SkipSemicolon, Parsing
  <2>2. TokenizerTypeOK' /\ CursorOK' /\ (phase = "tokenize" => current = 1)' /\ rule' = "statement"
    BY <2>1, AdvanceKeeps
  <2> QED BY <1>1, <2>1, <2>2 DEF ParserInv, StatementOK
<1>6. CASE BeginInsert
  <2>1. phase = "parse" /\ UNCHANGED tvars /\ Advance(1, "into")
        /\ current + 1 \in 1 .. Len(tokens) /\ script' = script
    BY <1>4, <1>6 DEF BeginInsert, Parsing
  <2>2. TokenizerTypeOK' /\ CursorOK' /\ (phase = "tokenize" => current = 1)' /\ rule' = "into"
    BY <2>1, AdvanceKeeps
  <2>3. statement' \in InsertRecord
    BY <1>2, <1>6 DEF BeginInsert, InsertRecord, TableNames
  <2> QED BY <1>1, <2>1, <2>2, <2>3 DEF ParserInv, StatementOK
<1>7. CASE BeginSelect
  <2>1. phase = "parse" /\ UNCHANGED tvars /\ Advance(1, "selection")
        /\ current + 1 \in 1 .. Len(tokens) /\ script' = script
    BY <1>4, <1>7 DEF BeginSelect, Parsing
  <2>2. TokenizerTypeOK' /\ CursorOK' /\ (phase = "tokenize" => current = 1)' /\ rule' = "selection"
    BY <2>1, AdvanceKeeps
  <2>3. statement' \in SelectRecord
    BY <1>2, <1>7 DEF BeginSelect, SelectRecord, TableNames, NoWhere
  <2> QED BY <1>1, <2>1, <2>2, <2>3 DEF ParserInv, StatementOK
<1>8. CASE EndStatement
  <2>1. phase = "parse" /\ rule = "end" /\ UNCHANGED tvars /\ script' = Append(script, statement)
        /\ statement' = NoStatement
        /\ \/ Peek.type = ";" /\ Advance(1, "statement")
           \/ Advance(0, "statement")
    BY <1>8 DEF EndStatement
  <2>2. /\ Peek.type = ";" => current + 1 \in 1 .. Len(tokens)
        /\ current + 0 \in 1 .. Len(tokens)
    <3>0. current \in 1 .. Len(tokens) /\ Len(tokens) \in Nat
      BY <1>3, <2>1
    <3>1. current + 0 \in 1 .. Len(tokens)
      BY <3>0
    <3>2. ASSUME Peek.type = ";" PROVE current + 1 \in 1 .. Len(tokens)
      BY <1>4, <2>1, <3>2
    <3> QED BY <3>1, <3>2
  <2>3. TokenizerTypeOK' /\ CursorOK' /\ (phase = "tokenize" => current = 1)' /\ rule' = "statement"
    BY <2>1, <2>2, AdvanceKeeps
  <2>4. statement \in StatementRecord
    <3>1. statement \in InsertRecord \cup SelectRecord
      BY <1>1, <2>1 DEF StatementOK
    <3> QED BY <3>1, RecordsOfStatements, Zenon
  <2>5. script' \in Seq(StatementRecord)
    <3>1. Append(script, statement) \in Seq(StatementRecord)
      BY <1>1, <2>4, AppendProperties
    <3> QED BY <2>1, <3>1
  <2> QED BY <1>1, <2>1, <2>3, <2>5 DEF ParserInv, StatementOK
<1>9. CASE EndOfScript
  <2>1. phase' = "done" /\ UNCHANGED <<source, index, line, column, tokens, error>>
        /\ UNCHANGED <<current, rule, statement, script>>
    BY <1>9 DEF EndOfScript, parsing
  <2>2. TokenizerTypeOK'
    BY <2>1 DEF ParserInv, TokenizerTypeOK
  <2> QED BY <1>1, <2>1, <2>2 DEF ParserInv, StatementOK, CursorOK
<1>10. CASE SyntaxError
  <2>1. /\ phase = "parse" /\ phase' = "failed" /\ error' = <<Peek.line, Peek.column>>
        /\ script' = <<>>
        /\ UNCHANGED <<source, index, line, column, tokens, current, rule, statement>>
    BY <1>10 DEF SyntaxError
  <2>2. Peek.line \in Nat /\ Peek.column \in Nat
    <3>1. Peek \in Token
      BY <1>3, <2>1 DEF Peek, ParserInv, TokenizerTypeOK
    <3> QED BY <3>1 DEF Token
  <2>3. TokenizerTypeOK'
    BY <2>1, <2>2 DEF ParserInv, TokenizerTypeOK
  <2> QED BY <1>1, <2>1, <2>3 DEF ParserInv, StatementOK, CursorOK
<1>11. CASE Consume
  <2>1. DOMAIN After \subseteq DOMAIN Accepts \ {"statement"}
    BY DEF After, Accepts
  <2>2. phase = "parse" /\ rule \in DOMAIN After /\ UNCHANGED tvars
        /\ current + 1 \in 1 .. Len(tokens)
    BY <1>11, <2>1, NotEnd DEF Consume
  <2>3. Advance(1, After[rule]) /\ UNCHANGED <<statement, script>>
    BY <1>11 DEF Consume
  <2>4. TokenizerTypeOK' /\ CursorOK' /\ (phase = "tokenize" => current = 1)' /\ rule' = After[rule]
    BY <2>2, <2>3, AdvanceKeeps
  <2>5. StatementOK'
    <3>1. /\ rule \in DOMAIN After /\ rule' = After[rule] /\ statement' = statement
      BY <2>2, <2>3, <2>4
    <3> QED BY <1>1, <3>1 DEF StatementOK, After
  <2> QED BY <1>1, <2>3, <2>4, <2>5 DEF ParserInv
<1>12. CASE TableName
  <2>1. {"table"} \subseteq DOMAIN Accepts \ {"statement"}
    BY DEF Accepts
  <2>2. phase = "parse" /\ rule = "table" /\ UNCHANGED tvars /\ Peek.lexeme \in Text
        /\ current + 1 \in 1 .. Len(tokens)
    BY <1>12, <2>1, NotEnd DEF TableName
  <2>3. /\ statement' = [statement EXCEPT !.table = <<Peek.lexeme>>] /\ script' = script
        /\ \/ tokens[current + 1].type = "." /\ Advance(2, "qualified")
           \/ Advance(1, AfterTable)
    BY <1>12 DEF TableName
  <2>4. tokens[current + 1].type = "." => current + 2 \in 1 .. Len(tokens)
    <3>1. current + 1 \in current .. Len(tokens)
      BY <1>3, <2>2
    <3>2. tokens[current + 1].type = "." => (current + 1) + 1 \in current .. Len(tokens)
      BY <2>2, <3>1, NextToken
    <3> QED BY <1>3, <2>2, <3>2
  <2>5. TokenizerTypeOK' /\ CursorOK' /\ (phase = "tokenize" => current = 1)'
        /\ rule' \in {"qualified", AfterTable}
    BY <2>2, <2>3, <2>4, AdvanceKeeps
  <2>6. /\ statement \in InsertRecord => statement' \in InsertRecord
        /\ statement \in SelectRecord => statement' \in SelectRecord
    BY <2>2, <2>3, FilledIn
  <2>7. StatementOK'
    BY <1>1, <2>2, <2>5, <2>6 DEF StatementOK, AfterTable, InsertRecord, SelectRecord
  <2> QED BY <1>1, <2>3, <2>5, <2>7 DEF ParserInv
<1>13. CASE QualifiedName
  <2>1. {"qualified"} \subseteq DOMAIN Accepts \ {"statement"}
    BY DEF Accepts
  <2>2. phase = "parse" /\ rule = "qualified" /\ UNCHANGED tvars /\ Peek.lexeme \in Text
        /\ current + 1 \in 1 .. Len(tokens)
    BY <1>13, <2>1, NotEnd DEF QualifiedName
  <2>3. /\ statement' = [statement EXCEPT !.table = Append(@, Peek.lexeme)] /\ script' = script
        /\ Advance(1, AfterTable)
    BY <1>13 DEF QualifiedName
  <2>4. TokenizerTypeOK' /\ CursorOK' /\ (phase = "tokenize" => current = 1)' /\ rule' = AfterTable
    BY <2>2, <2>3, AdvanceKeeps
  <2>5. /\ statement \in InsertRecord => statement' \in InsertRecord
        /\ statement \in SelectRecord => statement' \in SelectRecord
    BY <2>2, <2>3, FilledIn
  <2>6. StatementOK'
    BY <1>1, <2>2, <2>4, <2>5 DEF StatementOK, AfterTable, InsertRecord, SelectRecord
  <2> QED BY <1>1, <2>3, <2>4, <2>6 DEF ParserInv
<1>14. CASE AllColumns
  <2>1. {"selection"} \subseteq DOMAIN Accepts \ {"statement"}
    BY DEF Accepts
  <2>2. phase = "parse" /\ rule = "selection" /\ UNCHANGED tvars /\ current + 1 \in 1 .. Len(tokens)
    BY <1>14, <2>1, NotEnd DEF AllColumns
  <2>3. /\ statement' = [statement EXCEPT !.selectAll = TRUE] /\ script' = script
        /\ Advance(1, "from")
    BY <1>14 DEF AllColumns
  <2>4. TokenizerTypeOK' /\ CursorOK' /\ (phase = "tokenize" => current = 1)' /\ rule' = "from"
    BY <2>2, <2>3, AdvanceKeeps
  <2>5. statement' \in SelectRecord
    BY <1>1, <2>2, <2>3 DEF StatementOK, SelectRecord
  <2> QED BY <1>1, <2>3, <2>4, <2>5 DEF ParserInv, StatementOK
<1>15. CASE ColumnName
  <2>1. {"selection", "columns"} \subseteq DOMAIN Accepts \ {"statement"}
    BY DEF Accepts
  <2>2. phase = "parse" /\ rule \in {"selection", "columns"} /\ Peek.lexeme \in Text
    BY <1>15, <2>1, NotEnd DEF ColumnName
  <2>3. /\ statement' = [statement EXCEPT !.columns = Append(@, Peek.lexeme)] /\ script' = script
        /\ Parsing({"selection", "columns"}) /\ NextItem(AfterColumns)
    BY <1>15 DEF ColumnName
  <2>4. TokenizerTypeOK' /\ CursorOK' /\ (phase = "tokenize" => current = 1)'
        /\ rule' \in {AfterColumns, IF rule = "selection" THEN "columns" ELSE rule}
    BY <2>1, <2>3, NextItemKeeps
  <2>5. rule' \in {AfterColumns, "columns"}
    BY <2>2, <2>4
  <2>6. /\ statement \in InsertRecord => statement' \in InsertRecord
        /\ statement \in SelectRecord => statement' \in SelectRecord
    BY <2>2, <2>3, FilledIn
  <2>7. StatementOK'
    BY <1>1, <2>2, <2>5, <2>6 DEF StatementOK, AfterColumns, InsertRecord, SelectRecord
  <2> QED BY <1>1, <2>3, <2>4, <2>7 DEF ParserInv
<1>16. CASE Value
  <2>1. {"literals"} \subseteq DOMAIN Accepts \ {"statement"}
    BY DEF Accepts
  <2>2. phase = "parse" /\ rule = "literals" /\ Peek.lexeme \in Text
    BY <1>16, <2>1, NotEnd DEF Value
  <2>3. /\ statement' = [statement EXCEPT !.values = Append(@, Peek.lexeme)] /\ script' = script
        /\ Parsing({"literals"}) /\ NextItem("closeValues")
    BY <1>16 DEF Value
  <2>4. TokenizerTypeOK' /\ CursorOK' /\ (phase = "tokenize" => current = 1)'
        /\ rule' \in {"closeValues", IF rule = "selection" THEN "columns" ELSE rule}
    BY <2>1, <2>3, NextItemKeeps
  <2>5. rule' \in {"closeValues", "literals"}
    BY <2>2, <2>4
  <2>6. statement' \in InsertRecord
    <3>1. statement \in InsertRecord
      BY <1>1, <2>2 DEF StatementOK
    <3> QED BY <2>2, <2>3, <3>1, FilledIn
  <2> QED BY <1>1, <2>3, <2>4, <2>5, <2>6 DEF ParserInv, StatementOK
<1>17. CASE Where
  <2>1. phase = "parse" /\ rule = "where" /\ UNCHANGED tvars /\ UNCHANGED <<statement, script>>
        /\ \/ Peek.type = "WHERE" /\ Advance(1, "whereColumn")
           \/ Advance(0, "end")
    BY <1>17 DEF Where
  <2>2. TokenizerTypeOK' /\ CursorOK' /\ (phase = "tokenize" => current = 1)'
        /\ rule' \in {"whereColumn", "end"}
    BY <1>3, <1>4, <2>1, AdvanceKeeps
  <2> QED BY <1>1, <2>1, <2>2 DEF ParserInv, StatementOK
<1>18. CASE WhereColumn
  <2>1. {"whereColumn"} \subseteq DOMAIN Accepts \ {"statement"}
    BY DEF Accepts
  <2>2. phase = "parse" /\ rule = "whereColumn" /\ UNCHANGED tvars /\ Peek.lexeme \in Text
        /\ current + 1 \in 1 .. Len(tokens)
    BY <1>18, <2>1, NotEnd DEF WhereColumn
  <2>3. /\ statement' = [statement EXCEPT !.where.enabled = TRUE, !.where.column = Peek.lexeme]
        /\ script' = script /\ Advance(1, "equal")
    BY <1>18 DEF WhereColumn
  <2>4. TokenizerTypeOK' /\ CursorOK' /\ (phase = "tokenize" => current = 1)' /\ rule' = "equal"
    BY <2>2, <2>3, AdvanceKeeps
  <2>5. statement' \in SelectRecord
    BY <1>1, <2>2, <2>3 DEF StatementOK, SelectRecord
  <2> QED BY <1>1, <2>3, <2>4, <2>5 DEF ParserInv, StatementOK
<1>19. CASE WhereValue
  <2>1. {"whereValue"} \subseteq DOMAIN Accepts \ {"statement"}
    BY DEF Accepts
  <2>2. phase = "parse" /\ rule = "whereValue" /\ UNCHANGED tvars /\ Peek.lexeme \in Text
        /\ current + 1 \in 1 .. Len(tokens)
    BY <1>19, <2>1, NotEnd DEF WhereValue
  <2>3. /\ statement' = [statement EXCEPT !.where.value = Peek.lexeme]
        /\ script' = script /\ Advance(1, "end")
    BY <1>19 DEF WhereValue
  <2>4. TokenizerTypeOK' /\ CursorOK' /\ (phase = "tokenize" => current = 1)' /\ rule' = "end"
    BY <2>2, <2>3, AdvanceKeeps
  <2>5. statement' \in SelectRecord
    BY <1>1, <2>2, <2>3 DEF StatementOK, SelectRecord
  <2> QED BY <1>1, <2>3, <2>4, <2>5 DEF ParserInv, StatementOK
<1> QED BY <1>5, <1>6, <1>7, <1>8, <1>9, <1>10, <1>11, <1>12, <1>13, <1>14, <1>15, <1>16,
           <1>17, <1>18, <1>19 DEF Parse

\* The tokenizer leaves the parser's variables alone, and hands over tokens that
\* end with TOKEN_END.
LEMMA TokenizeKeeps ==
  ASSUME ParserInv, Tokenize, UNCHANGED parsing
  PROVE  ParserInv'
<1>1. TokenizerTypeOK'
  BY TokenizeType DEF ParserInv
<1>2. UNCHANGED <<current, rule, statement, script>>
  BY DEF parsing
<1>3. phase = "tokenize" /\ current = 1
  BY DEF ParserInv, Tokenize, SkipNewline, SkipBlank, LineComment, BlockComment,
         UnterminatedComment, Word, Number, StringLiteral, UnterminatedString, SymbolToken,
         UnexpectedCharacter, EndOfInput, Tokenizing
<1>4. CASE EndOfInput
  <2> DEFINE end == [type |-> "END", lexeme |-> <<>>, line |-> line, column |-> column,
                     start |-> index]
  <2>1. tokens' = Append(tokens, end) /\ phase' = "parse" /\ tokens \in Seq(Token)
    BY <1>4 DEF EndOfInput, AddToken, ParserInv, TokenizerTypeOK
  <2>2. Len(tokens') \in Nat /\ Len(tokens') >= 1 /\ tokens'[Len(tokens')] = end /\ tokens' # <<>>
    <3> HIDE DEF end
    <3> QED BY <2>1
  <2>3. CursorOK'
    BY <1>2, <1>3, <2>2 DEF CursorOK
  <2> QED BY <1>1, <1>2, <1>3, <2>1, <2>3 DEF ParserInv, StatementOK
<1>5. CASE ~EndOfInput
  <2>1. phase' \in {"tokenize", "failed"}
    BY <1>3, <1>5 DEF Tokenize, SkipNewline, SkipBlank, LineComment, BlockComment,
       UnterminatedComment, Word, Number, StringLiteral, UnterminatedString, SymbolToken,
       UnexpectedCharacter, MoveTo, TokenizerFails
  <2> QED BY <1>1, <1>2, <1>3, <2>1 DEF ParserInv, StatementOK, CursorOK
<1> QED BY <1>4, <1>5

LEMMA ParserStarts == ParserInit => ParserInv
<1> SUFFICES ASSUME ParserInit PROVE ParserInv
  OBVIOUS
<1>1. TokenizerTypeOK
  BY SourceAssumption DEF ParserInit, TokenizerInit, TokenizerTypeOK, NoPosition, Text
<1> QED BY <1>1 DEF ParserInit, TokenizerInit, ParserInv, CursorOK, StatementOK,
           InsertRules, SelectRules

LEMMA ParserGoesOn == ParserInv /\ [ParserNext]_pvars => ParserInv'
<1>1. ParserInv /\ UNCHANGED pvars => ParserInv'
  BY DEF ParserInv, TokenizerTypeOK, CursorOK, StatementOK, pvars, tvars, parsing
<1> QED BY <1>1, ParseKeeps, TokenizeKeeps DEF ParserNext

\* parse_sql_script never looks behind TOKEN_END and only ever builds complete
\* statements, whatever the text (parser.c:444-762).
THEOREM ParserTypeCorrect == ParserSpec => []ParserTypeOK
<1>1. ParserInv => ParserTypeOK
  <2> SUFFICES ASSUME ParserInv PROVE ParserTypeOK
    OBVIOUS
  <2>1. statement \in StatementRecord
    BY RecordsOfStatements DEF ParserInv, StatementOK, InsertRules, SelectRules
  <2>2. rule \in DOMAIN Accepts \cup {"where", "end"}
    BY RulesOfParser DEF ParserInv, StatementOK, InsertRules, SelectRules
  <2>3. phase = "parse" => current \in DOMAIN tokens
    BY DEF ParserInv, CursorOK, TokenizerTypeOK
  <2> QED BY <2>1, <2>2, <2>3 DEF ParserInv, TokenizerTypeOK, ParserTypeOK
<1> QED BY <1>1, ParserStarts, ParserGoesOn, PTL DEF ParserSpec

-----------------------------------------------------------------------------
(* The files of a statement.                                               *)

Name == Seq(Letter \cup Digit)

IsNamed(n) == (\E x \in Name : n = <<x>>) \/ (\E x, y \in Name : n = <<x, y>>)

PathChar == Range(DbRoot) \cup Char \cup {"/", ".", "s", "c", "h", "e", "m", "a", "d", "t"}

LEMMA FlattenFew ==
  ASSUME NEW S, NEW x \in Seq(S), NEW y \in Seq(S)
  PROVE  FlattenSeq(<<x>>) = x /\ FlattenSeq(<<x, y>>) = x \o y
<1>1. PICK T : T = Seq(S)
  OBVIOUS
<1>2. <<>> \in Seq(T) /\ <<x>> \in Seq(T) /\ <<x>> = Append(<<>>, x) /\ <<x, y>> = Append(<<x>>, y)
  BY <1>1
<1>3. FlattenSeq(<<>>) = <<>>
  <2>1. PICK e : e = <<>>
    OBVIOUS
  <2>2. e \in Seq(Seq(S)) /\ Len(e) = 0
    BY <2>1
  <2>3. FlattenSeq(e) = <<>>
    BY <2>2, FlattenSeqScan
  <2> QED BY <2>1, <2>3
<1>4. FlattenSeq(Append(<<>>, x)) = FlattenSeq(<<>>) \o x
  BY <1>1, <1>2, FlattenSeqAppend
<1>5. FlattenSeq(Append(<<x>>, y)) = FlattenSeq(<<x>>) \o y
  BY <1>1, <1>2, FlattenSeqAppend
<1>6. <<>> \o x = x
  OBVIOUS
<1> QED BY <1>2, <1>3, <1>4, <1>5, <1>6

\* The part of a path that is the table's own.
Inner(n) == FlattenSeq([i \in DOMAIN n |-> <<"/">> \o n[i]])

\* One name, or two, each behind its slash.
OneName(v, x) ==
  /\ Len(v) = Len(x) + 1
  /\ \A k \in 1 .. Len(x) : v[k + 1] = x[k]
TwoNames(v, x, y) ==
  /\ Len(v) = Len(x) + Len(y) + 2
  /\ \A k \in 1 .. Len(x) : v[k + 1] = x[k]
  /\ v[Len(x) + 2] = "/"
  /\ \A k \in 1 .. Len(y) : v[Len(x) + 2 + k] = y[k]

LEMMA NameIs ==
  ASSUME NEW x \in Name
  PROVE  /\ x \in Seq(PathChar) /\ Len(x) \in Nat
         /\ \A k \in 1 .. Len(x) : x[k] # "/"
<1>1. Letter \cup Digit \subseteq PathChar /\ "/" \notin Letter \cup Digit
  BY SourceAssumption DEF PathChar
<1>2. \A k \in 1 .. Len(x) : x[k] \in Letter \cup Digit
  BY DEF Name
<1>3. x \in Seq(PathChar) /\ Len(x) \in Nat
  BY <1>1 DEF Name
<1> QED BY <1>1, <1>2, <1>3

LEMMA InnerIs ==
  ASSUME NEW x \in Name, NEW y \in Name
  PROVE  /\ Inner(<<x>>) \in Seq(PathChar) /\ OneName(Inner(<<x>>), x)
         /\ Inner(<<x, y>>) \in Seq(PathChar) /\ TwoNames(Inner(<<x, y>>), x, y)
<1>1. x \in Seq(PathChar) /\ y \in Seq(PathChar) /\ <<"/">> \in Seq(PathChar) /\ Len(<<"/">>) = 1
  BY NameIs DEF PathChar
<1>2. PICK u, v, T : u = <<"/">> \o x /\ v = <<"/">> \o y /\ T = Seq(PathChar)
  OBVIOUS
<1>3. /\ u \in T /\ Len(u) = Len(x) + 1 /\ u[1] = "/" /\ \A k \in 1 .. Len(x) : u[k + 1] = x[k]
      /\ v \in T /\ Len(v) = Len(y) + 1 /\ v[1] = "/" /\ \A k \in 1 .. Len(y) : v[k + 1] = y[k]
  BY <1>1, <1>2
<1>4. [i \in DOMAIN <<x>> |-> <<"/">> \o <<x>>[i]] = <<u>>
  BY <1>2
<1>5. [i \in DOMAIN <<x, y>> |-> <<"/">> \o <<x, y>>[i]] = <<u, v>>
  BY <1>2
<1>6. Inner(<<x>>) = u /\ Inner(<<x, y>>) = u \o v
  <2>1. Inner(<<x>>) = FlattenSeq(<<u>>) /\ Inner(<<x, y>>) = FlattenSeq(<<u, v>>)
    BY <1>4, <1>5 DEF Inner
  <2>2. u \in Seq(PathChar) /\ v \in Seq(PathChar)
    BY <1>2, <1>3
  <2> QED BY <2>1, <2>2, FlattenFew
<1>7. /\ u \o v \in Seq(PathChar) /\ Len(u \o v) = Len(u) + Len(v)
      /\ \A k \in 1 .. Len(u) : (u \o v)[k] = u[k]
      /\ \A k \in 1 .. Len(v) : (u \o v)[Len(u) + k] = v[k]
  BY <1>2, <1>3
<1>8. PICK w : w = u \o v
  OBVIOUS
<1>11. PICK a \in Nat, b \in Nat : a = Len(x) /\ b = Len(y)
  BY <1>1
<1>9. OneName(u, x)
  BY <1>3 DEF OneName
<1>10. TwoNames(w, x, y)
  <2>1. Len(w) = a + b + 2
    BY <1>3, <1>7, <1>8, <1>11
  <2>2. \A k \in 1 .. a : w[k + 1] = x[k]
    <3>1. \A k \in 1 .. a : k + 1 \in 1 .. Len(u)
      BY <1>3, <1>8, <1>11
    <3> QED BY <1>3, <1>7, <1>8, <1>11, <3>1
  <2>3. w[a + 2] = "/" /\ \A k \in 1 .. b : w[a + 2 + k] = y[k]
    <3>1. /\ 1 \in 1 .. Len(v) /\ Len(u) + 1 = a + 2
          /\ \A k \in 1 .. b : k + 1 \in 1 .. Len(v) /\ Len(u) + (k + 1) = a + 2 + k
      BY <1>3, <1>8, <1>11
    <3> QED BY <1>3, <1>7, <1>8, <1>11, <3>1
  <2> QED BY <1>8, <1>11, <2>1, <2>2, <2>3 DEF TwoNames
<1> QED BY <1>2, <1>3, <1>6, <1>7, <1>8, <1>9, <1>10

\* Different tables, different names of files.
LEMMA InnerInjective ==
  ASSUME NEW m, NEW n, IsNamed(m), IsNamed(n), Inner(m) = Inner(n)
  PROVE  m = n
<1>1. PICK v : v = Inner(m) /\ v = Inner(n)
  OBVIOUS
<1>2. ASSUME NEW x \in Name, NEW a \in Name, OneName(v, x), OneName(v, a)
      PROVE  x = a
  <2>1. Len(x) = Len(a) /\ \A k \in 1 .. Len(x) : x[k] = a[k]
    BY <1>2, NameIs DEF OneName
  <2> QED BY <2>1, SeqEqual, NameIs
<1>3. ASSUME NEW x \in Name, NEW a \in Name, NEW b \in Name, OneName(v, x), TwoNames(v, a, b)
      PROVE  FALSE
  <2>1. PICK i \in Nat, j \in Nat, h \in Nat : i = Len(x) /\ j = Len(a) /\ h = Len(b)
    BY NameIs
  <2>2. j + 1 \in 1 .. i /\ (j + 1) + 1 = j + 2
    BY <1>3, <2>1 DEF OneName, TwoNames
  <2>3. v[j + 2] = x[j + 1] /\ v[j + 2] = "/"
    BY <1>3, <2>1, <2>2 DEF OneName, TwoNames
  <2> QED BY <2>1, <2>2, <2>3, NameIs
<1>4. ASSUME NEW x \in Name, NEW y \in Name, NEW a \in Name, NEW b \in Name,
             TwoNames(v, x, y), TwoNames(v, a, b)
      PROVE  ~(Len(x) < Len(a))
  <2> SUFFICES ASSUME Len(x) < Len(a) PROVE FALSE
    OBVIOUS
  <2>1. PICK i \in Nat, j \in Nat : i = Len(x) /\ j = Len(a)
    BY NameIs
  <2>2. i + 1 \in 1 .. j /\ (i + 1) + 1 = i + 2
    BY <2>1
  <2>3. v[i + 2] = a[i + 1] /\ v[i + 2] = "/"
    BY <1>4, <2>1, <2>2 DEF TwoNames
  <2> QED BY <2>1, <2>2, <2>3, NameIs
<1>5. ASSUME NEW x \in Name, NEW y \in Name, NEW a \in Name, NEW b \in Name,
             TwoNames(v, x, y), TwoNames(v, a, b)
      PROVE  x = a /\ y = b
  <2>1. ~(Len(x) < Len(a)) /\ ~(Len(a) < Len(x)) /\ Len(x) \in Nat /\ Len(a) \in Nat
        /\ Len(y) \in Nat /\ Len(b) \in Nat
    BY <1>4, <1>5, NameIs
  <2>2. Len(x) = Len(a)
    BY <2>1
  <2>3. Len(y) = Len(b)
    BY <1>5, <2>1, <2>2 DEF TwoNames
  <2>4. \A k \in 1 .. Len(x) : x[k] = a[k]
    BY <1>5, <2>2 DEF TwoNames
  <2>5. \A k \in 1 .. Len(y) : y[k] = b[k]
    BY <1>5, <2>2, <2>3 DEF TwoNames
  <2> QED BY <2>2, <2>3, <2>4, <2>5, SeqEqual, NameIs
<1>6. CASE (\E x \in Name : m = <<x>>) /\ (\E a \in Name : n = <<a>>)
  BY <1>1, <1>2, <1>6, InnerIs
<1>7. CASE (\E x \in Name : m = <<x>>) /\ (\E a, b \in Name : n = <<a, b>>)
  BY <1>1, <1>3, <1>7, InnerIs
<1>8. CASE (\E x, y \in Name : m = <<x, y>>) /\ (\E a \in Name : n = <<a>>)
  BY <1>1, <1>3, <1>8, InnerIs
<1>9. CASE (\E x, y \in Name : m = <<x, y>>) /\ (\E a, b \in Name : n = <<a, b>>)
  <2>1. PICK x \in Name, y \in Name, a \in Name, b \in Name : m = <<x, y>> /\ n = <<a, b>>
    BY <1>9
  <2>2. TwoNames(v, x, y) /\ TwoNames(v, a, b)
    BY <1>1, <2>1, InnerIs
  <2>3. x = a /\ y = b
    BY <1>5, <2>2
  <2> QED BY <2>1, <2>3
<1> QED BY <1>6, <1>7, <1>8, <1>9 DEF IsNamed

\* What two sequences have in the middle, if they are the same around it.
LEMMA MiddlesEqual ==
  ASSUME NEW S, NEW a \in Seq(S), NEW b \in Seq(S), NEW c \in Seq(S), NEW s \in Seq(S),
         (a \o b) \o s = (a \o c) \o s
  PROVE  b = c
<1>1. PICK i \in Nat, j \in Nat, k \in Nat, h \in Nat :
        i = Len(a) /\ j = Len(b) /\ k = Len(c) /\ h = Len(s)
  OBVIOUS
<1>2. PICK u, v, w : u = a \o b /\ v = a \o c /\ w = u \o s /\ w = v \o s
  OBVIOUS
<1>3. /\ u \in Seq(S) /\ Len(u) = i + j /\ \A x \in 1 .. j : u[i + x] = b[x]
      /\ v \in Seq(S) /\ Len(v) = i + k /\ \A x \in 1 .. k : v[i + x] = c[x]
  BY <1>1, <1>2
<1>4. /\ Len(w) = i + j + h /\ \A x \in 1 .. i + j : w[x] = u[x]
      /\ Len(w) = i + k + h /\ \A x \in 1 .. i + k : w[x] = v[x]
  BY <1>1, <1>2, <1>3
<1>5. j = k
  BY <1>4
<1>6. \A x \in 1 .. j : b[x] = c[x]
  <2>1. \A x \in 1 .. j : i + x \in 1 .. i + j
    OBVIOUS
  <2> QED BY <1>3, <1>4, <1>5, <2>1
<1> QED BY <1>1, <1>5, <1>6, SeqEqual

\* The end of a sequence is one of its suffixes.
LEMMA EndIsSuffix ==
  ASSUME NEW S, NEW a \in Seq(S), NEW s \in Seq(S)
  PROVE  IsSuffix(s, a \o s)
<1>1. PICK i \in Nat, h \in Nat : i = Len(a) /\ h = Len(s)
  OBVIOUS
<1>2. PICK w, u, v : w = a \o s /\ u = Reverse(s) /\ v = Reverse(w)
  OBVIOUS
<1>3. w \in Seq(S) /\ Len(w) = i + h /\ \A x \in 1 .. h : w[i + x] = s[x]
  BY <1>1, <1>2
<1>4. u \in Seq(S) /\ Len(u) = h /\ \A x \in 1 .. h : u[x] = s[(h - x) + 1]
  BY <1>1, <1>2 DEF Reverse
<1>5. v \in Seq(S) /\ Len(v) = i + h /\ \A x \in 1 .. i + h : v[x] = w[((i + h) - x) + 1]
  BY <1>1, <1>2, <1>3 DEF Reverse
<1>6. \A x \in 1 .. h : u[x] = v[x]
  <2>1. \A x \in 1 .. h : /\ x \in 1 .. i + h /\ (h - x) + 1 \in 1 .. h
                          /\ ((i + h) - x) + 1 = i + ((h - x) + 1)
    OBVIOUS
  <2> QED BY <1>3, <1>4, <1>5, <2>1
<1>7. SubSeq(u, 1, h) = SubSeq(v, 1, h)
  <2>1. PICK x, y : x = SubSeq(u, 1, h) /\ y = SubSeq(v, 1, h)
    OBVIOUS
  <2>2. x \in Seq(S) /\ Len(x) = h /\ \A k \in 1 .. h : x[k] = u[k]
    BY <1>4, <2>1
  <2>3. y \in Seq(S) /\ Len(y) = h /\ \A k \in 1 .. h : y[k] = v[k]
    BY <1>5, <2>1
  <2>4. \A k \in 1 .. h : x[k] = y[k]
    BY <1>6, <2>2, <2>3
  <2> QED BY <2>1, <2>2, <2>3, <2>4, SeqEqual
<1>8. h <= Len(v)
  BY <1>5
<1> QED BY <1>2, <1>4, <1>7, <1>8 DEF IsSuffix, IsPrefix

\* A path has room for all of its text.
LEMMA PathIsWhole ==
  ASSUME NEW n, IsNamed(n), NEW suffix \in {SchemaSuffix, DataSuffix}
  PROVE  /\ PathOf(n, suffix) = (DbRoot \o Inner(n)) \o suffix
         /\ DbRoot \in Seq(PathChar) /\ Inner(n) \in Seq(PathChar) /\ suffix \in Seq(PathChar)
<1>1. DbRoot \in Seq(PathChar)
  <2>1. Range(DbRoot) \subseteq PathChar
    BY DEF PathChar
  <2> QED BY <2>1, DbRootAssumption
<1>2. suffix \in Seq(PathChar)
  <2>1. SchemaSuffix \in Seq(PathChar)
    BY DEF PathChar, SchemaSuffix
  <2>2. DataSuffix \in Seq(PathChar)
    BY DEF PathChar, DataSuffix
  <2> QED BY <2>1, <2>2
<1>3. /\ Inner(n) \in Seq(PathChar) /\ Len(n) \in {1, 2} /\ FlattenSeq(n) \in Seq(PathChar)
      /\ Len(Inner(n)) = Len(FlattenSeq(n)) + Len(n)
  <2>1. CASE \E x \in Name : n = <<x>>
    <3>1. PICK x \in Name : n = <<x>>
      BY <2>1
    <3>2. FlattenSeq(n) = x /\ Len(n) = 1
      BY <3>1, NameIs, FlattenFew
    <3> QED BY <3>1, <3>2, NameIs, InnerIs DEF OneName
  <2>2. CASE \E x, y \in Name : n = <<x, y>>
    <3>1. PICK x \in Name, y \in Name : n = <<x, y>>
      BY <2>2
    <3>2. FlattenSeq(n) = x \o y /\ Len(n) = 2
      BY <3>1, NameIs, FlattenFew
    <3>3. x \in Seq(PathChar) /\ y \in Seq(PathChar)
      BY NameIs
    <3>4. x \o y \in Seq(PathChar) /\ Len(x \o y) = Len(x) + Len(y) /\ Len(x) \in Nat /\ Len(y) \in Nat
      BY <3>3
    <3>5. Inner(n) \in Seq(PathChar) /\ Len(Inner(n)) = Len(x) + Len(y) + 2
      BY <3>1, InnerIs DEF TwoNames
    <3> QED BY <3>2, <3>4, <3>5
  <2> QED BY <2>1, <2>2 DEF IsNamed
<1>4. WholePath(n, suffix) = (DbRoot \o Inner(n)) \o suffix
  BY DEF WholePath, Inner
<1>5. PICK whole, f, i : whole = (DbRoot \o i) \o suffix /\ f = FlattenSeq(n) /\ i = Inner(n)
  OBVIOUS
<1>6. Len(whole) = Len(DbRoot) + Len(i) + Len(suffix) /\ Len(i) = Len(f) + Len(n)
  BY <1>1, <1>2, <1>3, <1>5
<1>7. PathSize(n, suffix) = Len(DbRoot) + Len(f) + Len(suffix) + (IF Len(n) = 2 THEN 3 ELSE 2)
  BY <1>5 DEF PathSize
<1>8. Len(whole) < PathSize(n, suffix)
  <2>1. PICK x \in Nat, y \in Nat, z \in Nat :
          x = Len(f) /\ y = Len(DbRoot) /\ z = Len(suffix)
    BY <1>1, <1>2, <1>3, <1>5
  <2>2. Len(whole) = y + (x + Len(n)) + z
    BY <1>6, <2>1
  <2>3. PathSize(n, suffix) = y + x + z + (IF Len(n) = 2 THEN 3 ELSE 2)
    BY <1>7, <2>1
  <2>4. CASE Len(n) = 1
    BY <2>2, <2>3, <2>4
  <2>5. CASE Len(n) = 2
    BY <2>2, <2>3, <2>5
  <2> QED BY <1>3, <2>4, <2>5
<1> QED BY <1>1, <1>2, <1>3, <1>4, <1>5, <1>8 DEF PathOf

\* The last character but one of a concatenation is one of its second part.
LEMMA LastButOne ==
  ASSUME NEW S, NEW a \in Seq(S), NEW b \in Seq(S), Len(b) >= 2
  PROVE  (a \o b)[Len(a \o b) - 1] = b[Len(b) - 1]
<1>1. PICK w : w = a \o b
  OBVIOUS
<1>2. PICK i \in Nat, h \in Nat : i = Len(a) /\ h = Len(b)
  OBVIOUS
<1>3. Len(w) = i + h /\ \A k \in 1 .. h : w[i + k] = b[k]
  BY <1>1, <1>2
<1>4. h - 1 \in 1 .. h /\ (i + h) - 1 = i + (h - 1)
  BY <1>2
<1> QED BY <1>1, <1>2, <1>3, <1>4

\* The schema of a table is not the data of one.
LEMMA SuffixesDiffer ==
  ASSUME NEW S, NEW a \in Seq(S), NEW b \in Seq(S),
         SchemaSuffix \in Seq(S), DataSuffix \in Seq(S)
  PROVE  a \o SchemaSuffix # b \o DataSuffix
<1>1. PICK s, d : s = SchemaSuffix /\ d = DataSuffix
  OBVIOUS
<1>2. Len(s) = 7 /\ s[6] = "m"
  BY <1>1 DEF SchemaSuffix
<1>3. Len(d) = 5 /\ d[4] = "t"
  BY <1>1 DEF DataSuffix
<1>4. s \in Seq(S) /\ d \in Seq(S)
  BY <1>1
<1>5. Len(s) >= 2 /\ Len(s) - 1 = 6 /\ Len(d) >= 2 /\ Len(d) - 1 = 4
  BY <1>2, <1>3
<1>6. (a \o s)[Len(a \o s) - 1] = s[Len(s) - 1]
  BY <1>4, <1>5, LastButOne
<1>7. (b \o d)[Len(b \o d) - 1] = d[Len(d) - 1]
  BY <1>4, <1>5, LastButOne
<1>8. (a \o s)[Len(a \o s) - 1] = "m" /\ (b \o d)[Len(b \o d) - 1] = "t"
  BY <1>2, <1>3, <1>5, <1>6, <1>7
<1> QED BY <1>1, <1>8

-----------------------------------------------------------------------------
\* Every IDENTIFIER is a word, and the table of a statement is named by one or
\* two of them once the parser has passed its name.
WordsNamed ==
  \A k \in 1 .. Len(tokens) : tokens[k].type = "IDENTIFIER" => tokens[k].lexeme \in Name

AfterName == {"openColumns", "closeColumns", "values", "openValues", "literals", "closeValues",
              "end", "where", "whereColumn", "equal", "whereValue"}

TableNamed ==
  /\ rule \in AfterName => IsNamed(statement.table)
  /\ rule = "columns" /\ statement.type = "INSERT" => IsNamed(statement.table)
  /\ rule = "qualified" => \E x \in Name : statement.table = <<x>>

NamesInv ==
  /\ WordsNamed
  /\ TableNamed
  /\ \A k \in 1 .. Len(script) : IsNamed(script[k].table)

LEMMA NamesSeparate ==
  ASSUME NamesInv, script \in Seq(StatementRecord)
  PROVE  OneFilePerTable
<1> SUFFICES ASSUME NEW s \in Range(script), NEW t \in Range(script)
             PROVE  /\ \A suffix \in {SchemaSuffix, DataSuffix} :
                         /\ PathOf(s.table, suffix) = PathOf(t.table, suffix) => s.table = t.table
                         /\ IsSuffix(suffix, PathOf(s.table, suffix))
                    /\ PathOf(s.table, SchemaSuffix) # PathOf(t.table, DataSuffix)
  BY DEF OneFilePerTable
<1>1. PICK m, n : m = s.table /\ n = t.table
  OBVIOUS
<1>2. IsNamed(m) /\ IsNamed(n)
  <2>1. DOMAIN script = 1 .. Len(script)
    OBVIOUS
  <2>2. (\E k \in 1 .. Len(script) : s = script[k]) /\ (\E k \in 1 .. Len(script) : t = script[k])
    BY <2>1 DEF Range
  <2> QED BY <1>1, <2>2 DEF NamesInv
<1>3. ASSUME NEW suffix \in {SchemaSuffix, DataSuffix}
      PROVE  /\ PathOf(m, suffix) = PathOf(n, suffix) => m = n
             /\ IsSuffix(suffix, PathOf(m, suffix))
  <2>1. /\ PathOf(m, suffix) = (DbRoot \o Inner(m)) \o suffix
        /\ PathOf(n, suffix) = (DbRoot \o Inner(n)) \o suffix
        /\ DbRoot \in Seq(PathChar) /\ Inner(m) \in Seq(PathChar) /\ Inner(n) \in Seq(PathChar)
        /\ suffix \in Seq(PathChar)
    BY <1>2, PathIsWhole
  <2>2. PathOf(m, suffix) = PathOf(n, suffix) => m = n
    <3> SUFFICES ASSUME PathOf(m, suffix) = PathOf(n, suffix) PROVE m = n
      OBVIOUS
    <3>1. (DbRoot \o Inner(m)) \o suffix = (DbRoot \o Inner(n)) \o suffix
      BY <2>1
    <3>2. PICK S, root, b, c, end :
            S = PathChar /\ root = DbRoot /\ b = Inner(m) /\ c = Inner(n) /\ end = suffix
      OBVIOUS
    <3>3. b = c
      <4>1. /\ root \in Seq(S) /\ b \in Seq(S) /\ c \in Seq(S) /\ end \in Seq(S)
            /\ (root \o b) \o end = (root \o c) \o end
        BY <2>1, <3>1, <3>2
      <4> QED BY <4>1, MiddlesEqual
    <3> QED BY <1>2, <3>2, <3>3, InnerInjective
  <2>3. IsSuffix(suffix, PathOf(m, suffix))
    <3>1. DbRoot \o Inner(m) \in Seq(PathChar)
      BY <2>1
    <3> QED BY <2>1, <3>1, EndIsSuffix
  <2> QED BY <2>2, <2>3
<1>4. PathOf(m, SchemaSuffix) # PathOf(n, DataSuffix)
  <2>1. /\ PathOf(m, SchemaSuffix) = (DbRoot \o Inner(m)) \o SchemaSuffix
        /\ PathOf(n, DataSuffix) = (DbRoot \o Inner(n)) \o DataSuffix
        /\ DbRoot \in Seq(PathChar) /\ Inner(m) \in Seq(PathChar) /\ Inner(n) \in Seq(PathChar)
        /\ SchemaSuffix \in Seq(PathChar) /\ DataSuffix \in Seq(PathChar)
    BY <1>2, PathIsWhole
  <2>2. DbRoot \o Inner(m) \in Seq(PathChar) /\ DbRoot \o Inner(n) \in Seq(PathChar)
    BY <2>1
  <2> QED BY <2>1, <2>2, SuffixesDiffer
<1> QED BY <1>1, <1>3, <1>4

LEMMA TwoElements ==
  ASSUME NEW x, NEW y
  PROVE  Append(<<x>>, y) = <<x, y>>
<1>1. PICK T : T = {x, y}
  OBVIOUS
<1>2. x \in T /\ y \in T
  BY <1>1
<1>3. PICK ss, tt : ss = <<x>> /\ tt = <<x, y>>
  OBVIOUS
<1>4. ss \in Seq(T) /\ Len(ss) = 1 /\ ss[1] = x
  BY <1>2, <1>3
<1>5. tt \in Seq(T) /\ Len(tt) = 2 /\ tt[1] = x /\ tt[2] = y
  BY <1>2, <1>3
<1>6. Len(tt) = Len(ss) + 1 /\ (\A i \in 1 .. Len(ss) : tt[i] = ss[i]) /\ tt[Len(ss) + 1] = y
  BY <1>4, <1>5
<1>7. tt = Append(ss, y)
  BY <1>2, <1>4, <1>5, <1>6, IsAppend
<1> QED BY <1>3, <1>7

\* What Word copies consists of letters and digits.
LEMMA WordIsName ==
  ASSUME TokenizerTypeOK, At(index) \in Letter
  PROVE  SubSeq(source, index, SpanEnd(index, Letter \cup Digit) - 1) \in Name
<1>1. PICK e : e = SpanEnd(index, Letter \cup Digit)
  OBVIOUS
<1>2. source \in Seq(Char) /\ index \in 1 .. Len(source) + 1 /\ Len(source) \in Nat
  BY DEF TokenizerTypeOK, Text
<1>3. e \in index .. Len(source) + 1 /\ \A k \in index .. e - 1 : At(k) \in Letter \cup Digit
  <2>1. NUL \notin Letter \cup Digit /\ source \in Text
    BY SourceAssumption DEF TokenizerTypeOK
  <2> QED BY <1>1, <1>2, <2>1, SpanEndRange
<1>4. \A k \in index .. e - 1 : source[k] \in Letter \cup Digit
  <2>1. \A k \in index .. e - 1 : k \in DOMAIN source
    BY <1>2, <1>3
  <2> QED BY <1>3, <2>1 DEF At
<1>5. index \in Int /\ e - 1 \in Int
  BY <1>2, <1>3
<1> QED BY <1>1, <1>4, <1>5, SubSeqProperties DEF Name

LEMMA TokenizeNames ==
  ASSUME ParserInv, NamesInv, Tokenize, UNCHANGED parsing
  PROVE  NamesInv'
<1>1. UNCHANGED <<current, rule, statement, script>> /\ TokenizerTypeOK
  BY DEF parsing, ParserInv
<1>2. ASSUME NEW type, NEW lexeme, AddToken(type, lexeme), type = "IDENTIFIER" => lexeme \in Name
      PROVE  WordsNamed'
  <2>1. PICK token : token = [type |-> type, lexeme |-> lexeme, line |-> line,
                              column |-> column, start |-> index]
    OBVIOUS
  <2>2. tokens' = Append(tokens, token) /\ tokens \in Seq(Token)
    BY <1>1, <1>2, <2>1 DEF AddToken, TokenizerTypeOK
  <2>3. /\ Len(tokens') = Len(tokens) + 1 /\ Len(tokens) \in Nat
        /\ \A k \in 1 .. Len(tokens) : tokens'[k] = tokens[k]
        /\ tokens'[Len(tokens) + 1] = token
    BY <2>2
  <2>4. \A k \in 1 .. Len(tokens) + 1 : k \in 1 .. Len(tokens) \/ k = Len(tokens) + 1
    BY <2>3
  <2>5. token.type = type /\ token.lexeme = lexeme
    BY <2>1
  <2> QED BY <1>2, <2>3, <2>4, <2>5 DEF NamesInv, WordsNamed
<1>3. WordsNamed'
  <2>1. CASE tokens' = tokens
    BY <2>1 DEF NamesInv, WordsNamed
  <2>2. CASE Word
    <3>1. PICK lexeme : lexeme = SubSeq(source, index, SpanEnd(index, Letter \cup Digit) - 1)
      OBVIOUS
    <3>2. lexeme \in Name
      BY <1>1, <2>2, <3>1, WordIsName DEF Word
    <3>3. AddToken(KeywordType(lexeme), lexeme)
      BY <2>2, <3>1 DEF Word
    <3> QED BY <1>2, <3>2, <3>3
  <2>3. CASE Number
    <3>1. \E lexeme : AddToken("NUMBER", lexeme)
      BY <2>3 DEF Number
    <3> QED BY <1>2, <3>1
  <2>4. CASE StringLiteral
    <3>1. \E lexeme : AddToken("STRING", lexeme)
      BY <2>4 DEF StringLiteral
    <3> QED BY <1>2, <3>1
  <2>5. CASE SymbolToken
    <3>1. At(index) # "IDENTIFIER" /\ AddToken(At(index), <<At(index)>>)
      BY <2>5 DEF SymbolToken, Symbol
    <3> QED BY <1>2, <3>1
  <2>6. CASE EndOfInput
    <3>1. AddToken("END", <<>>)
      BY <2>6 DEF EndOfInput
    <3> QED BY <1>2, <3>1
  <2>7. CASE SkipNewline \/ SkipBlank \/ LineComment \/ BlockComment \/ UnterminatedComment
             \/ UnterminatedString \/ UnexpectedCharacter
    <3>1. tokens' = tokens
      BY <2>7 DEF SkipNewline, SkipBlank, LineComment, BlockComment, UnterminatedComment,
                  UnterminatedString, UnexpectedCharacter, TokenizerFails
    <3> QED BY <2>1, <3>1
  <2> QED BY <2>2, <2>3, <2>4, <2>5, <2>6, <2>7 DEF Tokenize
<1> QED BY <1>1, <1>3 DEF NamesInv, TableNamed

LEMMA ParseNames ==
  ASSUME ParserInv, NamesInv, Parse
  PROVE  NamesInv'
<1> USE DEF InsertRules, SelectRules, AfterName
<1>1. StatementOK /\ TableNamed /\ script \in Seq(StatementRecord)
  BY DEF ParserInv, NamesInv
<1>2. tokens' = tokens
  BY DEF Parse, SkipSemicolon, BeginInsert, BeginSelect, EndStatement, EndOfScript, SyntaxError,
         Consume, TableName, QualifiedName, AllColumns, ColumnName, Value, Where, WhereColumn,
         WhereValue, Parsing, tvars
<1>3. WordsNamed'
  BY <1>2 DEF NamesInv, WordsNamed
<1>4. ASSUME TableNamed', script' \in {script, <<>>}
      PROVE  NamesInv'
  BY <1>3, <1>4 DEF NamesInv
<1>5. ASSUME rule \in {"table", "qualified"}, Parsing({rule})
      PROVE  Peek.lexeme \in Name
  <2>1. Peek.type = "IDENTIFIER" /\ phase = "parse"
    <3>1. Accepts["table"] = {"IDENTIFIER"} /\ Accepts["qualified"] = {"IDENTIFIER"}
      BY DEF Accepts
    <3> QED BY <1>5, <3>1 DEF Parsing
  <2>2. current \in 1 .. Len(tokens)
    BY <2>1 DEF ParserInv, CursorOK
  <2> QED BY <2>1, <2>2 DEF Peek, NamesInv, WordsNamed
<1>6. CASE SkipSemicolon \/ BeginInsert \/ BeginSelect
  <2>1. rule' \in {"statement", "into", "selection"} /\ script' = script
    BY <1>6 DEF SkipSemicolon, BeginInsert, BeginSelect, Advance
  <2>2. TableNamed'
    BY <2>1 DEF TableNamed
  <2> QED BY <1>4, <2>1, <2>2
<1>7. CASE EndStatement
  <2>1. rule = "end" /\ rule' = "statement" /\ script' = Append(script, statement)
    BY <1>7 DEF EndStatement, Advance
  <2>2. IsNamed(statement.table)
    BY <1>1, <2>1 DEF TableNamed
  <2>3. TableNamed'
    BY <2>1 DEF TableNamed
  <2>4. /\ Len(script') = Len(script) + 1 /\ Len(script) \in Nat
        /\ \A k \in 1 .. Len(script) : script'[k] = script[k]
        /\ script'[Len(script) + 1] = statement
    BY <1>1, <2>1
  <2>5. \A k \in 1 .. Len(script) + 1 : k \in 1 .. Len(script) \/ k = Len(script) + 1
    BY <2>4
  <2> QED BY <1>3, <2>2, <2>3, <2>4, <2>5 DEF NamesInv
<1>8. CASE EndOfScript \/ SyntaxError
  <2>1. rule' = rule /\ statement' = statement /\ script' \in {script, <<>>}
    BY <1>8 DEF EndOfScript, SyntaxError, parsing
  <2>2. TableNamed'
    BY <1>1, <2>1 DEF TableNamed
  <2> QED BY <1>4, <2>1, <2>2
<1>9. CASE Consume
  <2>1. rule \in DOMAIN After /\ rule' = After[rule] /\ statement' = statement /\ script' = script
    BY <1>9 DEF Consume, Parsing, Advance
  <2>2. TableNamed'
    BY <1>1, <2>1 DEF TableNamed, After
  <2> QED BY <1>4, <2>1, <2>2
<1>10. CASE TableName
  <2>1. /\ rule = "table" /\ statement' = [statement EXCEPT !.table = <<Peek.lexeme>>]
        /\ script' = script /\ rule' \in {"qualified", AfterTable} /\ Parsing({rule})
    BY <1>10 DEF TableName, Parsing, Advance
  <2>2. Peek.lexeme \in Name
    BY <1>5, <2>1
  <2>3. statement'.table = <<Peek.lexeme>>
    BY <1>1, <2>1 DEF StatementOK, InsertRecord, SelectRecord
  <2>4. TableNamed'
    BY <2>1, <2>2, <2>3 DEF TableNamed, IsNamed, AfterTable
  <2> QED BY <1>4, <2>1, <2>4
<1>11. CASE QualifiedName
  <2>1. /\ rule = "qualified" /\ statement' = [statement EXCEPT !.table = Append(@, Peek.lexeme)]
        /\ script' = script /\ rule' = AfterTable /\ Parsing({rule})
    BY <1>11 DEF QualifiedName, Parsing, Advance
  <2>2. PICK x \in Name, y \in Name : statement.table = <<x>> /\ y = Peek.lexeme
    BY <1>1, <1>5, <2>1 DEF TableNamed
  <2>3. statement'.table = Append(<<x>>, y)
    BY <1>1, <2>1, <2>2 DEF StatementOK, InsertRecord, SelectRecord
  <2>4. statement'.table = <<x, y>>
    BY <2>3, TwoElements
  <2>5. TableNamed'
    BY <2>1, <2>4 DEF TableNamed, IsNamed, AfterTable
  <2> QED BY <1>4, <2>1, <2>5
<1>12. CASE AllColumns
  <2>1. rule' = "from" /\ script' = script
    BY <1>12 DEF AllColumns, Advance
  <2>2. TableNamed'
    BY <2>1 DEF TableNamed
  <2> QED BY <1>4, <2>1, <2>2
<1>13. CASE ColumnName
  <2>1. /\ rule \in {"selection", "columns"} /\ script' = script
        /\ statement' = [statement EXCEPT !.columns = Append(@, Peek.lexeme)]
        /\ rule' \in {AfterColumns, "columns"}
    BY <1>13 DEF ColumnName, Parsing, NextItem, Advance
  <2>2. statement \in InsertRecord \cup SelectRecord
        /\ (rule = "selection" => statement \in SelectRecord)
    BY <1>1, <2>1 DEF StatementOK
  <2>3. statement'.table = statement.table /\ statement'.type = statement.type
    BY <2>1, <2>2 DEF InsertRecord, SelectRecord
  <2>4. TableNamed'
    BY <1>1, <2>1, <2>2, <2>3 DEF TableNamed, AfterColumns, SelectRecord
  <2> QED BY <1>4, <2>1, <2>4
<1>14. CASE Value \/ Where \/ WhereColumn \/ WhereValue
  <2>1. /\ rule \in AfterName /\ rule' \in AfterName /\ script' = script
        /\ statement \in InsertRecord \cup SelectRecord
    BY <1>1, <1>14 DEF Value, Where, WhereColumn, WhereValue, Parsing, NextItem, Advance, StatementOK
  <2>2. statement'.table = statement.table
    <3>1. CASE Value
      <4>1. statement' = [statement EXCEPT !.values = Append(@, Peek.lexeme)]
        BY <3>1 DEF Value
      <4> QED BY <2>1, <4>1 DEF InsertRecord, SelectRecord
    <3>2. CASE Where
      BY <3>2 DEF Where
    <3>3. CASE WhereColumn
      <4>1. statement' = [statement EXCEPT !.where.enabled = TRUE, !.where.column = Peek.lexeme]
        BY <3>3 DEF WhereColumn
      <4> QED BY <2>1, <4>1 DEF InsertRecord, SelectRecord
    <3>4. CASE WhereValue
      <4>1. statement' = [statement EXCEPT !.where.value = Peek.lexeme]
        BY <3>4 DEF WhereValue
      <4> QED BY <2>1, <4>1 DEF InsertRecord, SelectRecord
    <3> QED BY <1>14, <3>1, <3>2, <3>3, <3>4
  <2>3. TableNamed'
    BY <1>1, <2>1, <2>2 DEF TableNamed
  <2> QED BY <1>4, <2>1, <2>3
<1> QED BY <1>6, <1>7, <1>8, <1>9, <1>10, <1>11, <1>12, <1>13, <1>14 DEF Parse

\* build_table_paths: statements on different tables never meet in one file, no
\* schema is another table's data and no path is cut short, for every script, every
\* database directory and names of any length (storage.c:7-62).
THEOREM FilesOfTables == ParserSpec => []OneFilePerTable
<1>1. ParserInit => ParserInv /\ NamesInv
  <2>1. ParserInit => NamesInv
    BY DEF ParserInit, TokenizerInit, NamesInv, WordsNamed, TableNamed, AfterName
  <2> QED BY <2>1, ParserStarts
<1>2. ParserInv /\ NamesInv /\ [ParserNext]_pvars => (ParserInv /\ NamesInv)'
  <2>1. NamesInv /\ UNCHANGED pvars => NamesInv'
    BY DEF NamesInv, WordsNamed, TableNamed, pvars, tvars, parsing
  <2> QED BY <2>1, ParserGoesOn, ParseNames, TokenizeNames DEF ParserNext
<1>3. ParserInv /\ NamesInv => OneFilePerTable
  BY NamesSeparate DEF ParserInv
<1> QED BY <1>1, <1>2, <1>3, PTL DEF ParserSpec

-----------------------------------------------------------------------------
(* The positions.                                                          *)

Newlines(i, j) == {k \in i .. j - 1 : source[k] = LF}

LEMMA NewlinesFinite ==
  ASSUME NEW i \in Nat \ {0}, NEW j \in Nat
  PROVE  /\ IsFiniteSet(Newlines(i, j)) /\ Cardinality(Newlines(i, j)) \in Nat
         /\ Newlines(i, j) \subseteq 0 .. j
<1>1. PICK T : T = Newlines(i, j)
  OBVIOUS
<1>2. T \subseteq i .. j - 1 /\ IsFiniteSet(i .. j - 1)
  BY <1>1, FS_Interval DEF Newlines
<1>3. IsFiniteSet(T)
  BY <1>2, FS_Subset
<1>4. Cardinality(T) \in Nat
  BY <1>3, FS_CardinalityType
<1>5. T \subseteq 0 .. j
  BY <1>2
<1> QED BY <1>1, <1>3, <1>4, <1>5

\* What a stretch of text does to the line and the column.
LEMMA PositionAfter ==
  ASSUME NEW i \in Nat \ {0}, NEW j \in Nat, i <= j, NEW l, NEW c, <<l, c>> = Position(i)
  PROVE  LET new == Newlines(i, j)
         IN  Position(j) = <<l + Cardinality(new),
                             IF new = {} THEN c + (j - i) ELSE j - Max(new)>>
<1>1. PICK A : A = Newlines(1, i)
  OBVIOUS
<1>2. PICK B : B = Newlines(i, j)
  OBVIOUS
<1>3. PICK C : C = Newlines(1, j)
  OBVIOUS
<1>4. l = 1 + Cardinality(A) /\ c = i - Max({0} \cup A)
  BY <1>1 DEF Position, Newlines
<1>5. Position(j) = <<1 + Cardinality(C), j - Max({0} \cup C)>>
  BY <1>3 DEF Position, Newlines
<1>6. C = A \cup B /\ A \cap B = {} /\ (\A a \in A : a < i) /\ (\A b \in B : i <= b /\ b < j)
      /\ B \subseteq Nat /\ A \subseteq Nat
  BY <1>1, <1>2, <1>3 DEF Newlines
<1>7. /\ IsFiniteSet(A) /\ Cardinality(A) \in Nat
      /\ IsFiniteSet(B) /\ Cardinality(B) \in Nat
      /\ A \subseteq 0 .. i /\ B \subseteq 0 .. j /\ C \subseteq 0 .. j
  <2>1. 1 \in Nat \ {0} /\ i \in Nat
    OBVIOUS
  <2> QED BY <1>1, <1>2, <1>3, <2>1, NewlinesFinite
<1>8. Cardinality(C) = Cardinality(A) + Cardinality(B)
  <2>1. Cardinality(C) = Cardinality(A) + Cardinality(B) - Cardinality(A \cap B)
    BY <1>6, <1>7, FS_Union
  <2>2. Cardinality(A \cap B) = 0
    BY <1>6, FS_EmptySet
  <2> QED BY <1>7, <2>1, <2>2
<1>9. CASE B = {}
  <2>1. C = A /\ Cardinality(B) = 0
    BY <1>6, <1>9, FS_EmptySet
  <2>2. PICK m \in {0} \cup A : \A y \in {0} \cup A : y <= m
    <3>1. {0} \cup A \subseteq 0 .. i /\ {0} \cup A # {}
      BY <1>7
    <3> QED BY <3>1, GreatestNat
  <2>3. Max({0} \cup A) = m
    <3>1. {0} \cup A \subseteq Nat
      BY <1>6
    <3> QED BY <2>2, <3>1, MaxIs
  <2>4. m \in Nat
    BY <1>6, <2>2
  <2>5. j - Max({0} \cup C) = c + (j - i)
    BY <1>4, <2>1, <2>3, <2>4
  <2> QED BY <1>2, <1>4, <1>5, <1>7, <1>8, <1>9, <2>5
<1>10. CASE B # {}
  <2>1. PICK m \in B : \A y \in B : y <= m
    BY <1>7, <1>10, GreatestNat
  <2>2. Max(B) = m
    BY <1>6, <2>1, MaxIs
  <2>3. m \in {0} \cup C /\ \A y \in {0} \cup C : y <= m
    <3>1. \A a \in A : a <= m
      BY <1>6, <2>1
    <3>2. m \in Nat /\ 0 <= m
      BY <1>6, <2>1
    <3> QED BY <1>6, <2>1, <3>1, <3>2
  <2>4. Max({0} \cup C) = m
    <3>1. {0} \cup C \subseteq Nat
      BY <1>6
    <3> QED BY <2>3, <3>1, MaxIs
  <2> QED BY <1>2, <1>4, <1>5, <1>7, <1>8, <1>10, <2>2, <2>4
<1> QED BY <1>9, <1>10

-----------------------------------------------------------------------------
StringAmong(n) == \E j \in 1 .. n : tokens[j].type = "STRING"

InPlace == <<line, column>> = Position(index)

TokensInPlace ==
  \A k \in DOMAIN tokens :
    StringAmong(k - 1) \/ <<tokens[k].line, tokens[k].column>> = Position(tokens[k].start)

\* While no literal has been read the tokenizer knows where it is.
PositionInv ==
  /\ TokensInPlace
  /\ phase = "tokenize" => error = NoPosition /\ (StringAmong(Len(tokens)) \/ InPlace)
  /\ phase = "failed"   => \/ Tokenized \/ StringAmong(Len(tokens))
                           \/ error \in {NoPosition, Position(index)}
  /\ phase \in {"parse", "done"} => Tokenized

\* A stretch without newlines.
LEMMA SameLine ==
  ASSUME TokenizerTypeOK, UNCHANGED source, InPlace, NEW i \in index .. Len(source) + 1,
         \A k \in index .. i - 1 : At(k) # LF, MoveTo(i, i - index)
  PROVE  InPlace'
<1>1. source \in Text /\ Len(source) \in Nat /\ DOMAIN source = 1 .. Len(source)
      /\ index \in 1 .. Len(source) + 1 /\ line \in Nat /\ column \in Nat
  BY DEF TokenizerTypeOK, Text
<1>2. Newlines(index, i) = {}
  <2> SUFFICES ASSUME NEW k \in index .. i - 1 PROVE source[k] # LF
    BY DEF Newlines
  <2>1. k \in 1 .. Len(source)
    BY <1>1
  <2> QED BY <1>1, <2>1 DEF At
<1>3. Cardinality(Newlines(index, i)) = 0
  BY <1>2, FS_EmptySet
<1>4. Position(i) = <<line + 0, column + (i - index)>>
  <2>1. index \in Nat \ {0} /\ i \in Nat /\ index <= i
    BY <1>1
  <2> QED BY <1>2, <1>3, <2>1, PositionAfter DEF InPlace
<1>5. index' = i /\ line' = line /\ column' = column + (i - index)
  BY DEF MoveTo
<1> QED BY <1>1, <1>4, <1>5 DEF InPlace, Position

\* A new token is where the tokenizer is.
LEMMA AddTokenInPlace ==
  ASSUME TokenizerTypeOK, PositionInv, phase = "tokenize", UNCHANGED source,
         NEW type, NEW lexeme, AddToken(type, lexeme)
  PROVE  /\ TokensInPlace'
         /\ StringAmong(Len(tokens)) => StringAmong(Len(tokens))'
         /\ type = "STRING" => StringAmong(Len(tokens))'
<1>1. PICK token : token = [type |-> type, lexeme |-> lexeme, line |-> line,
                            column |-> column, start |-> index]
  OBVIOUS
<1>2. tokens' = Append(tokens, token) /\ tokens \in Seq(Token)
  BY <1>1 DEF AddToken, TokenizerTypeOK
<1>3. /\ Len(tokens') = Len(tokens) + 1 /\ Len(tokens) \in Nat
      /\ \A k \in 1 .. Len(tokens) : tokens'[k] = tokens[k]
      /\ tokens'[Len(tokens) + 1] = token
      /\ DOMAIN tokens = 1 .. Len(tokens) /\ DOMAIN tokens' = 1 .. Len(tokens) + 1
  BY <1>2
<1>4. /\ token.type = type /\ token.line = line /\ token.column = column
      /\ token.start = index
  BY <1>1
<1>5. ASSUME NEW n \in 0 .. Len(tokens) PROVE StringAmong(n) => StringAmong(n)'
  BY <1>3 DEF StringAmong
<1>6. StringAmong(Len(tokens)) => StringAmong(Len(tokens))'
  <2>1. StringAmong(Len(tokens)) => \E j \in 1 .. Len(tokens) + 1 : tokens'[j].type = "STRING"
    BY <1>3 DEF StringAmong
  <2> QED BY <1>3, <2>1 DEF StringAmong
<1>7. type = "STRING" => StringAmong(Len(tokens))'
  BY <1>3, <1>4 DEF StringAmong
<1>8. \A i : Position(i)' = Position(i)
  BY DEF Position
<1>9. TokensInPlace'
  <2> SUFFICES ASSUME NEW k \in 1 .. Len(tokens) + 1
               PROVE  \/ \E j \in 1 .. k - 1 : tokens'[j].type = "STRING"
                      \/ <<tokens'[k].line, tokens'[k].column>> = Position(tokens'[k].start)
    BY <1>3, <1>8 DEF TokensInPlace, StringAmong, Position
  <2>1. CASE k \in 1 .. Len(tokens)
    <3>1. StringAmong(k - 1) => \E j \in 1 .. k - 1 : tokens'[j].type = "STRING"
      BY <1>3, <2>1 DEF StringAmong
    <3> QED BY <1>3, <2>1, <3>1 DEF PositionInv, TokensInPlace
  <2>2. CASE k = Len(tokens) + 1
    <3>1. StringAmong(Len(tokens)) => \E j \in 1 .. k - 1 : tokens'[j].type = "STRING"
      BY <1>3, <2>2 DEF StringAmong
    <3>2. StringAmong(Len(tokens)) \/ <<line, column>> = Position(index)
      BY DEF PositionInv, InPlace
    <3>3. <<tokens'[k].line, tokens'[k].column>> = <<line, column>> /\ tokens'[k].start = index
      BY <1>3, <1>4, <2>2
    <3> QED BY <3>1, <3>2, <3>3
  <2> QED BY <1>3, <2>1, <2>2
<1> QED BY <1>6, <1>7, <1>9

\* None of the characters that end or make up these elements is a newline.
LEMMA NotNewline ==
  /\ LF \notin Letter \cup Digit /\ LF \notin Symbol
  /\ LF \notin {Quote, "-", "/", "*"} /\ LF # NUL
<1>1. LF \in Blank /\ LF \in Letter \cup Digit \cup Blank
  BY SourceAssumption
<1>2. LF \notin Letter \cup Digit
  BY <1>1, SourceAssumption
<1>3. LF \notin Symbol \cup {Quote, "-", "/"}
  BY <1>1, SourceAssumption
<1>4. LF # NUL
  BY <1>1, SourceAssumption
<1> QED BY <1>2, <1>3, <1>4 DEF Symbol

\* A turn of the loop that ends it, or that stays before the first literal.
LEMMA TokenizePositions ==
  ASSUME TokenizerTypeOK, PositionInv, Tokenize
  PROVE  PositionInv'
<1>1. source \in Text /\ Len(source) \in Nat /\ DOMAIN source = 1 .. Len(source)
      /\ index \in 1 .. Len(source) + 1 /\ index \in Nat /\ index # 0
      /\ line \in Nat /\ column \in Nat /\ tokens \in Seq(Token) /\ Len(tokens) \in Nat
  BY DEF TokenizerTypeOK, Text
<1>2. phase = "tokenize" /\ UNCHANGED source
  BY DEF Tokenize, SkipNewline, SkipBlank, LineComment, BlockComment, UnterminatedComment,
         Word, Number, StringLiteral, UnterminatedString, SymbolToken,
         UnexpectedCharacter, EndOfInput, Tokenizing
<1>3. TokensInPlace /\ error = NoPosition /\ (StringAmong(Len(tokens)) \/ InPlace)
  BY <1>2 DEF PositionInv
<1>4. ASSUME NEW i \in Nat, At(i) # NUL PROVE i \in 1 .. Len(source) /\ At(i) = source[i]
  BY <1>1, <1>4, AtChar
<1>5. NUL \notin Letter \cup Digit /\ NUL \notin Char \ {LF}
      /\ NUL \notin {Quote, "-", "/", "*"} /\ NUL \notin Symbol /\ NUL \notin Blank
  BY SourceAssumption DEF Symbol
<1>6. ASSUME tokens' = tokens PROVE TokensInPlace' /\ (StringAmong(Len(tokens))' <=> StringAmong(Len(tokens)))
  BY <1>2, <1>3, <1>6 DEF TokensInPlace, StringAmong, Position
<1>7. ASSUME NEW i \in index .. Len(source) + 1, \A k \in index .. i - 1 : At(k) # LF,
             MoveTo(i, i - index), TokensInPlace',
             StringAmong(Len(tokens)) => StringAmong(Len(tokens))'
      PROVE  PositionInv'
  <2>1. InPlace => InPlace'
    BY <1>2, <1>7, SameLine
  <2>2. phase' = "tokenize" /\ error' = NoPosition
    BY <1>2, <1>3, <1>7 DEF MoveTo
  <2> QED BY <1>3, <1>7, <2>1, <2>2 DEF PositionInv, NoPosition
<1>8. ASSUME NEW position \in {NoPosition, <<line, column>>}, TokenizerFails(position)
      PROVE  PositionInv'
  <2>1. phase' = "failed" /\ error' = position /\ UNCHANGED <<index, line, column, tokens>>
    BY <1>8 DEF TokenizerFails
  <2>2. TokensInPlace' /\ (StringAmong(Len(tokens))' <=> StringAmong(Len(tokens)))
    BY <1>6, <2>1
  <2>3. Position(index)' = Position(index)
    BY <1>2, <2>1 DEF Position
  <2>4. InPlace => position \in {NoPosition, Position(index)}
    BY <1>8 DEF InPlace
  <2>5. NoPosition' = NoPosition
    BY DEF NoPosition
  <2> QED BY <1>3, <2>1, <2>2, <2>3, <2>4, <2>5 DEF PositionInv
<1>9. ASSUME NEW S, NUL \notin S, LF \notin S, NEW i \in index .. Len(source) + 1,
             \A k \in index .. i - 1 : At(k) # LF
      PROVE  /\ SpanEnd(i, S) \in index .. Len(source) + 1
             /\ \A k \in index .. SpanEnd(i, S) - 1 : At(k) # LF
  <2>1. PICK e : e = SpanEnd(i, S)
    OBVIOUS
  <2>2. e \in i .. Len(source) + 1 /\ \A k \in i .. e - 1 : At(k) \in S
    BY <1>1, <1>9, <2>1, SpanEndRange
  <2>3. \A k \in index .. e - 1 : k \in index .. i - 1 \/ k \in i .. e - 1
    BY <1>1, <2>2
  <2>4. e \in index .. Len(source) + 1
    BY <1>1, <2>2
  <2> QED BY <1>9, <2>1, <2>2, <2>3, <2>4
<1>10. CASE SkipNewline
  <2>1. At(index) = LF /\ index' = index + 1 /\ line' = line + 1 /\ column' = 1
        /\ UNCHANGED <<tokens, phase, error>>
    BY <1>10 DEF SkipNewline
  <2>2. index \in 1 .. Len(source) /\ source[index] = LF
    BY <1>1, <1>4, <2>1, NotNewline
  <2>3. Newlines(index, index + 1) = {index}
    BY <1>1, <2>2 DEF Newlines
  <2>4. PICK here : here = {index}
    OBVIOUS
  <2>5. Cardinality(here) = 1 /\ Max(here) = index /\ here # {}
    <3>1. here \subseteq Nat /\ index \in here /\ \A y \in here : y <= index
      BY <1>1, <2>4
    <3> QED BY <2>4, <3>1, FS_Singleton, MaxIs
  <2>6. InPlace => Position(index + 1) = <<line + 1, index + 1 - index>>
    <3>1. PICK j : j = index + 1
      OBVIOUS
    <3>2. index \in Nat \ {0} /\ j \in Nat /\ index <= j
      BY <1>1, <3>1
    <3>3. Newlines(index, j) = here
      BY <2>3, <2>4, <3>1
    <3>4. InPlace => Position(j) = <<line + 1, j - index>>
      BY <2>5, <3>2, <3>3, PositionAfter DEF InPlace
    <3> QED BY <1>1, <3>1, <3>4
  <2>7. InPlace => InPlace'
    BY <1>1, <1>2, <2>1, <2>6 DEF InPlace, Position
  <2> QED BY <1>2, <1>3, <1>6, <2>1, <2>7 DEF PositionInv, NoPosition
<1>11. CASE SkipBlank
  <2>1. At(index) # LF /\ At(index) # NUL /\ MoveTo(index + 1, 1) /\ tokens' = tokens
    BY <1>5, <1>11 DEF SkipBlank
  <2>2. index + 1 \in index .. Len(source) + 1 /\ index + 1 - index = 1
    BY <1>1, <1>4, <2>1
  <2>3. PICK i : i = index + 1
    OBVIOUS
  <2>4. i \in index .. Len(source) + 1 /\ MoveTo(i, i - index)
        /\ \A k \in index .. i - 1 : At(k) # LF
    BY <1>1, <2>1, <2>2, <2>3
  <2> QED BY <1>6, <1>7, <2>1, <2>4
<1>12. CASE LineComment
  <2>1. PICK end : end = SpanEnd(index + 2, Char \ {LF})
    OBVIOUS
  <2>2. At(index) = "-" /\ At(index + 1) = "-" /\ MoveTo(end, end - index) /\ tokens' = tokens
    BY <1>12, <2>1 DEF LineComment, StartsLineComment
  <2>3. index + 1 \in 1 .. Len(source)
    BY <1>1, <1>4, <1>5, <2>2
  <2>4. index + 2 \in index .. Len(source) + 1
    BY <1>1, <2>3
  <2>5. \A k \in index .. index + 2 - 1 : At(k) # LF
    <3>1. \A k \in index .. index + 2 - 1 : k = index \/ k = index + 1
      BY <1>1
    <3> QED BY <2>2, <3>1, NotNewline
  <2>6. end \in index .. Len(source) + 1 /\ \A k \in index .. end - 1 : At(k) # LF
    <3>1. PICK S : S = Char \ {LF}
      OBVIOUS
    <3>2. PICK i : i = index + 2
      OBVIOUS
    <3>3. NUL \notin S /\ LF \notin S /\ end = SpanEnd(i, S)
      BY <1>5, <2>1, <3>1, <3>2
    <3>4. i \in index .. Len(source) + 1 /\ \A k \in index .. i - 1 : At(k) # LF
      BY <1>1, <2>4, <2>5, <3>2
    <3> QED BY <1>9, <3>3, <3>4
  <2> QED BY <1>6, <1>7, <2>2, <2>6
<1>13. CASE BlockComment
  <2>1. PICK last : last = Min(CommentEnds)
    OBVIOUS
  <2>2. PICK newlines : newlines = {k \in index + 2 .. last - 1 : At(k) = LF}
    OBVIOUS
  <2>3. /\ index' = last + 2
        /\ line' = line + Cardinality(newlines)
        /\ column' = IF newlines = {} THEN column + last + 2 - index
                                      ELSE last + 2 - Max(newlines)
        /\ UNCHANGED <<tokens, phase, error>>
        /\ CommentEnds # {} /\ At(index) = "/" /\ At(index + 1) = "*"
    BY <1>13, <2>1, <2>2 DEF BlockComment, StartsBlockComment
  <2>4. last \in CommentEnds
    <3>1. CommentEnds \subseteq Nat
      BY <1>1 DEF CommentEnds
    <3>2. \E x \in CommentEnds : \A y \in CommentEnds : x <= y
      BY <2>3, <3>1, LeastNat
    <3> QED BY <2>1, <3>2 DEF Min
  <2>5. last \in index + 2 .. Len(source) /\ At(last) = "*" /\ At(last + 1) = "/"
    BY <2>4 DEF CommentEnds
  <2>6. last \in Nat /\ last + 1 \in 1 .. Len(source) /\ index + 2 <= last
    <3>1. last + 1 \in Nat
      BY <1>1, <2>5
    <3> QED BY <1>1, <1>4, <1>5, <2>5, <3>1
  <2>7. newlines = Newlines(index, last + 2)
    <3>1. \A k \in index .. last + 1 : k \in 1 .. Len(source) /\ At(k) = source[k]
      BY <1>1, <2>6 DEF At
    <3>2. \A k \in index .. last + 1 :
            k = index \/ k = index + 1 \/ k = last \/ k = last + 1 \/ k \in index + 2 .. last - 1
      BY <1>1, <2>6
    <3>3. \A k \in index .. last + 1 : At(k) = LF => k \in index + 2 .. last - 1
      BY <2>3, <2>5, <3>2, NotNewline
    <3>4. index + 2 .. last - 1 \subseteq index .. last + 1 /\ last + 2 - 1 = last + 1
      BY <1>1, <2>6
    <3>5. Newlines(index, last + 2) = {k \in index .. last + 1 : At(k) = LF}
      <4>1. PICK j : j = last + 2
        OBVIOUS
      <4>2. j - 1 = last + 1
        BY <2>6, <4>1
      <4>3. Newlines(index, j) = {k \in index .. last + 1 : source[k] = LF}
        BY <4>2, Zenon DEF Newlines
      <4>4. {k \in index .. last + 1 : source[k] = LF} = {k \in index .. last + 1 : At(k) = LF}
        BY <3>1
      <4> QED BY <4>1, <4>3, <4>4, Zenon
    <3>6. PICK inside, around : inside = index + 2 .. last - 1 /\ around = index .. last + 1
      OBVIOUS
    <3>7. {k \in inside : At(k) = LF} = {k \in around : At(k) = LF}
      BY <3>3, <3>4, <3>6
    <3> QED BY <2>2, <3>5, <3>6, <3>7
  <2>8. PICK j : j = last + 2
    OBVIOUS
  <2>9. InPlace => InPlace'
    <3>1. j \in Nat /\ index \in Nat \ {0} /\ index <= j /\ newlines = Newlines(index, j)
      BY <1>1, <2>6, <2>7, <2>8
    <3>2. InPlace => Position(j) = <<line + Cardinality(newlines),
                                     IF newlines = {} THEN column + (j - index)
                                                      ELSE j - Max(newlines)>>
      BY <3>1, PositionAfter DEF InPlace
    <3>3. /\ index' = j /\ line' = line + Cardinality(newlines)
          /\ newlines = {} => column' = column + (j - index)
          /\ newlines # {} => column' = j - Max(newlines)
      <4>1. newlines # {} => Max(newlines) \in Nat
        <5>1. newlines \subseteq 0 .. j
          BY <3>1, NewlinesFinite
        <5>2. newlines # {} => \E m \in newlines : \A y \in newlines : y <= m
          BY <3>1, <5>1, GreatestNat
        <5> QED BY <3>1, <5>1, <5>2, MaxIs
      <4>2. PICK m : m = Max(newlines)
        OBVIOUS
      <4>3. newlines # {} => column' = j - m
        BY <2>3, <2>6, <2>8, <4>1, <4>2
      <4>4. newlines = {} => column' = column + (j - index)
        BY <1>1, <2>3, <2>6, <2>8
      <4> QED BY <2>3, <2>8, <4>2, <4>3, <4>4
    <3>4. InPlace => Position(j) = <<line', column'>>
      BY <3>2, <3>3
    <3> QED BY <1>2, <3>3, <3>4 DEF InPlace, Position
  <2> QED BY <1>2, <1>3, <1>6, <2>3, <2>9 DEF PositionInv, NoPosition
<1>14. CASE UnterminatedComment
  BY <1>8, <1>14 DEF UnterminatedComment
<1>15. CASE Word
  <2>1. PICK end : end = SpanEnd(index, Letter \cup Digit)
    OBVIOUS
  <2>2. (\E type, lexeme : AddToken(type, lexeme)) /\ MoveTo(end, end - index)
    BY <1>15, <2>1 DEF Word
  <2>3. end \in index .. Len(source) + 1 /\ \A k \in index .. end - 1 : At(k) # LF
    <3>1. index \in index .. Len(source) + 1 /\ \A k \in index .. index - 1 : At(k) # LF
      BY <1>1
    <3> QED BY <1>5, <1>9, <2>1, <3>1, NotNewline
  <2> QED BY <1>2, <1>7, <2>2, <2>3, AddTokenInPlace
<1>16. CASE Number
  <2>1. PICK end : end = SpanEnd(index + 1, Digit)
    OBVIOUS
  <2>2. (\E type, lexeme : AddToken(type, lexeme)) /\ MoveTo(end, end - index)
        /\ At(index) \in Digit \cup {"-"}
    BY <1>16, <2>1 DEF Number, StartsNumber
  <2>3. index + 1 \in index .. Len(source) + 1 /\ \A k \in index .. index + 1 - 1 : At(k) # LF
    <3>1. At(index) # NUL /\ At(index) # LF
      BY <1>5, <2>2, NotNewline
    <3>2. index \in 1 .. Len(source)
      BY <1>1, <1>4, <3>1
    <3> QED BY <1>1, <3>1, <3>2
  <2>4. end \in index .. Len(source) + 1 /\ \A k \in index .. end - 1 : At(k) # LF
    <3>1. NUL \notin Digit /\ LF \notin Digit
      BY <1>5, NotNewline
    <3>2. PICK i : i = index + 1
      OBVIOUS
    <3>3. i \in index .. Len(source) + 1 /\ \A k \in index .. i - 1 : At(k) # LF
      BY <1>1, <2>3, <3>2
    <3>4. end = SpanEnd(i, Digit)
      BY <2>1, <3>2
    <3> QED BY <1>9, <3>1, <3>3, <3>4
  <2> QED BY <1>2, <1>7, <2>2, <2>4, AddTokenInPlace
<1>17. CASE StringLiteral
  <2>1. (\E lexeme : AddToken("STRING", lexeme)) /\ phase' = phase /\ error' = error
    BY <1>17 DEF StringLiteral, MoveTo
  <2>2. TokensInPlace' /\ StringAmong(Len(tokens))'
    BY <1>2, <2>1, AddTokenInPlace
  <2> QED BY <1>2, <1>3, <2>1, <2>2 DEF PositionInv, NoPosition
<1>18. CASE UnterminatedString
  BY <1>8, <1>18 DEF UnterminatedString
<1>19. CASE SymbolToken
  <2>1. (\E type, lexeme : AddToken(type, lexeme)) /\ MoveTo(index + 1, 1)
        /\ At(index) # NUL /\ At(index) # LF
    BY <1>5, <1>19, NotNewline DEF SymbolToken
  <2>2. index + 1 \in index .. Len(source) + 1 /\ index + 1 - index = 1
    BY <1>1, <1>4, <2>1
  <2>3. PICK i : i = index + 1
    OBVIOUS
  <2>4. i \in index .. Len(source) + 1 /\ MoveTo(i, i - index)
        /\ \A k \in index .. i - 1 : At(k) # LF
    BY <1>1, <2>1, <2>2, <2>3
  <2>5. TokensInPlace' /\ (StringAmong(Len(tokens)) => StringAmong(Len(tokens))')
    BY <1>2, <2>1, AddTokenInPlace
  <2> QED BY <1>7, <2>4, <2>5
<1>20. CASE UnexpectedCharacter
  BY <1>8, <1>20 DEF UnexpectedCharacter
<1>21. CASE EndOfInput
  <2>1. AddToken("END", <<>>) /\ phase' = "parse"
    BY <1>21 DEF EndOfInput
  <2>2. TokensInPlace'
    BY <1>2, <2>1, AddTokenInPlace
  <2>3. Tokenized'
    <3>1. PICK end : end = [type |-> "END", lexeme |-> <<>>, line |-> line, column |-> column,
                            start |-> index]
      OBVIOUS
    <3>2. tokens' = Append(tokens, end) /\ end.type = "END"
      BY <2>1, <3>1 DEF AddToken
    <3>3. tokens' # <<>> /\ tokens'[Len(tokens')] = end
      BY <1>1, <3>2
    <3> QED BY <3>2, <3>3 DEF Tokenized, Last
  <2> QED BY <2>1, <2>2, <2>3 DEF PositionInv
<1> QED BY <1>10, <1>11, <1>12, <1>13, <1>14, <1>15, <1>16, <1>17, <1>18, <1>19, <1>20, <1>21
        DEF Tokenize

\* The parser looks at the tokens and leaves them as they are.
LEMMA ParsePositions ==
  ASSUME PositionInv, Parse
  PROVE  PositionInv'
<1>1. phase = "parse" /\ UNCHANGED <<tokens, source>> /\ phase' \in {"parse", "done", "failed"}
  BY DEF Parse, SkipSemicolon, BeginInsert, BeginSelect, EndStatement, EndOfScript, SyntaxError,
         Consume, TableName, QualifiedName, AllColumns, ColumnName, Value, Where, WhereColumn,
         WhereValue, Parsing, tvars
<1>2. Tokenized' /\ TokensInPlace'
  BY <1>1 DEF PositionInv, Tokenized, TokensInPlace, StringAmong, Position
<1> QED BY <1>1, <1>2 DEF PositionInv

\* Every message and every token before the first literal points at the line and
\* column at which it is, whatever blanks, newlines and comments precede it
\* (parser.c:215-387).
THEOREM PositionsOfTokens == ParserSpec => []PositionsBeforeStrings
<1>1. ParserInit => ParserInv /\ PositionInv
  <2> SUFFICES ASSUME ParserInit PROVE PositionInv
    BY ParserStarts
  <2>1. tokens = <<>> /\ index = 1 /\ line = 1 /\ column = 1 /\ phase = "tokenize"
        /\ error = NoPosition
    BY DEF ParserInit, TokenizerInit
  <2>2. Position(1) = <<1, 1>>
    <3>1. PICK newlines : newlines = {k \in 1 .. 1 - 1 : source[k] = LF}
      OBVIOUS
    <3>2. newlines = {} /\ Cardinality(newlines) = 0
      BY <3>1, FS_EmptySet
    <3>3. Max({0} \cup newlines) = 0
      BY <3>2, MaxIs
    <3> QED BY <3>1, <3>2, <3>3 DEF Position
  <2> QED BY <2>1, <2>2 DEF PositionInv, TokensInPlace, InPlace
<1>2. ParserInv /\ PositionInv /\ [ParserNext]_pvars => (ParserInv /\ PositionInv)'
  <2>1. PositionInv /\ UNCHANGED pvars => PositionInv'
    <3> SUFFICES ASSUME PositionInv, UNCHANGED pvars PROVE PositionInv'
      OBVIOUS
    <3>1. UNCHANGED <<source, index, line, column, tokens, phase, error>>
      BY DEF pvars, tvars
    <3>2. TokensInPlace' <=> TokensInPlace
      BY <3>1 DEF TokensInPlace, StringAmong, Position
    <3>3. (StringAmong(Len(tokens))' <=> StringAmong(Len(tokens))) /\ (InPlace' <=> InPlace)
      BY <3>1 DEF StringAmong, InPlace, Position
    <3>4. (Tokenized' <=> Tokenized) /\ Position(index)' = Position(index)
      BY <3>1 DEF Tokenized, Last, Position
    <3> QED BY <3>1, <3>2, <3>3, <3>4 DEF PositionInv, NoPosition
  <2> QED BY <2>1, ParserGoesOn, ParsePositions, TokenizePositions DEF ParserNext, ParserInv
<1>3. ParserInv /\ PositionInv => PositionsBeforeStrings
  <2> SUFFICES ASSUME ParserInv, PositionInv PROVE PositionsBeforeStrings
    OBVIOUS
  <2>1. phase \in {"tokenize", "parse", "done", "failed"} /\ DOMAIN tokens = 1 .. Len(tokens)
    BY DEF ParserInv, TokenizerTypeOK
  <2> QED BY <2>1 DEF PositionInv, TokensInPlace, StringAmong, PositionsBeforeStrings
<1> QED BY <1>1, <1>2, <1>3, PTL DEF ParserSpec

-----------------------------------------------------------------------------
(* What is longest.                                                        *)

\* The elements of a text seen from the text: t is what s holds from i to j.
Stretch(t, s, i, j) ==
  /\ s \in Text /\ i \in 1 .. Len(s) /\ j \in i .. Len(s)
  /\ t \in Text /\ Len(t) = j - i + 1
  /\ \A k \in 1 .. j - i + 1 : t[k] = s[i + k - 1]

BlankAt(s, i, j)       == j = i /\ s[i] \in Blank
LineCommentAt(s, i, j) == i < j /\ s[i] = "-" /\ s[i + 1] = "-" /\ \A m \in i .. j : s[m] # LF
BlockCommentAt(s, i, j) ==
  /\ i < j /\ s[i] = "/" /\ s[i + 1] = "*"
  /\ {m \in i + 2 .. j - 1 : s[m] = "*" /\ s[m + 1] = "/"} = {j - 1}
WordAt(s, i, j)   == s[i] \in Letter /\ \A m \in i .. j : s[m] \in Letter \cup Digit
NumberAt(s, i, j) == \/ s[i] # "-" /\ \A m \in i .. j : s[m] \in Digit
                     \/ s[i] = "-" /\ i < j /\ \A m \in i + 1 .. j : s[m] \in Digit
SymbolAt(s, i, j) == j = i /\ s[i] \in Symbol

LEMMA StretchOfText ==
  ASSUME NEW s \in Text, NEW i \in 1 .. Len(s), NEW j \in i .. Len(s)
  PROVE  Stretch(SubSeq(s, i, j), s, i, j)
<1>1. s \in Seq(Char) /\ Len(s) \in Nat
  BY DEF Text
<1>2. i \in 1 .. Len(s) + 1 /\ j \in i - 1 .. Len(s)
  BY <1>1
<1>3. /\ SubSeq(s, i, j) \in Seq(Char) /\ Len(SubSeq(s, i, j)) = j - i + 1
      /\ \A k \in 1 .. j - i + 1 : SubSeq(s, i, j)[k] = s[i + k - 1]
  BY <1>1, <1>2, StretchIs
<1> QED BY <1>3 DEF Stretch, Text

LEMMA StretchIndices ==
  ASSUME NEW t, NEW s, NEW i, NEW j, Stretch(t, s, i, j)
  PROVE  /\ i \in Nat \ {0} /\ j \in Nat /\ i <= j /\ j <= Len(s) /\ Len(s) \in Nat
         /\ t \in Seq(Char) /\ DOMAIN t = 1 .. j - i + 1 /\ Len(t) = j - i + 1
         /\ \A k \in 1 .. j - i + 1 : i + k - 1 \in i .. j /\ t[k] = s[i + k - 1]
         /\ \A m \in i .. j : m - i + 1 \in 1 .. j - i + 1 /\ t[m - i + 1] = s[m]
         /\ t[1] = s[i] /\ t[j - i + 1] = s[j]
         /\ \A m \in i .. j : s[m] \in Char
<1>1. /\ s \in Seq(Char) /\ Len(s) \in Nat /\ i \in 1 .. Len(s) /\ j \in i .. Len(s)
      /\ t \in Seq(Char) /\ Len(t) = j - i + 1
      /\ \A k \in 1 .. j - i + 1 : t[k] = s[i + k - 1]
  BY DEF Stretch, Text
<1>2. i \in Nat \ {0} /\ j \in Nat /\ i <= j /\ j <= Len(s)
  BY <1>1
<1>3. DOMAIN t = 1 .. j - i + 1
  BY <1>1
<1>4. ASSUME NEW m \in i .. j PROVE m - i + 1 \in 1 .. j - i + 1 /\ i + (m - i + 1) - 1 = m
  BY <1>2
<1>5. \A m \in i .. j : m - i + 1 \in 1 .. j - i + 1 /\ t[m - i + 1] = s[m]
  BY <1>1, <1>4
<1>6. \A k \in 1 .. j - i + 1 : i + k - 1 \in i .. j
  BY <1>2
<1>7. i \in i .. j /\ j \in i .. j /\ i - i + 1 = 1
  BY <1>2
<1>8. \A m \in i .. j : s[m] \in Char
  BY <1>1
<1>9. t[1] = s[i] /\ t[j - i + 1] = s[j]
  BY <1>5, <1>7
<1> QED BY <1>1, <1>2, <1>3, <1>5, <1>6, <1>8, <1>9

LEMMA RangeOfStretch ==
  ASSUME NEW t, NEW s, NEW i, NEW j, Stretch(t, s, i, j), NEW S
  PROVE  Range(t) \subseteq S <=> \A m \in i .. j : s[m] \in S
<1>1. /\ DOMAIN t = 1 .. j - i + 1
      /\ \A k \in 1 .. j - i + 1 : i + k - 1 \in i .. j /\ t[k] = s[i + k - 1]
      /\ \A m \in i .. j : m - i + 1 \in 1 .. j - i + 1 /\ t[m - i + 1] = s[m]
  BY StretchIndices
<1>2. ASSUME Range(t) \subseteq S, NEW m \in i .. j PROVE s[m] \in S
  BY <1>1, <1>2, Zenon DEF Range
<1>3. ASSUME \A m \in i .. j : s[m] \in S, NEW k \in 1 .. j - i + 1 PROVE t[k] \in S
  BY <1>1, <1>3, Zenon
<1> QED BY <1>1, <1>2, <1>3, Zenon DEF Range

LEMMA BeginsWithTwo ==
  ASSUME NEW t \in Seq(Char), NEW a, NEW b
  PROVE  IsPrefix(<<a, b>>, t) <=> 2 <= Len(t) /\ t[1] = a /\ t[2] = b
<1> DEFINE ab == <<a, b>>
<1>1. ab \in Seq({a, b}) /\ Len(ab) = 2 /\ ab[1] = a /\ ab[2] = b
  OBVIOUS
<1> HIDE DEF ab
<1>2. IsPrefix(ab, t) <=> 2 <= Len(t) /\ SubSeq(ab, 1, 2) = SubSeq(t, 1, 2)
  BY <1>1 DEF IsPrefix
<1>3. ASSUME NEW T, NEW u \in Seq(T), 2 <= Len(u)
      PROVE  SubSeq(u, 1, 2) \in Seq(T) /\ Len(SubSeq(u, 1, 2)) = 2
             /\ SubSeq(u, 1, 2)[1] = u[1] /\ SubSeq(u, 1, 2)[2] = u[2]
  <2>1. 1 \in 1 .. Len(u) + 1 /\ 2 \in 1 - 1 .. Len(u) /\ 2 - 1 + 1 = 2
        /\ 1 \in 1 .. 2 /\ 2 \in 1 .. 2 /\ 1 + 1 - 1 = 1 /\ 1 + 2 - 1 = 2
    BY <1>3
  <2>2. /\ SubSeq(u, 1, 2) \in Seq(T) /\ Len(SubSeq(u, 1, 2)) = 2 - 1 + 1
        /\ \A k \in 1 .. 2 - 1 + 1 : SubSeq(u, 1, 2)[k] = u[1 + k - 1]
    BY <2>1, StretchIs
  <2> HIDE DEF ab
  <2> QED BY <2>1, <2>2
<1>4. ASSUME 2 <= Len(t) PROVE SubSeq(ab, 1, 2) = SubSeq(t, 1, 2) <=> t[1] = a /\ t[2] = b
  <2>1. PICK u, v : u = SubSeq(ab, 1, 2) /\ v = SubSeq(t, 1, 2)
    OBVIOUS
  <2>2. u \in Seq({a, b}) /\ Len(u) = 2 /\ u[1] = a /\ u[2] = b
    BY <1>1, <1>3, <2>1
  <2>3. v \in Seq(Char) /\ Len(v) = 2 /\ v[1] = t[1] /\ v[2] = t[2]
    BY <1>3, <1>4, <2>1
  <2>4. ASSUME t[1] = a, t[2] = b PROVE u = v
    <3>1. \A k \in 1 .. Len(u) : u[k] = v[k]
      BY <2>2, <2>3, <2>4
    <3> QED BY <2>2, <2>3, <3>1, SeqEqual
  <2> QED BY <2>1, <2>2, <2>3, <2>4
<1> QED BY <1>2, <1>4 DEF ab

\* The characters that begin elements of different kinds are different.
LEMMA CharacterKinds ==
  ASSUME NEW c
  PROVE  /\ c \in Blank  => c \notin Letter \cup Digit \cup Symbol \cup {Quote, "-", "/"}
         /\ c \in Letter => c \notin Digit \cup Symbol \cup {Quote, "-", "/"}
         /\ c \in Digit  => c \notin Symbol \cup {Quote, "-", "/"}
         /\ c \in Symbol => c \notin {Quote, "-", "/"}
<1>1. c \in Blank => c \notin Letter \cup Digit
  BY SourceAssumption
<1>2. c \in Letter \cup Digit \cup Blank => c \notin Symbol \cup {Quote, "-", "/"}
  BY SourceAssumption
<1>3. c \in Letter => c \notin Digit
  BY SourceAssumption
<1>4. c \in Symbol => c \notin {Quote, "-", "/"}
  BY DEF Symbol, Quote
<1> QED BY <1>1, <1>2, <1>3, <1>4, Zenon

LEMMA SkippedAt ==
  ASSUME NEW t, NEW s, NEW i, NEW j, Stretch(t, s, i, j)
  PROVE  /\ IsBlank(t) <=> BlankAt(s, i, j)
         /\ IsLineComment(t) <=> LineCommentAt(s, i, j)
         /\ IsBlockComment(t) <=> BlockCommentAt(s, i, j)
<1>1. /\ i \in Nat \ {0} /\ j \in Nat /\ i <= j /\ t \in Seq(Char) /\ Len(t) = j - i + 1
      /\ t[1] = s[i] /\ \A k \in 1 .. j - i + 1 : i + k - 1 \in i .. j /\ t[k] = s[i + k - 1]
      /\ \A m \in i .. j : m - i + 1 \in 1 .. j - i + 1 /\ t[m - i + 1] = s[m]
  BY StretchIndices
<1>2. (Len(t) = 1 <=> j = i) /\ (2 <= Len(t) <=> i < j)
  BY <1>1, SMTT(20)
<1>3. i < j => t[2] = s[i + 1]
  <2>1. i < j => 2 \in 1 .. j - i + 1 /\ i + 2 - 1 = i + 1
    BY <1>1
  <2> QED BY <1>1, <2>1
<1>4. IsBlank(t) <=> BlankAt(s, i, j)
  BY <1>1, <1>2 DEF IsBlank, BlankAt
<1>5. IsLineComment(t) <=> LineCommentAt(s, i, j)
  <2>1. LF \notin Range(t) <=> \A m \in i .. j : s[m] # LF
    <3>1. Range(t) \subseteq Char \ {LF} <=> \A m \in i .. j : s[m] \in Char \ {LF}
      BY RangeOfStretch
    <3>2. Range(t) \subseteq Char
      BY <1>1 DEF Range
    <3>3. \A m \in i .. j : s[m] \in Char
      BY StretchIndices
    <3> QED BY <3>1, <3>2, <3>3, Zenon
  <2>2. IsPrefix(<<"-", "-">>, t) <=> i < j /\ s[i] = "-" /\ s[i + 1] = "-"
    BY <1>1, <1>2, <1>3, BeginsWithTwo
  <2> QED BY <2>1, <2>2, Zenon DEF IsLineComment, LineCommentAt
<1>6. IsBlockComment(t) <=> BlockCommentAt(s, i, j)
  <2> DEFINE A == {m \in 3 .. Len(t) - 1 : t[m] = "*" /\ t[m + 1] = "/"}
             B == {m \in i + 2 .. j - 1 : s[m] = "*" /\ s[m + 1] = "/"}
  <2>1. ASSUME NEW m \in 3 .. Len(t) - 1
        PROVE  /\ i + m - 1 \in i + 2 .. j - 1 /\ t[m] = s[i + m - 1]
               /\ t[m + 1] = s[(i + m - 1) + 1]
    <3>1. m \in 1 .. j - i + 1 /\ m + 1 \in 1 .. j - i + 1 /\ i + (m + 1) - 1 = (i + m - 1) + 1
          /\ i + m - 1 \in i + 2 .. j - 1
      BY <1>1
    <3> QED BY <1>1, <3>1
  <2>2. ASSUME NEW m \in i + 2 .. j - 1
        PROVE  /\ m - i + 1 \in 3 .. Len(t) - 1 /\ i + (m - i + 1) - 1 = m
    <3>1. i \in Nat /\ j \in Nat /\ Len(t) = j - i + 1
      BY <1>1
    <3> HIDE DEF A, B
    <3> QED BY <3>1
  <2>3. ASSUME NEW m \in 3 .. Len(t) - 1 PROVE m \in A <=> i + m - 1 \in B
    BY <2>1
  <2>4. A \subseteq 3 .. Len(t) - 1 /\ B \subseteq i + 2 .. j - 1
    OBVIOUS
  <2> HIDE DEF A, B
  <2>5. A = {Len(t) - 1} => B = {j - 1}
    <3> SUFFICES ASSUME A = {Len(t) - 1} PROVE B = {j - 1}
      OBVIOUS
    <3>1. Len(t) - 1 \in 3 .. Len(t) - 1 /\ i + (Len(t) - 1) - 1 = j - 1
      BY <1>1, <2>4
    <3>2. j - 1 \in B
      BY <2>3, <3>1
    <3>3. ASSUME NEW m \in B PROVE m = j - 1
      <4>1. m - i + 1 \in A
        BY <2>2, <2>3, <2>4, <3>3
      <4> QED BY <1>1, <2>4, <4>1
    <3> QED BY <3>2, <3>3
  <2>6. B = {j - 1} => A = {Len(t) - 1}
    <3> SUFFICES ASSUME B = {j - 1} PROVE A = {Len(t) - 1}
      OBVIOUS
    <3>1. (j - 1) - i + 1 = Len(t) - 1
      BY <1>1
    <3>2. Len(t) - 1 \in A
      BY <2>2, <2>3, <2>4, <3>1
    <3>3. ASSUME NEW m \in A PROVE m = Len(t) - 1
      <4>1. i + m - 1 \in B
        BY <2>3, <2>4, <3>3
      <4> QED BY <1>1, <2>4, <4>1, <3>3
    <3> QED BY <3>2, <3>3
  <2>7. IsPrefix(<<"/", "*">>, t) <=> i < j /\ s[i] = "/" /\ s[i + 1] = "*"
    BY <1>1, <1>2, <1>3, BeginsWithTwo
  <2> QED BY <2>5, <2>6, <2>7, Zenon DEF IsBlockComment, BlockCommentAt, A, B
<1> QED BY <1>4, <1>5, <1>6

LEMMA LexemesAt ==
  ASSUME NEW t, NEW s, NEW i, NEW j, Stretch(t, s, i, j)
  PROVE  /\ IsWord(t) <=> WordAt(s, i, j)
         /\ IsNumber(t) <=> NumberAt(s, i, j)
         /\ IsSymbol(t) <=> SymbolAt(s, i, j)
<1>1. /\ i \in Nat \ {0} /\ j \in Nat /\ i <= j /\ t \in Seq(Char) /\ Len(t) = j - i + 1
      /\ DOMAIN t = 1 .. j - i + 1
      /\ t[1] = s[i] /\ \A k \in 1 .. j - i + 1 : i + k - 1 \in i .. j /\ t[k] = s[i + k - 1]
      /\ \A m \in i .. j : m - i + 1 \in 1 .. j - i + 1 /\ t[m - i + 1] = s[m]
  BY StretchIndices
<1>2. (Len(t) = 1 <=> j = i) /\ t # <<>>
  BY <1>1
<1>3. IsWord(t) <=> WordAt(s, i, j)
  <2>1. Range(t) \subseteq Letter \cup Digit <=> \A m \in i .. j : s[m] \in Letter \cup Digit
    BY RangeOfStretch
  <2> QED BY <1>1, <1>2, <2>1, Zenon DEF IsWord, WordAt
<1>4. IsSymbol(t) <=> SymbolAt(s, i, j)
  BY <1>1, <1>2 DEF IsSymbol, SymbolAt
<1>5. CASE s[i] # "-"
  <2>1. IsNumber(t) <=> Range(t) \subseteq Digit
    BY <1>1, <1>2, <1>5 DEF IsNumber
  <2> QED BY <1>3, <1>4, <1>5, <2>1, RangeOfStretch DEF NumberAt
<1>6. CASE s[i] = "-"
  <2>1. PICK u : u = Tail(t)
    OBVIOUS
  <2>2. u \in Seq(Char) /\ Len(u) = j - i /\ DOMAIN u = 1 .. j - i
        /\ \A k \in 1 .. j - i : u[k] = t[k + 1]
    BY <1>1, <1>2, <2>1
  <2>3. IsNumber(t) <=> u # <<>> /\ Range(u) \subseteq Digit
    BY <1>1, <1>2, <1>6, <2>1 DEF IsNumber
  <2>4. u # <<>> <=> i < j
    BY <1>1, <2>2
  <2>5. ASSUME NEW m \in i + 1 .. j PROVE m - i \in 1 .. j - i /\ u[m - i] = s[m]
    <3>1. m - i \in 1 .. j - i /\ m \in i .. j /\ (m - i) + 1 = m - i + 1
      BY <1>1
    <3> QED BY <1>1, <2>2, <3>1
  <2>6. ASSUME NEW k \in 1 .. j - i PROVE i + k \in i + 1 .. j /\ u[k] = s[i + k]
    <3>1. i + k \in i + 1 .. j /\ (i + k) - i = k
      BY <1>1
    <3> QED BY <2>5, <3>1
  <2>7. Range(u) \subseteq Digit <=> \A m \in i + 1 .. j : s[m] \in Digit
    <3>1. Range(u) = {u[k] : k \in 1 .. j - i}
      BY <2>2 DEF Range
    <3>2. ASSUME Range(u) \subseteq Digit, NEW m \in i + 1 .. j PROVE s[m] \in Digit
      BY <2>5, <3>1, <3>2
    <3>3. ASSUME \A m \in i + 1 .. j : s[m] \in Digit PROVE Range(u) \subseteq Digit
      BY <2>6, <3>1, <3>3
    <3> QED BY <3>2, <3>3
  <2> QED BY <1>3, <1>4, <1>6, <2>3, <2>4, <2>7 DEF NumberAt
<1> QED BY <1>5, <1>6

\* The quotes of a literal that begins at i, and whether their number is odd.
QuotesIn(s, i, k) == {m \in i + 1 .. k : s[m] = Quote}
Parity(s, i, k)   == Cardinality(QuotesIn(s, i, k)) % 2

\* Up to p every quote of a literal that begins at i is one of a pair.
Clear(s, i, p) ==
  /\ Parity(s, i, p - 1) = 0
  /\ \A m \in i + 1 .. p - 1 : s[m] = Quote /\ Parity(s, i, m) = 1 => m + 1 < p /\ s[m + 1] = Quote

StringAt(s, i, j) == i < j /\ s[i] = Quote /\ s[j] = Quote /\ Clear(s, i, j)
Closes(s, i, j)   == StringAt(s, i, j) /\ ~(j < Len(s) /\ s[j + 1] = Quote)

LEMMA QuotesOneMore ==
  ASSUME NEW s, NEW i \in Nat, NEW k \in Nat, i <= k
  PROVE  /\ QuotesIn(s, i, i) = {} /\ Cardinality(QuotesIn(s, i, i)) = 0
         /\ IsFiniteSet(QuotesIn(s, i, k)) /\ Cardinality(QuotesIn(s, i, k)) \in Nat
         /\ Cardinality(QuotesIn(s, i, k + 1))
              = Cardinality(QuotesIn(s, i, k)) + (IF s[k + 1] = Quote THEN 1 ELSE 0)
<1>1. QuotesIn(s, i, i) = {} /\ Cardinality(QuotesIn(s, i, i)) = 0
  <2>1. QuotesIn(s, i, i) = {}
    BY DEF QuotesIn
  <2> QED BY <2>1, FS_EmptySet
<1>2. IsFiniteSet(QuotesIn(s, i, k))
  <2>1. IsFiniteSet(i + 1 .. k)
    BY FS_Interval
  <2> QED BY <2>1, FS_Subset DEF QuotesIn
<1>3. Cardinality(QuotesIn(s, i, k)) \in Nat
  BY <1>2, FS_CardinalityType
<1>4. CASE s[k + 1] = Quote
  <2>1. QuotesIn(s, i, k + 1) = QuotesIn(s, i, k) \cup {k + 1} /\ k + 1 \notin QuotesIn(s, i, k)
    BY <1>4 DEF QuotesIn
  <2> QED BY <1>1, <1>2, <1>3, <1>4, <2>1, FS_AddElement
<1>5. CASE s[k + 1] # Quote
  <2>1. QuotesIn(s, i, k + 1) = QuotesIn(s, i, k)
    BY <1>5 DEF QuotesIn
  <2> QED BY <1>1, <1>2, <1>3, <1>5, <2>1
<1> QED BY <1>4, <1>5

LEMMA ParityNext ==
  ASSUME NEW s, NEW i \in Nat, NEW k \in Nat, i <= k
  PROVE  /\ Parity(s, i, i) = 0 /\ Parity(s, i, k) \in {0, 1}
         /\ s[k + 1] = Quote => Parity(s, i, k + 1) = 1 - Parity(s, i, k)
         /\ s[k + 1] # Quote => Parity(s, i, k + 1) = Parity(s, i, k)
<1>1. PICK c \in Nat : c = Cardinality(QuotesIn(s, i, k))
  BY QuotesOneMore
<1>2. Cardinality(QuotesIn(s, i, k + 1)) = c + (IF s[k + 1] = Quote THEN 1 ELSE 0)
      /\ Cardinality(QuotesIn(s, i, i)) = 0
  BY <1>1, QuotesOneMore
<1>3. c % 2 \in {0, 1} /\ (c + 1) % 2 = 1 - (c % 2) /\ (c + 0) % 2 = c % 2 /\ 0 % 2 = 0
  OBVIOUS
<1> QED BY <1>1, <1>2, <1>3 DEF Parity

\* The quotes of a literal are counted alike in the literal and in the text.
LEMMA QuotesCounted ==
  ASSUME NEW t, NEW s, NEW i, NEW j, Stretch(t, s, i, j), NEW n \in 1 .. j - i
  PROVE  Cardinality({k \in Quotes(t) : k <= n}) = Cardinality(QuotesIn(s, i, i + n - 1))
<1> DEFINE A(m) == {k \in Quotes(t) : k <= m}
           G == {m \in Nat : m + 1 <= j - i =>
                   /\ IsFiniteSet(A(m + 1))
                   /\ Cardinality(A(m + 1)) = Cardinality(QuotesIn(s, i, i + m))}
<1>0. /\ i \in Nat \ {0} /\ j \in Nat /\ i <= j /\ Len(t) = j - i + 1
      /\ \A k \in 1 .. j - i + 1 : t[k] = s[i + k - 1]
  BY StretchIndices
<1>1. Quotes(t) = {k \in 2 .. j - i : t[k] = Quote}
  BY <1>0 DEF Quotes
<1>2. 0 \in G
  <2>1. A(0 + 1) = {}
    BY <1>1
  <2>2. i + 0 = i
    BY <1>0
  <2> QED BY <1>0, <2>1, <2>2, FS_EmptySet, QuotesOneMore
<1>3. ASSUME NEW m \in Nat, m \in G PROVE m + 1 \in G
  <2> SUFFICES ASSUME (m + 1) + 1 <= j - i
               PROVE  /\ IsFiniteSet(A((m + 1) + 1))
                      /\ Cardinality(A((m + 1) + 1)) = Cardinality(QuotesIn(s, i, i + (m + 1)))
    OBVIOUS
  <2>1. IsFiniteSet(A(m + 1)) /\ Cardinality(A(m + 1)) = Cardinality(QuotesIn(s, i, i + m))
    <3>1. m + 1 <= j - i
      BY <1>0
    <3> QED BY <1>3, <3>1
  <2>2. /\ i + m \in Nat /\ i <= i + m /\ i + (m + 1) = (i + m) + 1
        /\ m + 2 \in 2 .. j - i /\ m + 2 \in 1 .. j - i + 1 /\ (m + 1) + 1 = m + 2
        /\ i + (m + 2) - 1 = (i + m) + 1
    <3> HIDE DEF G, A
    <3> QED BY <1>0
  <2>3. t[m + 2] = s[(i + m) + 1]
    BY <1>0, <2>2
  <2>4. Cardinality(QuotesIn(s, i, (i + m) + 1))
          = Cardinality(QuotesIn(s, i, i + m)) + (IF s[(i + m) + 1] = Quote THEN 1 ELSE 0)
        /\ Cardinality(QuotesIn(s, i, i + m)) \in Nat
    BY <1>0, <2>2, QuotesOneMore
  <2>5. CASE t[m + 2] = Quote
    <3>1. A(m + 2) = A(m + 1) \cup {m + 2} /\ m + 2 \notin A(m + 1)
      BY <1>1, <2>2, <2>5
    <3>2. IsFiniteSet(A(m + 2)) /\ Cardinality(A(m + 2)) = Cardinality(A(m + 1)) + 1
      <4> HIDE DEF A
      <4> QED BY <2>1, <3>1, FS_AddElement
    <3> HIDE DEF A
    <3> QED BY <2>1, <2>2, <2>3, <2>4, <2>5, <3>2
  <2>6. CASE t[m + 2] # Quote
    <3>1. A(m + 2) = A(m + 1)
      BY <1>1, <2>2, <2>6
    <3> HIDE DEF A
    <3> QED BY <2>1, <2>2, <2>3, <2>4, <2>6, <3>1
  <2> QED BY <2>5, <2>6
<1> HIDE DEF A
<1>4. Nat \subseteq G
  <2> HIDE DEF G
  <2> QED BY <1>2, <1>3, SetInduction
<1>5. /\ n - 1 \in Nat /\ (n - 1) + 1 = n /\ n <= j - i /\ i + (n - 1) = i + n - 1
  BY <1>0
<1>6. Cardinality(A(n)) = Cardinality(QuotesIn(s, i, i + n - 1))
  BY <1>4, <1>5
<1> QED BY <1>6 DEF A

LEMMA StringsAt ==
  ASSUME NEW t, NEW s, NEW i, NEW j, Stretch(t, s, i, j)
  PROVE  IsString(t) <=> StringAt(s, i, j)
<1>1. /\ i \in Nat \ {0} /\ j \in Nat /\ i <= j /\ Len(t) = j - i + 1
      /\ t[1] = s[i] /\ t[j - i + 1] = s[j]
      /\ \A k \in 1 .. j - i + 1 : i + k - 1 \in i .. j /\ t[k] = s[i + k - 1]
  BY StretchIndices
<1>2. CASE i = j
  BY <1>1, <1>2 DEF IsString, StringAt
<1>3. CASE i # j
  <2>1. i < j /\ 2 <= Len(t) /\ j - i \in 1 .. j - i /\ i + (j - i) - 1 = j - 1
    BY <1>1, <1>3
  <2>2. Quotes(t) = {k \in 2 .. j - i : t[k] = Quote}
    BY <1>1 DEF Quotes
  <2>3. Cardinality(Quotes(t)) % 2 = Parity(s, i, j - 1)
    <3>1. Quotes(t) = {k \in Quotes(t) : k <= j - i}
      BY <1>1, <2>2
    <3>2. Cardinality({k \in Quotes(t) : k <= j - i}) = Cardinality(QuotesIn(s, i, j - 1))
      BY <2>1, QuotesCounted
    <3> QED BY <3>1, <3>2 DEF Parity
  <2>4. ASSUME NEW k \in 2 .. j - i
        PROVE  /\ i + k - 1 \in i + 1 .. j - 1
               /\ k \in Quotes(t) <=> s[i + k - 1] = Quote
               /\ Odd(t, k) <=> Parity(s, i, i + k - 1) = 1
               /\ k + 1 \in Quotes(t) <=> (i + k - 1) + 1 < j /\ s[(i + k - 1) + 1] = Quote
    <3>1. k \in 1 .. j - i /\ k \in 1 .. j - i + 1 /\ i + k - 1 \in i + 1 .. j - 1
      BY <1>1
    <3>2. Odd(t, k) <=> Parity(s, i, i + k - 1) = 1
      BY <3>1, QuotesCounted DEF Odd, Parity
    <3>3. k + 1 \in 2 .. j - i <=> (i + k - 1) + 1 < j
      BY <1>1
    <3>4. k + 1 \in 2 .. j - i => t[k + 1] = s[(i + k - 1) + 1]
      <4>1. k + 1 \in 2 .. j - i => k + 1 \in 1 .. j - i + 1 /\ i + (k + 1) - 1 = (i + k - 1) + 1
        BY <1>1
      <4> QED BY <1>1, <4>1
    <3>5. k + 1 \in Quotes(t) <=> k + 1 \in 2 .. j - i /\ t[k + 1] = Quote
      BY <2>2, Zenon
    <3>6. k \in Quotes(t) <=> s[i + k - 1] = Quote
      BY <1>1, <2>2, <3>1
    <3> QED BY <3>1, <3>2, <3>3, <3>4, <3>5, <3>6, Zenon
  <2>5. ASSUME NEW m \in i + 1 .. j - 1
        PROVE  m - i + 1 \in 2 .. j - i /\ i + (m - i + 1) - 1 = m
    BY <1>1
  <2>6. (\A k \in Quotes(t) : Odd(t, k) => k + 1 \in Quotes(t))
          <=> \A m \in i + 1 .. j - 1 :
                s[m] = Quote /\ Parity(s, i, m) = 1 => m + 1 < j /\ s[m + 1] = Quote
    <3>1. ASSUME \A k \in Quotes(t) : Odd(t, k) => k + 1 \in Quotes(t),
                 NEW m \in i + 1 .. j - 1, s[m] = Quote, Parity(s, i, m) = 1
          PROVE  m + 1 < j /\ s[m + 1] = Quote
      <4>1. PICK k \in 2 .. j - i : i + k - 1 = m
        BY <2>5
      <4> QED BY <2>4, <3>1, <4>1
    <3>2. ASSUME \A m \in i + 1 .. j - 1 :
                   s[m] = Quote /\ Parity(s, i, m) = 1 => m + 1 < j /\ s[m + 1] = Quote,
                 NEW k \in Quotes(t), Odd(t, k)
          PROVE  k + 1 \in Quotes(t)
      <4>1. k \in 2 .. j - i
        BY <2>2
      <4> QED BY <2>4, <3>2, <4>1
    <3> QED BY <3>1, <3>2
  <2>7. t[1] = Quote /\ t[Len(t)] = Quote <=> s[i] = Quote /\ s[j] = Quote
    BY <1>1
  <2> QED BY <2>1, <2>3, <2>6, <2>7, Zenon DEF IsString, StringAt, Clear
<1> QED BY <1>2, <1>3

\* Pair by pair, a literal goes on; a quote that is alone closes it.
LEMMA ClearNext ==
  ASSUME NEW s \in Text, NEW i \in 1 .. Len(s), s[i] = Quote, NEW p \in i + 1 .. Len(s) + 1,
         Clear(s, i, p)
  PROVE  /\ p <= Len(s) /\ s[p] # Quote => Clear(s, i, p + 1) /\ ~Closes(s, i, p)
         /\ p < Len(s) /\ s[p] = Quote /\ s[p + 1] = Quote
              => /\ Clear(s, i, p + 2) /\ ~Closes(s, i, p) /\ ~Closes(s, i, p + 1)
                 /\ Parity(s, i, p) = 1 /\ Parity(s, i, p + 1) = 0
         /\ p <= Len(s) /\ s[p] = Quote /\ ~(p < Len(s) /\ s[p + 1] = Quote)
              => Closes(s, i, p) /\ \A j \in p + 1 .. Len(s) : ~Closes(s, i, j)
<1>1. /\ Len(s) \in Nat /\ i \in Nat \ {0} /\ p \in Nat /\ i < p /\ p <= Len(s) + 1
      /\ p - 1 \in Nat /\ i <= p - 1 /\ (p - 1) + 1 = p /\ i <= p /\ i \in Nat /\ i < p + 1
  BY DEF Text
<1>2. /\ Parity(s, i, p - 1) = 0
      /\ s[p] = Quote => Parity(s, i, p) = 1
      /\ s[p] # Quote => Parity(s, i, p) = 0
  <2>1. Parity(s, i, p - 1) = 0
    BY DEF Clear
  <2>2. /\ s[(p - 1) + 1] = Quote => Parity(s, i, (p - 1) + 1) = 1 - Parity(s, i, p - 1)
        /\ s[(p - 1) + 1] # Quote => Parity(s, i, (p - 1) + 1) = Parity(s, i, p - 1)
    BY <1>1, ParityNext
  <2> QED BY <1>1, <2>1, <2>2
<1>3. \A m \in i + 1 .. p - 1 : s[m] = Quote /\ Parity(s, i, m) = 1 => m + 1 < p /\ s[m + 1] = Quote
  BY DEF Clear
<1>4. ASSUME p <= Len(s), s[p] # Quote PROVE Clear(s, i, p + 1) /\ ~Closes(s, i, p)
  <2>1. \A m \in i + 1 .. (p + 1) - 1 : m = p \/ (m \in i + 1 .. p - 1 /\ (m + 1 < p => m + 1 < p + 1))
    BY <1>1
  <2>2. (p + 1) - 1 = p
    BY <1>1
  <2> QED BY <1>2, <1>3, <1>4, <2>1, <2>2, Zenon DEF Clear, Closes, StringAt
<1>5. ASSUME p < Len(s), s[p] = Quote, s[p + 1] = Quote
      PROVE  /\ Clear(s, i, p + 2) /\ ~Closes(s, i, p) /\ ~Closes(s, i, p + 1)
             /\ Parity(s, i, p) = 1 /\ Parity(s, i, p + 1) = 0
  <2>1. Parity(s, i, p) = 1 /\ Parity(s, i, p + 1) = 0
    <3>1. Parity(s, i, p) = 1
      BY <1>2, <1>5
    <3>2. Parity(s, i, p + 1) = 1 - Parity(s, i, p)
      BY <1>1, <1>5, ParityNext, Zenon
    <3> QED BY <3>1, <3>2
  <2>2. /\ \A m \in i + 1 .. (p + 2) - 1 : m \in i + 1 .. p - 1 \/ m = p \/ m = p + 1
        /\ \A m \in Nat : m + 1 < p => m + 1 < p + 2
        /\ (p + 2) - 1 = p + 1 /\ p + 1 < p + 2 /\ (p + 1) - 1 = p
    BY <1>1
  <2>3. Clear(s, i, p + 2)
    <3> SUFFICES ASSUME NEW m \in i + 1 .. (p + 2) - 1, s[m] = Quote, Parity(s, i, m) = 1
                 PROVE  m + 1 < p + 2 /\ s[m + 1] = Quote
      BY <2>1, <2>2, Zenon DEF Clear
    <3>1. CASE m \in i + 1 .. p - 1
      <4>1. m \in Nat
        BY <1>1, <3>1
      <4> QED BY <1>3, <2>2, <3>1, <4>1
    <3>2. CASE m = p
      BY <1>5, <2>2, <3>2
    <3>3. CASE m = p + 1
      BY <2>1, <3>3
    <3> QED BY <2>2, <3>1, <3>2, <3>3
  <2>4. ~Closes(s, i, p)
    BY <1>5 DEF Closes
  <2>5. ~Closes(s, i, p + 1)
    BY <2>1, <2>2 DEF Closes, StringAt, Clear
  <2> QED BY <2>1, <2>3, <2>4, <2>5
<1>6. ASSUME p <= Len(s), s[p] = Quote, ~(p < Len(s) /\ s[p + 1] = Quote)
      PROVE  Closes(s, i, p) /\ \A j \in p + 1 .. Len(s) : ~Closes(s, i, j)
  <2>1. Closes(s, i, p)
    BY <1>1, <1>6 DEF Closes, StringAt
  <2>2. ASSUME NEW j \in p + 1 .. Len(s), Closes(s, i, j) PROVE FALSE
    <3>1. p \in i + 1 .. j - 1 /\ p < Len(s)
      BY <1>1
    <3>2. s[p + 1] = Quote
      BY <1>2, <1>6, <2>2, <3>1 DEF Closes, StringAt, Clear
    <3> QED BY <1>6, <3>1, <3>2
  <2> QED BY <2>1, <2>2
<1> QED BY <1>4, <1>5, <1>6

\* One step of the scan of read_string_token.
LEMMA StringFromNext ==
  ASSUME source \in Text, NEW p \in 1 .. Len(source) + 1
  PROVE  /\ p > Len(source) => StringFrom[p].close = 0
         /\ p <= Len(source) /\ source[p] # Quote
              => /\ p + 1 \in 1 .. Len(source) + 1
                 /\ StringFrom[p].close = StringFrom[p + 1].close
                 /\ StringFrom[p].value = <<source[p]>> \o StringFrom[p + 1].value
         /\ p < Len(source) /\ source[p] = Quote /\ source[p + 1] = Quote
              => /\ p + 2 \in 1 .. Len(source) + 1
                 /\ StringFrom[p].close = StringFrom[p + 2].close
                 /\ StringFrom[p].value = <<Quote>> \o StringFrom[p + 2].value
         /\ p <= Len(source) /\ source[p] = Quote /\ ~(p < Len(source) /\ source[p + 1] = Quote)
              => StringFrom[p].close = p /\ StringFrom[p].value = <<>>
<1>1. Len(source) \in Nat /\ DOMAIN source = 1 .. Len(source) /\ \A k \in 1 .. Len(source) : source[k] \in Char
  BY DEF Text
<1>2. /\ p > Len(source) => At(p) = NUL
      /\ p <= Len(source) => At(p) = source[p] /\ At(p) # NUL
  BY <1>1, SourceAssumption DEF At
<1>3. /\ p < Len(source) => At(p + 1) = source[p + 1]
      /\ ~(p < Len(source)) => At(p + 1) # Quote
  BY <1>1, SourceAssumption DEF At
<1>4. ASSUME NEW A, NEW B, NEW r \in [close : A, value : B], NEW v
      PROVE  [r EXCEPT !.value = v].close = r.close /\ [r EXCEPT !.value = v].value = v
  OBVIOUS
<1>5. PICK S : S = StringFrom
  OBVIOUS
<1>6. S[p] = IF At(p) = NUL THEN [close |-> 0, value |-> <<>>]
             ELSE IF At(p) = Quote /\ At(p + 1) = Quote
                  THEN [S[p + 2] EXCEPT !.value = <<Quote>> \o @]
             ELSE IF At(p) = Quote THEN [close |-> p, value |-> <<>>]
             ELSE [S[p + 1] EXCEPT !.value = <<At(p)>> \o @]
  BY <1>5, StringFromIs
<1>7. \A q \in 1 .. Len(source) + 1 : S[q] \in [close : {0} \cup q .. Len(source), value : Text]
  BY <1>5, StringFromType
<1>8. ASSUME p > Len(source) PROVE S[p].close = 0
  BY <1>2, <1>6, <1>8
<1>9. ASSUME p <= Len(source), source[p] # Quote
      PROVE  /\ p + 1 \in 1 .. Len(source) + 1
             /\ S[p].close = S[p + 1].close /\ S[p].value = <<source[p]>> \o S[p + 1].value
  <2>1. p + 1 \in 1 .. Len(source) + 1
    BY <1>1, <1>9
  <2>2. S[p] = [S[p + 1] EXCEPT !.value = <<source[p]>> \o S[p + 1].value]
    BY <1>2, <1>6, <1>9, Zenon
  <2>3. PICK r, v : r = S[p + 1] /\ v = <<source[p]>> \o S[p + 1].value
    OBVIOUS
  <2>4. r \in [close : {0} \cup p + 1 .. Len(source), value : Text]
    BY <1>7, <2>1, <2>3, Zenon
  <2>5. S[p] = [r EXCEPT !.value = v]
    BY <2>2, <2>3, Zenon
  <2>6. S[p].close = r.close /\ S[p].value = v
    BY <1>4, <2>4, <2>5
  <2> QED BY <2>1, <2>3, <2>6, Zenon
<1>10. ASSUME p < Len(source), source[p] = Quote, source[p + 1] = Quote
       PROVE  /\ p + 2 \in 1 .. Len(source) + 1
              /\ S[p].close = S[p + 2].close /\ S[p].value = <<Quote>> \o S[p + 2].value
  <2>1. p + 2 \in 1 .. Len(source) + 1 /\ p <= Len(source)
    BY <1>1, <1>10
  <2>2. S[p] = [S[p + 2] EXCEPT !.value = <<Quote>> \o S[p + 2].value]
    BY <1>2, <1>3, <1>6, <1>10, <2>1, Zenon
  <2>3. PICK r, v : r = S[p + 2] /\ v = <<Quote>> \o S[p + 2].value
    OBVIOUS
  <2>4. r \in [close : {0} \cup p + 2 .. Len(source), value : Text]
    BY <1>7, <2>1, <2>3, Zenon
  <2>5. S[p] = [r EXCEPT !.value = v]
    BY <2>2, <2>3, Zenon
  <2>6. S[p].close = r.close /\ S[p].value = v
    BY <1>4, <2>4, <2>5
  <2> QED BY <2>1, <2>3, <2>6, Zenon
<1>11. ASSUME p <= Len(source), source[p] = Quote, ~(p < Len(source) /\ source[p + 1] = Quote)
       PROVE  S[p].close = p /\ S[p].value = <<>>
  <2>1. At(p + 1) # Quote /\ At(p) = Quote /\ At(p) # NUL
    BY <1>2, <1>3, <1>11
  <2>2. S[p] = [close |-> p, value |-> <<>>]
    BY <1>6, <2>1, Zenon
  <2> QED BY <2>2
<1> QED BY <1>5, <1>8, <1>9, <1>10, <1>11

\* read_string_token closes a literal where one is closed, and nowhere if none is.
LEMMA LiteralEnds ==
  ASSUME source \in Text, NEW i \in 1 .. Len(source), source[i] = Quote,
         NEW p \in i + 1 .. Len(source) + 1, Clear(source, i, p)
  PROVE  \A j \in p .. Len(source) : Closes(source, i, j) <=> StringFrom[p].close = j
<1> DEFINE N == Len(source)
           Claim(q) == \A j \in q .. N : Closes(source, i, j) <=> StringFrom[q].close = j
           H == {n \in Nat : \A q \in i + 1 .. N + 1 :
                               q + n >= N + 1 /\ Clear(source, i, q) => Claim(q)}
<1>0. N \in Nat /\ i \in Nat \ {0} /\ p \in Nat
  BY DEF Text
<1> HIDE DEF N
<1>1. 0 \in H
  <2> SUFFICES ASSUME NEW q \in i + 1 .. N + 1, q + 0 >= N + 1, NEW j \in q .. N PROVE FALSE
    OBVIOUS
  <2> QED BY <1>0
<1> HIDE DEF Claim
<1>2. ASSUME NEW n \in Nat, n \in H PROVE n + 1 \in H
  <2> SUFFICES ASSUME NEW q \in i + 1 .. N + 1, q + (n + 1) >= N + 1, Clear(source, i, q)
               PROVE  Claim(q)
    OBVIOUS
  <2>1. q \in Nat /\ q \in 1 .. N + 1
    BY <1>0
  <2>2. ASSUME NEW r \in q + 1 .. N + 1, Clear(source, i, r) PROVE Claim(r)
    <3>1. r \in i + 1 .. N + 1 /\ r + n >= N + 1
      BY <1>0, <2>1
    <3> QED BY <1>2, <2>2, <3>1
  <2> HIDE DEF H
  <2>3. /\ q <= N /\ source[q] # Quote => Clear(source, i, q + 1) /\ ~Closes(source, i, q)
        /\ q < N /\ source[q] = Quote /\ source[q + 1] = Quote
             => Clear(source, i, q + 2) /\ ~Closes(source, i, q) /\ ~Closes(source, i, q + 1)
        /\ q <= N /\ source[q] = Quote /\ ~(q < N /\ source[q + 1] = Quote)
             => Closes(source, i, q) /\ \A j \in q + 1 .. N : ~Closes(source, i, j)
    BY ClearNext DEF N
  <2>4. CASE q = N + 1
    BY <1>0, <2>4 DEF Claim
  <2>5. CASE q <= N /\ source[q] # Quote
    <3>1. q + 1 \in q + 1 .. N + 1 /\ StringFrom[q].close = StringFrom[q + 1].close
      <4>1. q + 1 \in q + 1 .. N + 1
        BY <1>0, <2>1, <2>5
      <4>2. StringFrom[q].close = StringFrom[q + 1].close
        BY <2>1, <2>5, StringFromNext, Zenon DEF N
      <4> QED BY <4>1, <4>2
    <3>2. Claim(q + 1) /\ ~Closes(source, i, q)
      BY <2>2, <2>3, <2>5, <3>1
    <3>3. StringFrom[q + 1].close # q
      <4>1. q + 1 \in 1 .. N + 1
        BY <1>0, <2>1, <2>5
      <4>2. StringFrom[q + 1].close \in {0} \cup q + 1 .. N
        BY <4>1, StringFromType DEF N
      <4> QED BY <1>0, <2>1, <4>2
    <3>4. \A j \in q .. N : j = q \/ j \in q + 1 .. N
      BY <1>0, <2>1
    <3> QED BY <3>1, <3>2, <3>3, <3>4, Zenon DEF Claim
  <2>6. CASE q < N /\ source[q] = Quote /\ source[q + 1] = Quote
    <3>1. q + 2 \in q + 1 .. N + 1 /\ StringFrom[q].close = StringFrom[q + 2].close
      BY <1>0, <2>1, <2>6, StringFromNext DEF N
    <3>2. Claim(q + 2) /\ ~Closes(source, i, q) /\ ~Closes(source, i, q + 1)
      BY <2>2, <2>3, <2>6, <3>1
    <3>3. StringFrom[q + 2].close # q /\ StringFrom[q + 2].close # q + 1
      <4>1. q + 2 \in 1 .. N + 1
        BY <1>0, <2>1, <2>6
      <4>2. StringFrom[q + 2].close \in {0} \cup q + 2 .. N
        BY <4>1, StringFromType DEF N
      <4> QED BY <1>0, <2>1, <4>2, SMTT(20)
    <3>4. \A j \in q .. N : j = q \/ j = q + 1 \/ j \in q + 2 .. N
      BY <1>0, <2>1
    <3> QED BY <3>1, <3>2, <3>3, <3>4, Zenon DEF Claim
  <2>7. CASE q <= N /\ source[q] = Quote /\ ~(q < N /\ source[q + 1] = Quote)
    <3>1. StringFrom[q].close = q
      BY <2>1, <2>7, StringFromNext DEF N
    <3>2. \A j \in q .. N : j = q \/ (j \in q + 1 .. N /\ j # q)
      BY <1>0, <2>1
    <3> QED BY <2>3, <2>7, <3>1, <3>2, Zenon DEF Claim
  <2> QED BY <1>0, <2>1, <2>4, <2>5, <2>6, <2>7
<1>3. Nat \subseteq H
  <2> HIDE DEF H
  <2> QED BY <1>1, <1>2, SetInduction
<1>4. N + 1 \in Nat /\ p + (N + 1) >= N + 1 /\ p \in i + 1 .. N + 1
  BY <1>0 DEF N
<1>5. Claim(p)
  BY <1>3, <1>4
<1> QED BY <1>5 DEF Claim, N

\* The value of a literal from its p-th character on.
KeptPlaces(t, p) == {k \in p .. Len(t) - 1 : t[k] = Quote => Odd(t, k)}
KeptFrom(t, p) ==
  LET kept == InOrder(KeptPlaces(t, p), Len(t)) IN [k \in DOMAIN kept |-> t[kept[k]]]

LEMMA KeptNext ==
  ASSUME NEW t \in Text, NEW p \in Nat \ {0}
  PROVE  /\ p >= Len(t) => KeptFrom(t, p) = <<>>
         /\ p < Len(t) /\ (t[p] = Quote => Odd(t, p)) => KeptFrom(t, p) = <<t[p]>> \o KeptFrom(t, p + 1)
         /\ p < Len(t) /\ ~(t[p] = Quote => Odd(t, p)) => KeptFrom(t, p) = KeptFrom(t, p + 1)
<1> DEFINE n == Len(t)
           A == KeptPlaces(t, p)
           B == KeptPlaces(t, p + 1)
<1>1. n \in Nat /\ \A k \in 1 .. n : t[k] \in Char
  BY DEF Text
<1>2. ASSUME p >= n PROVE KeptFrom(t, p) = <<>>
  <2>1. A = {}
    BY <1>1, <1>2 DEF KeptPlaces
  <2> HIDE DEF A
  <2>2. InOrder(A, n) = <<>>
    BY <1>1, <2>1, InOrderNone
  <2> HIDE DEF n
  <2> QED BY <2>2 DEF KeptFrom, A, n
<1>3. ASSUME p < n, ~(t[p] = Quote => Odd(t, p)) PROVE KeptFrom(t, p) = KeptFrom(t, p + 1)
  <2>1. A = B
    BY <1>1, <1>3 DEF KeptPlaces
  <2> HIDE DEF A, B
  <2> QED BY <2>1 DEF KeptFrom, A, B
<1>4. ASSUME p < n, t[p] = Quote => Odd(t, p) PROVE KeptFrom(t, p) = <<t[p]>> \o KeptFrom(t, p + 1)
  <2>1. p \in A /\ A \ {p} = B /\ A \cap 1 .. p - 1 = {} /\ p \in 1 .. n
        /\ A \subseteq 1 .. n /\ B \subseteq 1 .. n
    BY <1>1, <1>4 DEF KeptPlaces
  <2> HIDE DEF n, A, B
  <2>2. PICK e, f : e = InOrder(A, n) /\ f = InOrder(B, n)
    OBVIOUS
  <2>3. e = <<p>> \o f
    BY <1>1, <2>1, <2>2, InOrderCons
  <2>4. f \in Seq(1 .. n)
    <3>1. f \in Seq(B \cap 1 .. n)
      BY <1>1, <2>2, InOrderType
    <3>2. B \cap 1 .. n = B
      BY <2>1
    <3> QED BY <2>1, <3>1, <3>2, SeqSubset
  <2>5. /\ Len(f) \in Nat /\ DOMAIN f = 1 .. Len(f) /\ \A k \in 1 .. Len(f) : f[k] \in 1 .. n
        /\ e \in Seq(1 .. n) /\ Len(e) = Len(f) + 1 /\ DOMAIN e = 1 .. Len(f) + 1 /\ e[1] = p
        /\ \A k \in 1 .. Len(f) + 1 : e[k] \in 1 .. n
        /\ \A k \in 1 .. Len(f) : e[1 + k] = f[k]
    <3>1. PICK L, pp : L = 1 .. n /\ pp = <<p>>
      OBVIOUS
    <3>2. f \in Seq(L) /\ pp \in Seq(L) /\ Len(pp) = 1 /\ pp[1] = p
      BY <2>1, <2>4, <3>1
    <3>3. /\ Len(f) \in Nat /\ DOMAIN f = 1 .. Len(f) /\ \A k \in 1 .. Len(f) : f[k] \in L
      BY <3>2
    <3>4. /\ e \in Seq(L) /\ Len(e) = Len(pp) + Len(f) /\ \A k \in 1 .. Len(pp) : e[k] = pp[k]
          /\ \A k \in 1 .. Len(f) : e[Len(pp) + k] = f[k]
      BY <2>3, <3>1, <3>2, ConcatIs
    <3>5. Len(e) = Len(f) + 1 /\ DOMAIN e = 1 .. Len(e) /\ \A k \in 1 .. Len(e) : e[k] \in L
      BY <3>2, <3>3, <3>4
    <3> QED BY <3>1, <3>2, <3>3, <3>4, <3>5
  <2>6. PICK x, y : /\ x = [k \in 1 .. Len(f) + 1 |-> t[e[k]]] /\ y = [k \in 1 .. Len(f) |-> t[f[k]]]
    OBVIOUS
  <2>7. x = KeptFrom(t, p) /\ y = KeptFrom(t, p + 1)
    BY <2>2, <2>5, <2>6 DEF KeptFrom, n, A, B
  <2>8. y \in Seq(Char) /\ Len(y) = Len(f) /\ \A k \in 1 .. Len(f) : y[k] = t[f[k]]
    <3>1. y = [k \in 1 .. Len(f) |-> y[k]] /\ \A k \in 1 .. Len(f) : y[k] \in Char /\ y[k] = t[f[k]]
      BY <1>1, <2>5, <2>6
    <3> QED BY <2>5, <3>1, IsSequence
  <2>9. x \in Seq(Char) /\ Len(x) = Len(f) + 1 /\ \A k \in 1 .. Len(f) + 1 : x[k] = t[e[k]]
    <3>1. PICK m \in Nat : m = Len(f) + 1
      BY <2>5
    <3>2. \A k \in 1 .. m : e[k] \in 1 .. n
      BY <2>5, <3>1, Zenon
    <3>3. x = [k \in 1 .. m |-> x[k]] /\ \A k \in 1 .. m : x[k] \in Char /\ x[k] = t[e[k]]
      BY <1>1, <2>6, <3>1, <3>2
    <3>4. x \in Seq(Char) /\ Len(x) = m
      BY <3>3, IsSequence
    <3> QED BY <3>1, <3>3, <3>4
  <2>10. PICK z : z = <<t[p]>> \o y
    OBVIOUS
  <2>11. t[p] \in Char
    BY <1>1, <2>1
  <2>12. z \in Seq(Char) /\ Len(z) = Len(f) + 1 /\ z[1] = t[p]
         /\ \A k \in 1 .. Len(f) : z[1 + k] = y[k]
    BY <2>8, <2>10, <2>11
  <2>13. ASSUME NEW k \in 1 .. Len(f) + 1 PROVE x[k] = z[k]
    <3>1. CASE k = 1
      BY <2>5, <2>9, <2>12, <3>1
    <3>2. CASE k # 1
      <4>1. PICK m \in 1 .. Len(f) : k = 1 + m
        <5>1. k - 1 \in 1 .. Len(f) /\ k = 1 + (k - 1)
          BY <2>5, <3>2
        <5> QED BY <5>1
      <4>2. x[k] = t[e[k]]
        BY <2>9
      <4>3. e[1 + m] = f[m] /\ y[m] = t[f[m]] /\ z[1 + m] = y[m]
        BY <2>5, <2>8, <2>12, Zenon
      <4> QED BY <4>1, <4>2, <4>3, Zenon
    <3> QED BY <3>1, <3>2
  <2>14. x = z
    BY <2>5, <2>9, <2>12, <2>13, SeqEqual
  <2> QED BY <2>7, <2>10, <2>14
<1> QED BY <1>2, <1>3, <1>4

\* The value that read_string_token collects is that of the literal.
LEMMA LiteralValue ==
  ASSUME source \in Text, NEW i \in 1 .. Len(source), NEW c \in i + 1 .. Len(source),
         source[i] = Quote, StringFrom[i + 1].close = c
  PROVE  StringFrom[i + 1].value = Unquoted(SubSeq(source, i, c))
<1> DEFINE N == Len(source)
           Claim(q) == StringFrom[q].close = c => StringFrom[q].value = KeptFrom(SubSeq(source, i, c), q - i + 1)
           H == {n \in Nat : \A q \in i + 1 .. N + 1 :
                               q + n >= N + 1 /\ Clear(source, i, q) => Claim(q)}
<1>0. N \in Nat /\ i \in Nat \ {0} /\ c \in Nat /\ i < c /\ c <= N
  BY DEF Text
<1>1. PICK t : t = SubSeq(source, i, c)
  OBVIOUS
<1>2. Stretch(t, source, i, c)
  BY <1>0, <1>1, StretchOfText
<1>3. t \in Text /\ Len(t) = c - i + 1 /\ \A k \in 1 .. c - i + 1 : t[k] = source[i + k - 1]
  BY <1>2 DEF Stretch
<1> HIDE DEF N
<1>4. ASSUME NEW q \in i + 1 .. c - 1
      PROVE  /\ q - i + 1 \in Nat \ {0} /\ q - i + 1 < Len(t)
             /\ t[q - i + 1] = source[q]
             /\ Odd(t, q - i + 1) <=> Parity(source, i, q) = 1
  <2>1. /\ q - i + 1 \in Nat \ {0} /\ q - i + 1 < Len(t) /\ q - i + 1 \in 1 .. c - i + 1
        /\ q - i + 1 \in 1 .. c - i /\ i + (q - i + 1) - 1 = q
    BY <1>0, <1>3
  <2>2. Cardinality({k \in Quotes(t) : k <= q - i + 1}) = Cardinality(QuotesIn(source, i, q))
    BY <1>2, <2>1, QuotesCounted
  <2> QED BY <1>3, <2>1, <2>2 DEF Odd, Parity
<1>5. 0 \in H
  <2> SUFFICES ASSUME NEW q \in i + 1 .. N + 1, q + 0 >= N + 1, StringFrom[q].close = c PROVE FALSE
    OBVIOUS
  <2>1. q > N /\ q \in 1 .. N + 1
    BY <1>0
  <2>2. StringFrom[q].close = 0
    BY <2>1, StringFromNext DEF N
  <2> QED BY <1>0, <2>2
<1> HIDE DEF Claim
<1>6. ASSUME NEW n \in Nat, n \in H PROVE n + 1 \in H
  <2> SUFFICES ASSUME NEW q \in i + 1 .. N + 1, q + (n + 1) >= N + 1, Clear(source, i, q),
                      StringFrom[q].close = c
               PROVE  StringFrom[q].value = KeptFrom(t, q - i + 1)
    BY <1>1 DEF Claim
  <2>1. q \in Nat /\ q \in 1 .. N + 1
    BY <1>0
  <2>2. ASSUME NEW r \in q + 1 .. N + 1, Clear(source, i, r), StringFrom[r].close = c
        PROVE  r <= c /\ StringFrom[r].value = KeptFrom(t, r - i + 1)
    <3>1. r \in i + 1 .. N + 1 /\ r + n >= N + 1 /\ r \in 1 .. N + 1 /\ r \in Nat
      BY <1>0, <2>1
    <3>2. Claim(r)
      BY <1>6, <2>2, <3>1
    <3>3. c \in {0} \cup r .. N
      BY <2>2, <3>1, StringFromType DEF N
    <3> QED BY <1>0, <1>1, <2>2, <3>1, <3>2, <3>3 DEF Claim
  <2> HIDE DEF H
  <2>3. /\ q <= N /\ source[q] # Quote => Clear(source, i, q + 1)
        /\ q < N /\ source[q] = Quote /\ source[q + 1] = Quote
             => Clear(source, i, q + 2) /\ Parity(source, i, q) = 1 /\ Parity(source, i, q + 1) = 0
    BY ClearNext DEF N
  <2>4. CASE q = N + 1
    <3>1. q > Len(source) /\ q \in 1 .. Len(source) + 1
      BY <1>0, <2>1, <2>4 DEF N
    <3>2. StringFrom[q].close = 0
      BY <3>1, StringFromNext
    <3> QED BY <1>0, <3>2
  <2>5. CASE q <= N /\ source[q] # Quote
    <3>1. q + 1 \in q + 1 .. N + 1
      BY <1>0, <2>1, <2>5
    <3>2. StringFrom[q].close = StringFrom[q + 1].close
          /\ StringFrom[q].value = <<source[q]>> \o StringFrom[q + 1].value
      BY <2>1, <2>5, StringFromNext, Zenon DEF N
    <3>3. q + 1 <= c /\ StringFrom[q + 1].value = KeptFrom(t, (q + 1) - i + 1)
      BY <2>2, <2>3, <2>5, <3>1, <3>2
    <3>4. q \in i + 1 .. c - 1 /\ (q + 1) - i + 1 = (q - i + 1) + 1
      BY <1>0, <2>1, <3>3
    <3>5. KeptFrom(t, q - i + 1) = <<t[q - i + 1]>> \o KeptFrom(t, (q - i + 1) + 1)
      BY <1>3, <1>4, <2>5, <3>4, KeptNext
    <3> QED BY <1>4, <3>2, <3>3, <3>4, <3>5, Zenon
  <2>6. CASE q < N /\ source[q] = Quote /\ source[q + 1] = Quote
    <3>1. q + 2 \in q + 1 .. N + 1
      BY <1>0, <2>1, <2>6
    <3>2. StringFrom[q].close = StringFrom[q + 2].close
          /\ StringFrom[q].value = <<Quote>> \o StringFrom[q + 2].value
      BY <2>1, <2>6, StringFromNext, Zenon DEF N
    <3>3. q + 2 <= c /\ StringFrom[q + 2].value = KeptFrom(t, (q + 2) - i + 1)
      BY <2>2, <2>3, <2>6, <3>1, <3>2
    <3>4. /\ q \in i + 1 .. c - 1 /\ q + 1 \in i + 1 .. c - 1
          /\ (q + 1) - i + 1 = (q - i + 1) + 1 /\ (q + 2) - i + 1 = ((q - i + 1) + 1) + 1
      <4>1. i \in Nat /\ c \in Nat /\ q \in Nat /\ i + 1 <= q /\ q + 2 <= c
        BY <1>0, <2>1, <3>3
      <4>2. q \in i + 1 .. c - 1 /\ q + 1 \in i + 1 .. c - 1
        BY <4>1
      <4>3. (q + 1) - i + 1 = (q - i + 1) + 1
        BY <4>1
      <4>4. (q + 2) - i + 1 = ((q - i + 1) + 1) + 1
        BY <4>1
      <4> QED BY <4>2, <4>3, <4>4
    <3>5. KeptFrom(t, q - i + 1) = <<Quote>> \o KeptFrom(t, (q - i + 1) + 1)
      <4>1. t[q - i + 1] = Quote /\ Odd(t, q - i + 1)
        BY <1>4, <2>3, <2>6, <3>4
      <4>2. q - i + 1 \in Nat \ {0} /\ q - i + 1 < Len(t)
        BY <1>4, <3>4
      <4> QED BY <1>3, <4>1, <4>2, KeptNext
    <3>6. KeptFrom(t, (q - i + 1) + 1) = KeptFrom(t, ((q - i + 1) + 1) + 1)
      <4>1. t[(q - i + 1) + 1] = Quote /\ ~Odd(t, (q - i + 1) + 1)
        <5>1. Parity(source, i, q + 1) # 1
          BY <2>3, <2>6
        <5> QED BY <1>4, <2>6, <3>4, <5>1
      <4>2. (q - i + 1) + 1 \in Nat \ {0} /\ (q - i + 1) + 1 < Len(t)
        BY <1>4, <3>4
      <4> QED BY <1>3, <4>1, <4>2, KeptNext
    <3> QED BY <3>2, <3>3, <3>4, <3>5, <3>6, Zenon
  <2>7. CASE q <= N /\ source[q] = Quote /\ ~(q < N /\ source[q + 1] = Quote)
    <3>1. StringFrom[q].close = q /\ StringFrom[q].value = <<>>
      BY <2>1, <2>7, StringFromNext, Zenon DEF N
    <3>2. q - i + 1 \in Nat \ {0} /\ q - i + 1 >= Len(t)
      BY <1>0, <1>3, <2>1, <3>1
    <3> QED BY <1>3, <3>1, <3>2, KeptNext
  <2> QED BY <1>0, <2>1, <2>4, <2>5, <2>6, <2>7
<1>7. Nat \subseteq H
  <2> HIDE DEF H
  <2> QED BY <1>5, <1>6, SetInduction
<1>8. N + 1 \in Nat /\ (i + 1) + (N + 1) >= N + 1 /\ i + 1 \in i + 1 .. N + 1 /\ (i + 1) - i + 1 = 2
      /\ (i + 1) - 1 = i
  BY <1>0
<1>9. Clear(source, i, i + 1)
  <2>1. Parity(source, i, i) = 0 /\ i + 1 .. i = {}
    BY <1>0, ParityNext
  <2> QED BY <1>8, <2>1 DEF Clear
<1>10. Claim(i + 1)
  BY <1>7, <1>8, <1>9
<1>11. StringFrom[i + 1].value = KeptFrom(t, 2)
  BY <1>1, <1>8, <1>10 DEF Claim
<1>12. Unquoted(t) = KeptFrom(t, 2)
  BY DEF KeptFrom, KeptPlaces, Unquoted
<1> QED BY <1>1, <1>11, <1>12, Zenon

\* The elements that start at a character, in terms of the characters.
LEMMA EndsAt ==
  ASSUME NEW s \in Text, NEW i \in 1 .. Len(s), NEW j \in i .. Len(s)
  PROVE  /\ j \in Ends(s, i)
              <=> \/ BlankAt(s, i, j) \/ LineCommentAt(s, i, j) \/ BlockCommentAt(s, i, j)
                  \/ WordAt(s, i, j) \/ NumberAt(s, i, j) \/ SymbolAt(s, i, j) \/ Closes(s, i, j)
         /\ IsSkipped(SubSeq(s, i, j))
              <=> BlankAt(s, i, j) \/ LineCommentAt(s, i, j) \/ BlockCommentAt(s, i, j)
<1>1. PICK t : t = SubSeq(s, i, j)
  OBVIOUS
<1>2. Stretch(t, s, i, j)
  BY <1>1, StretchOfText
<1>3. IsSkipped(t) <=> BlankAt(s, i, j) \/ LineCommentAt(s, i, j) \/ BlockCommentAt(s, i, j)
  BY <1>2, SkippedAt, Zenon DEF IsSkipped
<1>4. /\ IsWord(t) <=> WordAt(s, i, j)
      /\ IsNumber(t) <=> NumberAt(s, i, j)
      /\ IsSymbol(t) <=> SymbolAt(s, i, j)
      /\ IsString(t) <=> StringAt(s, i, j)
  BY <1>2, LexemesAt, StringsAt
<1>5. StringAt(s, i, j) => ~WordAt(s, i, j) /\ ~NumberAt(s, i, j) /\ ~SymbolAt(s, i, j)
  <2> SUFFICES ASSUME s[i] = Quote PROVE ~WordAt(s, i, j) /\ ~NumberAt(s, i, j) /\ ~SymbolAt(s, i, j)
    BY DEF StringAt
  <2>1. s[i] \notin Letter \cup Digit \cup Symbol /\ s[i] # "-"
    BY CharacterKinds DEF Quote
  <2>2. i \in i .. j
    BY DEF Text
  <2> QED BY <2>1, <2>2, Zenon DEF WordAt, NumberAt, SymbolAt
<1>6. j \in Ends(s, i)
        <=> IsSkipped(t) \/ (IsLexeme(t) /\ ~(IsString(t) /\ j < Len(s) /\ s[j + 1] = Quote))
  BY <1>1 DEF Ends
<1> QED BY <1>1, <1>3, <1>4, <1>5, <1>6, Zenon DEF IsLexeme, Closes

\* The first characters decide of what kind the elements are.
LEMMA EndsByKind ==
  ASSUME NEW s \in Text, NEW i \in 1 .. Len(s), NEW j \in i .. Len(s)
  PROVE  /\ s[i] \in Blank \cup Symbol => (j \in Ends(s, i) <=> j = i)
         /\ i < Len(s) /\ s[i] = "-" /\ s[i + 1] = "-" => (j \in Ends(s, i) <=> LineCommentAt(s, i, j))
         /\ i < Len(s) /\ s[i] = "/" /\ s[i + 1] = "*" => (j \in Ends(s, i) <=> BlockCommentAt(s, i, j))
         /\ s[i] \in Letter => (j \in Ends(s, i) <=> WordAt(s, i, j))
         /\ s[i] \in Digit \/ (i < Len(s) /\ s[i] = "-" /\ s[i + 1] \in Digit)
              => (j \in Ends(s, i) <=> NumberAt(s, i, j))
         /\ s[i] = Quote => (j \in Ends(s, i) <=> Closes(s, i, j))
         /\ j \in Ends(s, i)
              => \/ s[i] \in Blank \cup Letter \cup Symbol \cup {Quote} \cup Digit
                 \/ i < Len(s) /\ s[i] = "-" /\ (s[i + 1] = "-" \/ s[i + 1] \in Digit)
                 \/ i < Len(s) /\ s[i] = "/" /\ s[i + 1] = "*"
<1>1. i \in i .. j /\ i \in Nat /\ j \in Nat /\ j <= Len(s) /\ (i < j => i < Len(s) /\ i + 1 \in i + 1 .. j)
  BY DEF Text
<1>2. /\ BlankAt(s, i, j) => s[i] \in Blank /\ j = i
      /\ SymbolAt(s, i, j) => s[i] \in Symbol /\ j = i
      /\ LineCommentAt(s, i, j) => i < Len(s) /\ s[i] = "-" /\ s[i + 1] = "-"
      /\ BlockCommentAt(s, i, j) => i < Len(s) /\ s[i] = "/" /\ s[i + 1] = "*"
      /\ WordAt(s, i, j) => s[i] \in Letter
      /\ NumberAt(s, i, j) => s[i] \in Digit \/ (i < Len(s) /\ s[i] = "-" /\ s[i + 1] \in Digit)
      /\ Closes(s, i, j) => s[i] = Quote
  BY <1>1 DEF BlankAt, SymbolAt, LineCommentAt, BlockCommentAt, WordAt, NumberAt, Closes, StringAt
<1>3. j = i => (s[i] \in Blank => BlankAt(s, i, j)) /\ (s[i] \in Symbol => SymbolAt(s, i, j))
  BY DEF BlankAt, SymbolAt
<1> DEFINE c == s[i]
           d == s[i + 1]
<1>4. c = s[i] /\ d = s[i + 1]
  OBVIOUS
<1> HIDE DEF c, d
<1>5. /\ c \in Blank  => c \notin Letter \cup Digit \cup Symbol \cup {Quote, "-", "/"}
      /\ c \in Letter => c \notin Digit \cup Symbol \cup {Quote, "-", "/"}
      /\ c \in Digit  => c \notin Symbol \cup {Quote, "-", "/"}
      /\ c \in Symbol => c \notin {Quote, "-", "/"}
      /\ d \in Digit  => d # "-"
      /\ c = "-" => c # "/" /\ c # Quote
      /\ c = "/" => c # Quote
  BY CharacterKinds DEF Quote
<1>6. j \in Ends(s, i)
        <=> \/ BlankAt(s, i, j) \/ LineCommentAt(s, i, j) \/ BlockCommentAt(s, i, j)
            \/ WordAt(s, i, j) \/ NumberAt(s, i, j) \/ SymbolAt(s, i, j) \/ Closes(s, i, j)
  BY EndsAt
<1>7. ASSUME c \in Blank \cup Symbol PROVE j \in Ends(s, i) <=> j = i
  <2>1. c \notin Letter \cup Digit \cup {Quote, "-", "/"}
    BY <1>5, <1>7, Zenon
  <2> QED BY <1>2, <1>3, <1>4, <1>6, <1>7, <2>1
<1>8. ASSUME i < Len(s), c = "-", d = "-" PROVE j \in Ends(s, i) <=> LineCommentAt(s, i, j)
  <2>1. c \notin Blank \cup Letter \cup Digit \cup Symbol \cup {Quote, "/"} /\ d \notin Digit
    BY <1>5, <1>8, Zenon
  <2> QED BY <1>2, <1>4, <1>6, <1>8, <2>1
<1>9. ASSUME i < Len(s), c = "/", d = "*" PROVE j \in Ends(s, i) <=> BlockCommentAt(s, i, j)
  <2>1. c \notin Blank \cup Letter \cup Digit \cup Symbol \cup {Quote, "-"}
    BY <1>5, <1>9, Zenon
  <2> QED BY <1>2, <1>4, <1>6, <1>9, <2>1
<1>10. ASSUME c \in Letter PROVE j \in Ends(s, i) <=> WordAt(s, i, j)
  <2>1. c \notin Blank \cup Digit \cup Symbol \cup {Quote, "-", "/"}
    BY <1>5, <1>10, Zenon
  <2> QED BY <1>2, <1>4, <1>6, <1>10, <2>1
<1>11. ASSUME c \in Digit \/ (i < Len(s) /\ c = "-" /\ d \in Digit)
       PROVE  j \in Ends(s, i) <=> NumberAt(s, i, j)
  <2>1. c \notin Blank \cup Letter \cup Symbol \cup {Quote, "/"} /\ ~(c = "-" /\ d = "-")
    BY <1>5, <1>11, Zenon
  <2> QED BY <1>2, <1>4, <1>6, <1>11, <2>1
<1>12. ASSUME c = Quote PROVE j \in Ends(s, i) <=> Closes(s, i, j)
  <2>1. c \notin Blank \cup Letter \cup Digit \cup Symbol \cup {"-", "/"}
    BY <1>5, <1>12, Zenon
  <2> QED BY <1>2, <1>4, <1>6, <1>12, <2>1
<1>13. j \in Ends(s, i)
         => \/ s[i] \in Blank \cup Letter \cup Symbol \cup {Quote} \cup Digit
            \/ i < Len(s) /\ s[i] = "-" /\ (s[i + 1] = "-" \/ s[i + 1] \in Digit)
            \/ i < Len(s) /\ s[i] = "/" /\ s[i + 1] = "*"
  BY <1>2, <1>6
<1>14. s[i] \in Blank \cup Symbol => (j \in Ends(s, i) <=> j = i)
  BY <1>7, Zenon DEF c
<1>15. i < Len(s) /\ s[i] = "-" /\ s[i + 1] = "-" => (j \in Ends(s, i) <=> LineCommentAt(s, i, j))
  BY <1>8, Zenon DEF c, d
<1>16. i < Len(s) /\ s[i] = "/" /\ s[i + 1] = "*" => (j \in Ends(s, i) <=> BlockCommentAt(s, i, j))
  BY <1>9, Zenon DEF c, d
<1>17. s[i] \in Letter => (j \in Ends(s, i) <=> WordAt(s, i, j))
  BY <1>10, Zenon DEF c
<1>18. s[i] \in Digit \/ (i < Len(s) /\ s[i] = "-" /\ s[i + 1] \in Digit)
         => (j \in Ends(s, i) <=> NumberAt(s, i, j))
  BY <1>11, Zenon DEF c, d
<1>19. s[i] = Quote => (j \in Ends(s, i) <=> Closes(s, i, j))
  BY <1>12, Zenon DEF c
<1> QED BY <1>13, <1>14, <1>15, <1>16, <1>17, <1>18, <1>19, Zenon

\* The longest element at each character.
LongestAt(s, i, m) == m \in Ends(s, i) /\ \A j \in Ends(s, i) : j <= m

LEMMA OneCharacter ==
  ASSUME NEW s \in Text, NEW i \in 1 .. Len(s), s[i] \in Blank \cup Symbol
  PROVE  LongestAt(s, i, i)
<1>1. i \in i .. Len(s) /\ i \in Nat
  BY DEF Text
<1>2. \A j \in i .. Len(s) : j \in Ends(s, i) <=> j = i
  BY EndsByKind
<1>3. Ends(s, i) \subseteq i .. Len(s)
  BY DEF Ends
<1> QED BY <1>1, <1>2, <1>3 DEF LongestAt

\* What ends where a run of characters of a set ends.
LEMMA LongestRun ==
  ASSUME NEW s \in Text, NEW i \in 1 .. Len(s), NEW S, NEW a \in i .. Len(s) + 1,
         NEW b \in i .. Len(s), NEW e \in b + 1 .. Len(s) + 1, a <= b + 1,
         \A j \in i .. Len(s) : j \in Ends(s, i) <=> b <= j /\ \A m \in a .. j : s[m] \in S,
         \A m \in a .. e - 1 : s[m] \in S,
         e <= Len(s) => s[e] \notin S
  PROVE  LongestAt(s, i, e - 1)
<1>1. /\ Len(s) \in Nat /\ i \in Nat \ {0} /\ a \in Nat /\ b \in Nat /\ e \in Nat
      /\ e - 1 \in i .. Len(s) /\ b <= e - 1 /\ a <= e
  BY DEF Text
<1>2. e - 1 \in Ends(s, i)
  BY <1>1
<1>3. ASSUME NEW j \in Ends(s, i) PROVE j <= e - 1
  <2>1. j \in i .. Len(s)
    BY DEF Ends
  <2>2. \A m \in a .. j : s[m] \in S
    BY <2>1
  <2>3. ASSUME e <= j PROVE FALSE
    <3>1. e \in a .. j /\ e <= Len(s)
      BY <1>1, <2>1, <2>3
    <3> QED BY <2>2, <3>1
  <2> QED BY <1>1, <2>1, <2>3
<1> QED BY <1>2, <1>3 DEF LongestAt

\* The run of characters that the code skips, seen from the text.
LEMMA RunOfText ==
  ASSUME source \in Text, NEW i \in 1 .. Len(source) + 1, NEW S, NUL \notin S
  PROVE  /\ SpanEnd(i, S) \in i .. Len(source) + 1
         /\ \A m \in i .. SpanEnd(i, S) - 1 : source[m] \in S
         /\ SpanEnd(i, S) <= Len(source) => source[SpanEnd(i, S)] \notin S
<1>1. PICK e : e = SpanEnd(i, S)
  OBVIOUS
<1>2. e \in i .. Len(source) + 1 /\ At(e) \notin S /\ \A k \in i .. e - 1 : At(k) \in S
  BY <1>1, SpanEndRange
<1>3. Len(source) \in Nat /\ DOMAIN source = 1 .. Len(source)
  BY DEF Text
<1>4. \A k \in 1 .. Len(source) : At(k) = source[k]
  BY <1>3 DEF At
<1>5. (\A k \in i .. e - 1 : k \in 1 .. Len(source)) /\ (e <= Len(source) => e \in 1 .. Len(source))
  BY <1>2, <1>3
<1>6. e \in i .. Len(source) + 1 /\ (\A k \in i .. e - 1 : source[k] \in S)
      /\ (e <= Len(source) => source[e] \notin S)
  BY <1>2, <1>4, <1>5
<1> QED BY <1>1, <1>6

\* Nothing that the tokenizer looks for is the terminator.
LEMMA AtIs ==
  ASSUME source \in Text, NEW k \in Nat \ {0}
  PROVE  /\ k <= Len(source) => At(k) = source[k] /\ source[k] \in Char
         /\ k > Len(source) => At(k) = NUL
         /\ NUL \notin Char \cup Letter \cup Digit \cup Blank \cup Symbol \cup {Quote, "-", "/", "*"}
<1>1. Len(source) \in Nat /\ DOMAIN source = 1 .. Len(source) /\ \A m \in 1 .. Len(source) : source[m] \in Char
  BY DEF Text
<1>2. NUL \notin Char \cup Symbol \cup {Quote, "-", "/"} /\ Letter \cup Digit \cup Blank \subseteq Char
  BY SourceAssumption
<1>3. "*" \in Symbol
  BY DEF Symbol
<1>4. NUL \notin Char \cup Letter \cup Digit \cup Blank \cup Symbol \cup {Quote, "-", "/", "*"}
  BY <1>2, <1>3
<1> QED BY <1>1, <1>4 DEF At

LEMMA LongestWord ==
  ASSUME source \in Text, NEW i \in 1 .. Len(source), At(i) \in Letter,
         NEW e, e = SpanEnd(i, Letter \cup Digit)
  PROVE  /\ e - 1 \in i .. Len(source) /\ LongestAt(source, i, e - 1)
         /\ WordAt(source, i, e - 1)
<1>0. Len(source) \in Nat /\ i \in Nat \ {0} /\ i <= Len(source) /\ i \in 1 .. Len(source) + 1
  BY DEF Text
<1>1. source[i] \in Letter /\ NUL \notin Letter \cup Digit
  BY <1>0, AtIs
<1>2. /\ e \in i .. Len(source) + 1 /\ \A m \in i .. e - 1 : source[m] \in Letter \cup Digit
      /\ e <= Len(source) => source[e] \notin Letter \cup Digit
  BY <1>0, <1>1, RunOfText
<1>3. e \in i + 1 .. Len(source) + 1 /\ e - 1 \in i .. Len(source)
  <2>1. e # i
    BY <1>0, <1>1, <1>2
  <2> QED BY <1>0, <1>2, <2>1
<1>4. \A j \in i .. Len(source) :
        j \in Ends(source, i) <=> i <= j /\ \A m \in i .. j : source[m] \in Letter \cup Digit
  <2> SUFFICES ASSUME NEW j \in i .. Len(source)
               PROVE  j \in Ends(source, i)
                        <=> i <= j /\ \A m \in i .. j : source[m] \in Letter \cup Digit
    OBVIOUS
  <2>1. i <= j
    BY <1>0
  <2> QED BY <1>1, <2>1, EndsByKind DEF WordAt
<1>5. i \in i .. Len(source) + 1 /\ i \in i .. Len(source) /\ i <= i + 1
  BY <1>0
<1>6. LongestAt(source, i, e - 1)
  <2>1. PICK S : S = Letter \cup Digit
    OBVIOUS
  <2> QED BY <1>2, <1>3, <1>4, <1>5, <2>1, LongestRun
<1> QED BY <1>1, <1>2, <1>3, <1>6 DEF WordAt

LEMMA LongestNumber ==
  ASSUME source \in Text, NEW i \in 1 .. Len(source),
         At(i) \in Digit \/ (At(i) = "-" /\ At(i + 1) \in Digit),
         NEW e, e = SpanEnd(i + 1, Digit)
  PROVE  /\ e - 1 \in i .. Len(source) /\ LongestAt(source, i, e - 1)
         /\ NumberAt(source, i, e - 1)
<1>0. Len(source) \in Nat /\ i \in Nat \ {0} /\ i <= Len(source) /\ i + 1 \in 1 .. Len(source) + 1
      /\ i + 1 \in Nat \ {0}
  BY DEF Text
<1>1. /\ At(i) = source[i] /\ NUL \notin Digit
      /\ At(i + 1) \in Digit => i + 1 <= Len(source) /\ At(i + 1) = source[i + 1]
  BY <1>0, AtIs
<1>2. /\ e \in i + 1 .. Len(source) + 1 /\ \A m \in i + 1 .. e - 1 : source[m] \in Digit
      /\ e <= Len(source) => source[e] \notin Digit
  BY <1>0, <1>1, RunOfText
<1>3. \A j \in i .. Len(source) : j \in Ends(source, i) <=> NumberAt(source, i, j)
  <2>1. source[i] \in Digit \/ (i < Len(source) /\ source[i] = "-" /\ source[i + 1] \in Digit)
    BY <1>0, <1>1
  <2> QED BY <2>1, EndsByKind
<1>4. \A c \in Digit : c # "-"
  BY CharacterKinds
<1>5. CASE source[i] \in Digit
  <2>1. source[i] # "-"
    BY <1>4, <1>5
  <2>2. ASSUME NEW j \in i .. Len(source)
        PROVE  NumberAt(source, i, j) <=> i <= j /\ \A m \in i + 1 .. j : source[m] \in Digit
    <3>1. \A m \in i .. j : m = i \/ m \in i + 1 .. j
      BY <1>0
    <3>2. (\A m \in i + 1 .. j : m \in i .. j) /\ i <= j
      BY <1>0
    <3> QED BY <1>5, <2>1, <3>1, <3>2, Zenon DEF NumberAt
  <2>3. /\ i \in i .. Len(source) /\ i + 1 \in i .. Len(source) + 1 /\ i + 1 <= i + 1
        /\ e - 1 \in i .. Len(source)
    BY <1>0, <1>2
  <2>4. LongestAt(source, i, e - 1)
    BY <1>2, <1>3, <2>2, <2>3, LongestRun
  <2> QED BY <1>2, <2>2, <2>3, <2>4
<1>6. CASE source[i] = "-" /\ i < Len(source) /\ source[i + 1] \in Digit
  <2>1. e # i + 1
    BY <1>0, <1>2, <1>6
  <2>2. ASSUME NEW j \in i .. Len(source)
        PROVE  NumberAt(source, i, j) <=> i + 1 <= j /\ \A m \in i + 1 .. j : source[m] \in Digit
    <3>1. i + 1 <= j <=> i < j
      BY <1>0
    <3> QED BY <1>6, <3>1 DEF NumberAt
  <2>3. /\ i + 1 \in i .. Len(source) /\ i + 1 \in i .. Len(source) + 1 /\ i + 1 <= (i + 1) + 1
        /\ e - 1 \in i .. Len(source) /\ e \in (i + 1) + 1 .. Len(source) + 1 /\ i + 1 <= e - 1
    BY <1>0, <1>2, <1>6, <2>1
  <2>4. LongestAt(source, i, e - 1)
    BY <1>2, <1>3, <2>2, <2>3, LongestRun
  <2> QED BY <1>2, <2>2, <2>3, <2>4
<1> QED BY <1>0, <1>1, <1>5, <1>6

LEMMA LongestLineComment ==
  ASSUME source \in Text, NEW i \in 1 .. Len(source), At(i) = "-", At(i + 1) = "-",
         NEW e, e = SpanEnd(i + 2, Char \ {LF})
  PROVE  /\ e - 1 \in i .. Len(source) /\ LongestAt(source, i, e - 1)
         /\ LineCommentAt(source, i, e - 1)
<1>0. Len(source) \in Nat /\ i \in Nat \ {0} /\ i <= Len(source) /\ i + 1 \in Nat \ {0}
  BY DEF Text
<1>1. /\ source[i] = "-" /\ source[i + 1] = "-" /\ NUL \notin Char /\ i + 1 <= Len(source)
      /\ \A m \in 1 .. Len(source) : source[m] \in Char
  BY <1>0, AtIs DEF Text
<1>2. /\ e \in i + 2 .. Len(source) + 1 /\ \A m \in i + 2 .. e - 1 : source[m] \in Char \ {LF}
      /\ e <= Len(source) => source[e] \notin Char \ {LF}
  <2>1. i + 2 \in 1 .. Len(source) + 1
    BY <1>0, <1>1
  <2> QED BY <1>1, <2>1, RunOfText
<1>3. ASSUME NEW j \in i .. Len(source)
      PROVE  LineCommentAt(source, i, j)
               <=> i + 1 <= j /\ \A m \in i + 2 .. j : source[m] \in Char \ {LF}
  <2>1. \A m \in i .. j : m = i \/ m = i + 1 \/ m \in i + 2 .. j
    BY <1>0
  <2>2. (\A m \in i + 2 .. j : m \in i .. j /\ m \in 1 .. Len(source)) /\ (i + 1 <= j <=> i < j)
    BY <1>0
  <2>3. LF # "-"
    BY NotNewline
  <2> QED BY <1>1, <2>1, <2>2, <2>3 DEF LineCommentAt
<1>4. \A j \in i .. Len(source) : j \in Ends(source, i) <=> LineCommentAt(source, i, j)
  <2>1. i < Len(source)
    BY <1>0, <1>1
  <2> QED BY <1>1, <2>1, EndsByKind
<1>5. /\ i + 2 \in i .. Len(source) + 1 /\ i + 1 \in i .. Len(source)
      /\ e \in (i + 1) + 1 .. Len(source) + 1 /\ i + 2 <= (i + 1) + 1
      /\ e - 1 \in i .. Len(source) /\ i + 1 <= e - 1
  BY <1>0, <1>1, <1>2
<1>6. LongestAt(source, i, e - 1)
  <2>1. PICK S : S = Char \ {LF}
    OBVIOUS
  <2> QED BY <1>2, <1>3, <1>4, <1>5, <2>1, LongestRun
<1> QED BY <1>2, <1>3, <1>5, <1>6

LEMMA LongestBlockComment ==
  ASSUME source \in Text, NEW i \in 1 .. Len(source), index = i, At(i) = "/", At(i + 1) = "*"
  PROVE  /\ CommentEnds # {} =>
              /\ Min(CommentEnds) + 1 \in i .. Len(source)
              /\ LongestAt(source, i, Min(CommentEnds) + 1)
              /\ BlockCommentAt(source, i, Min(CommentEnds) + 1)
         /\ CommentEnds = {} => Ends(source, i) = {}
<1>0. Len(source) \in Nat /\ i \in Nat \ {0} /\ i <= Len(source) /\ i + 1 \in Nat \ {0}
  BY DEF Text
<1>1. /\ source[i] = "/" /\ source[i + 1] = "*" /\ NUL \notin {"*", "/"} /\ i + 1 <= Len(source)
      /\ \A m \in 1 .. Len(source) : At(m) = source[m]
  BY <1>0, AtIs
<1>2. CommentEnds = {m \in i + 2 .. Len(source) - 1 : source[m] = "*" /\ source[m + 1] = "/"}
  <2>1. ASSUME NEW m \in i + 2 .. Len(source)
        PROVE  At(m) = "*" /\ At(m + 1) = "/"
                 <=> m \in i + 2 .. Len(source) - 1 /\ source[m] = "*" /\ source[m + 1] = "/"
    <3>1. m \in Nat \ {0} /\ m + 1 \in Nat \ {0} /\ m <= Len(source) /\ m \in 1 .. Len(source)
      BY <1>0
    <3>2. m + 1 > Len(source) => At(m + 1) # "/"
      BY <1>1, <3>1, AtIs
    <3>3. m + 1 <= Len(source) => At(m + 1) = source[m + 1]
      BY <3>1, AtIs
    <3>4. m \in i + 2 .. Len(source) - 1 <=> m + 1 <= Len(source)
      BY <1>0
    <3>5. m + 1 > Len(source) \/ m + 1 <= Len(source)
      BY <1>0
    <3> QED BY <1>1, <3>1, <3>2, <3>3, <3>4, <3>5, Zenon
  <2>2. CommentEnds = {m \in i + 2 .. Len(source) : At(m) = "*" /\ At(m + 1) = "/"}
    BY DEF CommentEnds
  <2>3. i + 2 .. Len(source) - 1 \subseteq i + 2 .. Len(source)
    BY <1>0
  <2> QED BY <2>1, <2>2, <2>3
<1>3. PICK C : C = CommentEnds
  OBVIOUS
<1>4. /\ C \subseteq i + 2 .. Len(source) - 1 /\ C \subseteq Nat
      /\ \A m \in i + 2 .. Len(source) - 1 : m \in C <=> source[m] = "*" /\ source[m + 1] = "/"
  BY <1>0, <1>2, <1>3
<1>5. ASSUME NEW j \in i .. Len(source)
      PROVE  BlockCommentAt(source, i, j) <=> {m \in C : m <= j - 1} = {j - 1}
  <2>1. {m \in i + 2 .. j - 1 : source[m] = "*" /\ source[m + 1] = "/"} = {m \in C : m <= j - 1}
    <3>1. \A m \in i + 2 .. j - 1 : m \in i + 2 .. Len(source) - 1
      BY <1>0
    <3>2. \A m \in C : m <= j - 1 => m \in i + 2 .. j - 1
      BY <1>0, <1>4
    <3>3. \A m \in i + 2 .. j - 1 : m <= j - 1
      BY <1>0
    <3> QED BY <1>4, <3>1, <3>2, <3>3
  <2>2. {m \in C : m <= j - 1} = {j - 1} => i < j
    <3>1. {m \in C : m <= j - 1} = {j - 1} => j - 1 \in i + 2 .. Len(source) - 1
      BY <1>4
    <3> QED BY <1>0, <3>1
  <2> QED BY <1>1, <2>1, <2>2 DEF BlockCommentAt
<1>6. \A j \in i .. Len(source) : j \in Ends(source, i) <=> BlockCommentAt(source, i, j)
  <2>1. i < Len(source)
    BY <1>0, <1>1
  <2> QED BY <1>1, <2>1, EndsByKind
<1>7. Ends(source, i) \subseteq i .. Len(source)
  BY DEF Ends
<1>8. ASSUME C = {} PROVE Ends(source, i) = {}
  <2>1. ASSUME NEW j \in i .. Len(source) PROVE ~BlockCommentAt(source, i, j)
    <3>1. {m \in C : m <= j - 1} # {j - 1}
      BY <1>8
    <3> QED BY <1>5, <3>1
  <2> QED BY <1>6, <1>7, <2>1
<1>9. ASSUME C # {}
      PROVE  /\ Min(C) + 1 \in i .. Len(source)
             /\ LongestAt(source, i, Min(C) + 1)
             /\ BlockCommentAt(source, i, Min(C) + 1)
  <2>1. PICK x \in C : \A y \in C : x <= y
    BY <1>4, <1>9, LeastNat
  <2>2. PICK l : l = Min(C)
    OBVIOUS
  <2>3. l \in C /\ \A y \in C : l <= y
    BY <2>1, <2>2 DEF Min
  <2>4. /\ l + 1 \in i .. Len(source) /\ (l + 1) - 1 = l /\ l \in Nat
    BY <1>0, <1>4, <2>3
  <2>5. {m \in C : m <= l} = {l}
    <3>1. ASSUME NEW m \in C, m <= l PROVE m = l
      <4>1. m \in Nat /\ l <= m
        BY <1>4, <2>3
      <4> QED BY <2>4, <3>1, <4>1
    <3>2. l <= l
      BY <2>4
    <3> QED BY <2>3, <3>1, <3>2
  <2>6. BlockCommentAt(source, i, l + 1)
    BY <1>5, <2>4, <2>5
  <2>7. ASSUME NEW j \in Ends(source, i) PROVE j <= l + 1
    <3>1. j \in i .. Len(source) /\ {m \in C : m <= j - 1} = {j - 1}
      BY <1>5, <1>6, <1>7
    <3>2. j \in Nat /\ j - 1 \in C
      BY <1>0, <3>1
    <3>3. l <= j - 1
      BY <2>3, <3>2
    <3>4. l \in {m \in C : m <= j - 1}
      BY <2>3, <3>3
    <3> QED BY <2>4, <3>1, <3>2, <3>4
  <2> QED BY <1>6, <2>2, <2>4, <2>6, <2>7 DEF LongestAt
<1> QED BY <1>3, <1>8, <1>9

LEMMA LongestString ==
  ASSUME source \in Text, NEW i \in 1 .. Len(source), At(i) = Quote,
         NEW c, c = StringFrom[i + 1].close
  PROVE  /\ c # 0 => /\ c \in i + 1 .. Len(source) /\ LongestAt(source, i, c)
                     /\ Closes(source, i, c)
                     /\ StringFrom[i + 1].value = Unquoted(SubSeq(source, i, c))
         /\ c = 0 => Ends(source, i) = {}
<1>0. Len(source) \in Nat /\ i \in Nat \ {0} /\ i <= Len(source)
  BY DEF Text
<1>1. source[i] = Quote
  BY <1>0, AtIs
<1>2. i + 1 \in i + 1 .. Len(source) + 1 /\ i + 1 \in 1 .. Len(source) + 1 /\ (i + 1) - 1 = i
  BY <1>0
<1>3. Clear(source, i, i + 1)
  <2>1. Parity(source, i, i) = 0 /\ i + 1 .. i = {}
    BY <1>0, ParityNext
  <2> QED BY <1>2, <2>1 DEF Clear
<1>4. \A j \in i + 1 .. Len(source) : Closes(source, i, j) <=> c = j
  BY <1>1, <1>2, <1>3, LiteralEnds
<1>5. c \in {0} \cup i + 1 .. Len(source)
  BY <1>2, StringFromType
<1>6. ASSUME NEW j \in Ends(source, i) PROVE j \in i + 1 .. Len(source) /\ c = j
  <2>1. j \in i .. Len(source)
    BY DEF Ends
  <2>2. Closes(source, i, j)
    BY <1>1, <2>1, EndsByKind
  <2>3. i < j
    BY <2>2 DEF Closes, StringAt
  <2>4. j \in i + 1 .. Len(source)
    BY <1>0, <2>1, <2>3
  <2> QED BY <1>4, <2>2, <2>4
<1>7. ASSUME c # 0 PROVE c \in i + 1 .. Len(source) /\ LongestAt(source, i, c) /\ Closes(source, i, c)
  <2>1. c \in i + 1 .. Len(source) /\ c \in i .. Len(source) /\ c \in Nat
    BY <1>0, <1>5, <1>7
  <2>2. Closes(source, i, c)
    BY <1>4, <2>1
  <2>3. c \in Ends(source, i)
    BY <1>1, <2>1, <2>2, EndsByKind
  <2> QED BY <1>6, <2>1, <2>2, <2>3 DEF LongestAt
<1>8. c # 0 => StringFrom[i + 1].value = Unquoted(SubSeq(source, i, c))
  BY <1>1, <1>7, LiteralValue
<1>9. c = 0 => Ends(source, i) = {}
  BY <1>0, <1>6
<1> QED BY <1>7, <1>8, <1>9

\* Reading on behind the longest element ends.
LEMMA ElementsIs ==
  ASSUME NEW s \in Text, NEW i0 \in 1 .. Len(s) + 1
  PROVE  Elements(s)[i0]
           = LET ends == Ends(s, i0)
                 text == SubSeq(s, i0, Max(ends))
             IN  IF i0 > Len(s) \/ ends = {} THEN [stop |-> i0, items |-> <<>>]
                 ELSE IF IsSkipped(text)     THEN Elements(s)[Max(ends) + 1]
                 ELSE [Elements(s)[Max(ends) + 1] EXCEPT !.items = <<Meaning(text)>> \o @]
<1> DEFINE N == Len(s)
           Body(f, i) ==
             LET ends == Ends(s, i)
                 text == SubSeq(s, i, Max(ends))
             IN  IF i > Len(s) \/ ends = {} THEN [stop |-> i, items |-> <<>>]
                 ELSE IF IsSkipped(text)    THEN f[Max(ends) + 1]
                 ELSE [f[Max(ends) + 1] EXCEPT !.items = <<Meaning(text)>> \o @]
           Dom(n) == (N + 1 - n) .. (N + 1)
           Good(n) == \E f : f = [i \in Dom(n) |-> Body(f, i)]
<1>0. N \in Nat /\ DOMAIN s = 1 .. N
  BY DEF Text
<1>1. ASSUME NEW f, NEW g, NEW i \in 1 .. N + 1,
             \A j \in i + 1 .. N + 1 : f[j] = g[j]
      PROVE  Body(f, i) = Body(g, i)
  <2> SUFFICES ASSUME ~(i > N), Ends(s, i) # {} PROVE f[Max(Ends(s, i)) + 1] = g[Max(Ends(s, i)) + 1]
    BY Zenon
  <2>1. Ends(s, i) \subseteq i .. N
    BY DEF Ends
  <2>2. Ends(s, i) \subseteq 0 .. N
    BY <1>0, <2>1
  <2>3. PICK m \in Ends(s, i) : \A j \in Ends(s, i) : j <= m
    <3> HIDE DEF N
    <3> QED BY <1>0, <2>2, GreatestNat
  <2>4. Max(Ends(s, i)) = m
    <3>1. Ends(s, i) \subseteq Nat
      BY <2>2
    <3> QED BY <2>3, <3>1, MaxIs
  <2>5. m + 1 \in i + 1 .. N + 1
    BY <1>0, <2>1
  <2> QED BY <1>1, <2>4, <2>5
<1>2. Good(0)
  <2> DEFINE e == [i \in Dom(0) |-> Body(<<>>, i)]
  <2>1. ASSUME NEW i \in Dom(0) PROVE Body(<<>>, i) = Body(e, i)
    <3>1. i = N + 1 /\ i \in 1 .. N + 1
      BY <1>0
    <3>2. \A j \in i + 1 .. N + 1 : <<>>[j] = e[j]
      BY <1>0, <3>1
    <3> HIDE DEF e, Body, N
    <3> QED BY <1>1, <3>1, <3>2
  <2>2. e = [i \in Dom(0) |-> Body(e, i)]
    <3> HIDE DEF Body, Dom
    <3> QED BY <2>1
  <2> HIDE DEF Body
  <2> QED BY <2>2
<1>3. ASSUME NEW n \in Nat, n + 1 <= N, Good(n) PROVE Good(n + 1)
  <2> HIDE DEF Body
  <2>1. PICK f : f = [i \in Dom(n) |-> Body(f, i)]
    BY <1>3
  <2> DEFINE k == N - n
             g == [i \in Dom(n + 1) |-> IF i = k THEN Body(f, i) ELSE f[i]]
  <2>2. /\ Dom(n) \subseteq Dom(n + 1) /\ Dom(n + 1) \subseteq 1 .. N + 1
        /\ k \in Dom(n + 1) /\ k \notin Dom(n)
        /\ \A i \in Dom(n + 1) : i \in Dom(n) \/ i = k
        /\ \A i \in Dom(n + 1) : \A j \in i + 1 .. N + 1 : j \in Dom(n)
    <3>1. N \in Nat /\ n + 1 <= N
      BY <1>0, <1>3
    <3> HIDE DEF N, g
    <3> QED BY <3>1
  <2> HIDE DEF Dom, k
  <2>3. \A i \in Dom(n) : g[i] = f[i]
    BY <2>2
  <2>4. ASSUME NEW i \in Dom(n + 1) PROVE g[i] = Body(g, i)
    <3>1. \A j \in i + 1 .. N + 1 : f[j] = g[j]
      BY <2>2, <2>3
    <3>2. Body(f, i) = Body(g, i)
      <4> HIDE DEF g, N
      <4> QED BY <1>1, <2>2, <3>1
    <3>3. g[i] = Body(f, i)
      BY <2>1, <2>2
    <3> QED BY <3>2, <3>3
  <2>5. g = [i \in Dom(n + 1) |-> Body(g, i)]
    BY <2>4
  <2> QED BY <2>5
<1>4. Good(N)
  <2> DEFINE G == {n \in Nat : n <= N => Good(n)}
  <2> HIDE DEF Good
  <2>1. 0 \in G
    BY <1>2
  <2>2. ASSUME NEW n \in Nat, n \in G PROVE n + 1 \in G
    <3>1. n + 1 <= N => n <= N
      BY <1>0
    <3> QED BY <3>1, <1>3, <2>2
  <2>3. Nat \subseteq G
    <3> HIDE DEF G
    <3> QED BY <2>1, <2>2, SetInduction
  <2> QED BY <2>3, <1>0
<1> DEFINE found == CHOOSE f : f = [i \in 1 .. N + 1 |-> Body(f, i)]
<1>5. found = [i \in 1 .. N + 1 |-> Body(found, i)]
  <2>1. Dom(N) = 1 .. N + 1
    BY <1>0
  <2> HIDE DEF Dom, Body
  <2> QED BY <1>4, <2>1
<1>6. Elements(s) = found
  BY DEF Elements
<1> HIDE DEF found, Body
<1>7. Elements(s)[i0] = Body(Elements(s), i0)
  BY <1>5, <1>6
<1> QED BY <1>7, Zenon DEF Body

\* What the elements of a text mean, in a set of their own.
Meanings(s) == {Meaning(SubSeq(s, i, j)) : i \in 1 .. Len(s), j \in 1 .. Len(s)}

LEMMA ElementsNext ==
  ASSUME NEW s \in Text, NEW i \in 1 .. Len(s) + 1
  PROVE  /\ i > Len(s) \/ Ends(s, i) = {} => Elements(s)[i] = [stop |-> i, items |-> <<>>]
         /\ \A m \in i .. Len(s) :
              LongestAt(s, i, m) =>
                /\ m + 1 \in i + 1 .. Len(s) + 1
                /\ Elements(s)[i]
                     = IF IsSkipped(SubSeq(s, i, m)) THEN Elements(s)[m + 1]
                       ELSE [Elements(s)[m + 1] EXCEPT !.items = <<Meaning(SubSeq(s, i, m))>> \o @]
<1>1. PICK S : S = Elements(s)
  OBVIOUS
<1>2. S[i] = IF i > Len(s) \/ Ends(s, i) = {} THEN [stop |-> i, items |-> <<>>]
             ELSE IF IsSkipped(SubSeq(s, i, Max(Ends(s, i)))) THEN S[Max(Ends(s, i)) + 1]
             ELSE [S[Max(Ends(s, i)) + 1]
                     EXCEPT !.items = <<Meaning(SubSeq(s, i, Max(Ends(s, i))))>> \o @]
  BY <1>1, ElementsIs, Zenon
<1>3. i > Len(s) \/ Ends(s, i) = {} => S[i] = [stop |-> i, items |-> <<>>]
  BY <1>2, Zenon
<1>4. ASSUME NEW m \in i .. Len(s), LongestAt(s, i, m)
      PROVE  /\ m + 1 \in i + 1 .. Len(s) + 1
             /\ S[i] = IF IsSkipped(SubSeq(s, i, m)) THEN S[m + 1]
                       ELSE [S[m + 1] EXCEPT !.items = <<Meaning(SubSeq(s, i, m))>> \o @]
  <2>1. Len(s) \in Nat /\ i \in Nat /\ m \in Nat /\ ~(i > Len(s)) /\ m + 1 \in i + 1 .. Len(s) + 1
    BY DEF Text
  <2>2. Ends(s, i) \subseteq Nat
    BY <2>1 DEF Ends
  <2>3. Max(Ends(s, i)) = m /\ Ends(s, i) # {}
    BY <1>4, <2>2, MaxIs DEF LongestAt
  <2> QED BY <1>2, <2>1, <2>3, Zenon
<1> QED BY <1>1, <1>3, <1>4, Zenon

LEMMA ElementsType ==
  ASSUME NEW s \in Text, NEW i0 \in 1 .. Len(s) + 1
  PROVE  Elements(s)[i0] \in [stop : i0 .. Len(s) + 1, items : Seq(Meanings(s))]
<1>0. PICK N \in Nat : N = Len(s)
  BY DEF Text
<1>1. PICK M, S : M = Meanings(s) /\ S = Elements(s)
  OBVIOUS
<1> DEFINE Found(i) == [stop : i .. N + 1, items : Seq(M)]
           H == {n \in Nat : \A i \in 1 .. N + 1 : i + n >= N + 1 => S[i] \in Found(i)}
<1>2. ASSUME NEW i \in 1 .. N + 1, \A j \in i + 1 .. N + 1 : S[j] \in Found(j)
      PROVE  S[i] \in Found(i)
  <2>1. CASE i > N \/ Ends(s, i) = {}
    <3>1. S[i] = [stop |-> i, items |-> <<>>]
      BY <1>0, <1>1, <2>1, ElementsNext
    <3>2. i \in i .. N + 1
      OBVIOUS
    <3> QED BY <3>1, <3>2
  <2>2. CASE ~(i > N) /\ Ends(s, i) # {}
    <3>1. Ends(s, i) \subseteq i .. N
      BY <1>0 DEF Ends
    <3>2. Ends(s, i) \subseteq 0 .. N
      BY <3>1
    <3>3. PICK m \in Ends(s, i) : \A j \in Ends(s, i) : j <= m
      BY <2>2, <3>2, GreatestNat
    <3>4. m \in i .. N /\ LongestAt(s, i, m) /\ i \in 1 .. N /\ m \in 1 .. N /\ m + 1 \in i + 1 .. N + 1
      BY <2>2, <3>1, <3>3 DEF LongestAt
    <3>5. PICK x, t, later : x = Meaning(t) /\ t = SubSeq(s, i, m) /\ later = S[m + 1]
      OBVIOUS
    <3>6. x \in M
      BY <1>0, <1>1, <3>4, <3>5 DEF Meanings
    <3>7. later \in Found(m + 1)
      <4> HIDE DEF Found
      <4> QED BY <1>2, <3>4, <3>5
    <3>8. S[i] = IF IsSkipped(t) THEN later ELSE [later EXCEPT !.items = <<x>> \o @]
      <4>1. S[i] = IF IsSkipped(SubSeq(s, i, m)) THEN S[m + 1]
                   ELSE [S[m + 1] EXCEPT !.items = <<Meaning(SubSeq(s, i, m))>> \o @]
        BY <1>0, <1>1, <3>4, ElementsNext, Zenon
      <4> QED BY <3>5, <4>1
    <3>9. later \in Found(i)
      <4>1. m + 1 .. N + 1 \subseteq i .. N + 1
        BY <3>4
      <4> QED BY <3>7, <4>1
    <3>10. [later EXCEPT !.items = <<x>> \o @] \in Found(i)
      <4>1. PICK v : v = <<x>> \o later.items
        OBVIOUS
      <4>2. v \in Seq(M)
        BY <3>6, <3>9, <4>1
      <4>3. [later EXCEPT !.items = <<x>> \o @] = [later EXCEPT !.items = v]
        BY <4>1
      <4> QED BY <3>9, <4>2, <4>3
    <3> HIDE DEF Found
    <3> QED BY <3>8, <3>9, <3>10, Zenon
  <2> QED BY <2>1, <2>2
<1> HIDE DEF Found
<1>3. 0 \in H
  <2> SUFFICES ASSUME NEW i \in 1 .. N + 1, i + 0 >= N + 1 PROVE S[i] \in Found(i)
    OBVIOUS
  <2>1. i + 1 .. N + 1 = {}
    OBVIOUS
  <2> QED BY <1>2, <2>1
<1>4. ASSUME NEW n \in Nat, n \in H PROVE n + 1 \in H
  <2> SUFFICES ASSUME NEW i \in 1 .. N + 1, i + (n + 1) >= N + 1 PROVE S[i] \in Found(i)
    OBVIOUS
  <2>1. \A j \in i + 1 .. N + 1 : j \in 1 .. N + 1 /\ j + n >= N + 1
    OBVIOUS
  <2>2. \A j \in i + 1 .. N + 1 : S[j] \in Found(j)
    BY <1>4, <2>1
  <2> QED BY <1>2, <2>2
<1>5. Nat \subseteq H
  <2> HIDE DEF H
  <2> QED BY <1>3, <1>4, SetInduction
<1>6. i0 \in 1 .. N + 1 /\ N + 1 \in Nat /\ i0 + (N + 1) >= N + 1
  BY <1>0
<1>7. S[i0] \in Found(i0)
  BY <1>5, <1>6
<1> QED BY <1>0, <1>1, <1>7 DEF Found

\* Reading on behind the longest element, part by part.
LEMMA ElementsGoOn ==
  ASSUME NEW s \in Text, NEW i \in 1 .. Len(s), NEW m \in i .. Len(s), LongestAt(s, i, m)
  PROVE  /\ m + 1 \in i + 1 .. Len(s) + 1 /\ m + 1 \in 1 .. Len(s) + 1
         /\ Elements(s)[i].stop = Elements(s)[m + 1].stop
         /\ IsSkipped(SubSeq(s, i, m)) => Elements(s)[i].items = Elements(s)[m + 1].items
         /\ ~IsSkipped(SubSeq(s, i, m)) =>
              Elements(s)[i].items = <<Meaning(SubSeq(s, i, m))>> \o Elements(s)[m + 1].items
<1>1. m + 1 \in i + 1 .. Len(s) + 1 /\ m + 1 \in 1 .. Len(s) + 1 /\ i \in 1 .. Len(s) + 1
  BY DEF Text
<1>2. PICK S : S = Elements(s)
  OBVIOUS
<1>3. S[i] = IF IsSkipped(SubSeq(s, i, m)) THEN S[m + 1]
             ELSE [S[m + 1] EXCEPT !.items = <<Meaning(SubSeq(s, i, m))>> \o @]
  <2>1. \A k \in i .. Len(s) :
          LongestAt(s, i, k) =>
            S[i] = IF IsSkipped(SubSeq(s, i, k)) THEN S[k + 1]
                   ELSE [S[k + 1] EXCEPT !.items = <<Meaning(SubSeq(s, i, k))>> \o @]
    BY <1>1, <1>2, ElementsNext, Zenon
  <2> QED BY <2>1, Zenon
<1>4. PICK x, t, here, later : x = Meaning(t) /\ t = SubSeq(s, i, m) /\ here = S[i] /\ later = S[m + 1]
  OBVIOUS
<1>5. here = IF IsSkipped(t) THEN later ELSE [later EXCEPT !.items = <<x>> \o @]
  BY <1>3, <1>4
<1>6. later \in [stop : m + 1 .. Len(s) + 1, items : Seq(Meanings(s))]
  BY <1>1, <1>2, <1>4, ElementsType, Zenon
<1>7. ~IsSkipped(t) => here.stop = later.stop /\ here.items = <<x>> \o later.items
  <2>1. PICK v : v = <<x>> \o later.items
    OBVIOUS
  <2>2. ~IsSkipped(t) => here = [later EXCEPT !.items = v]
    BY <1>5, <2>1
  <2> QED BY <1>6, <2>1, <2>2
<1>8. IsSkipped(t) => here.stop = later.stop /\ here.items = later.items
  BY <1>5
<1> QED BY <1>1, <1>2, <1>4, <1>7, <1>8, Zenon

LEMMA OneElement ==
  ASSUME NEW T, NEW u \in Seq(T), Len(u) = 1
  PROVE  u = <<u[1]>>
<1>1. PICK c \in T : c = u[1]
  OBVIOUS
<1>2. PICK v : v = <<c>>
  OBVIOUS
<1>3. v \in Seq(T) /\ Len(v) = 1 /\ v[1] = c
  BY <1>2
<1>4. \A k \in 1 .. Len(u) : u[k] = v[k]
  BY <1>1, <1>3
<1> QED BY <1>1, <1>2, <1>3, <1>4, SeqEqual

\* Of what kind an element is, its first characters tell.
LEMMA MeaningAt ==
  ASSUME NEW s \in Text, NEW i \in 1 .. Len(s), NEW j \in i .. Len(s), NEW t, t = SubSeq(s, i, j)
  PROVE  /\ WordAt(s, i, j)   => ~IsSkipped(t) /\ Meaning(t) = <<KeywordType(t), t>>
         /\ NumberAt(s, i, j) => ~IsSkipped(t) /\ Meaning(t) = <<"NUMBER", t>>
         /\ StringAt(s, i, j) => ~IsSkipped(t) /\ Meaning(t) = <<"STRING", Unquoted(t)>>
         /\ SymbolAt(s, i, j) => ~IsSkipped(t) /\ Meaning(t) = <<s[i], <<s[i]>>>>
<1>1. Stretch(t, s, i, j)
  BY StretchOfText
<1>2. /\ IsWord(t) <=> WordAt(s, i, j)
      /\ IsNumber(t) <=> NumberAt(s, i, j)
      /\ IsSymbol(t) <=> SymbolAt(s, i, j)
      /\ IsString(t) <=> StringAt(s, i, j)
  BY <1>1, LexemesAt, StringsAt
<1>3. IsSkipped(t) <=> BlankAt(s, i, j) \/ LineCommentAt(s, i, j) \/ BlockCommentAt(s, i, j)
  BY <1>1, SkippedAt, Zenon DEF IsSkipped
<1>4. PICK c, d : c = s[i] /\ d = s[i + 1]
  OBVIOUS
<1>5. i \in i .. j /\ (i < j => i + 1 \in i + 1 .. j)
  BY DEF Text
<1>6. /\ BlankAt(s, i, j) => c \in Blank
      /\ LineCommentAt(s, i, j) => c = "-" /\ d = "-"
      /\ BlockCommentAt(s, i, j) => c = "/"
      /\ WordAt(s, i, j) => c \in Letter
      /\ NumberAt(s, i, j) => c \in Digit \/ (c = "-" /\ d \in Digit)
      /\ SymbolAt(s, i, j) => c \in Symbol
      /\ StringAt(s, i, j) => c = Quote
  BY <1>4, <1>5 DEF BlankAt, LineCommentAt, BlockCommentAt, WordAt, NumberAt, SymbolAt, StringAt
<1>7. /\ c \in Blank  => c \notin Letter \cup Digit \cup Symbol \cup {Quote, "-", "/"}
      /\ c \in Letter => c \notin Digit \cup Symbol \cup {Quote, "-", "/"}
      /\ c \in Digit  => c \notin Symbol \cup {Quote, "-", "/"}
      /\ c \in Symbol => c \notin {Quote, "-", "/"}
      /\ d \in Digit  => d # "-"
      /\ c = "-" => c # "/" /\ c # Quote
      /\ c = "/" => c # Quote
  BY CharacterKinds DEF Quote
<1>8. /\ WordAt(s, i, j)   => ~NumberAt(s, i, j) /\ ~StringAt(s, i, j) /\ ~SymbolAt(s, i, j)
      /\ NumberAt(s, i, j) => ~StringAt(s, i, j) /\ ~SymbolAt(s, i, j)
      /\ StringAt(s, i, j) => ~SymbolAt(s, i, j)
  BY <1>6, <1>7
<1>9. WordAt(s, i, j) \/ NumberAt(s, i, j) \/ StringAt(s, i, j) \/ SymbolAt(s, i, j) => ~IsSkipped(t)
  BY <1>3, <1>6, <1>7
<1>10. Meaning(t) = CASE IsString(t) -> <<"STRING", Unquoted(t)>>
                      [] IsNumber(t) -> <<"NUMBER", t>>
                      [] IsSymbol(t) -> <<t[1], t>>
                      [] IsWord(t)   -> <<KeywordType(t), t>>
  BY DEF Meaning, KeywordType, Reserved
<1>11. SymbolAt(s, i, j) => t[1] = s[i] /\ t = <<s[i]>>
  <2>1. SymbolAt(s, i, j) => t \in Seq(Char) /\ Len(t) = 1 /\ t[1] = s[i]
    BY <1>1, StretchIndices DEF SymbolAt
  <2> QED BY <2>1, OneElement
<1>12. PICK u : u = Unquoted(t)
  OBVIOUS
<1> QED BY <1>2, <1>8, <1>9, <1>10, <1>11

-----------------------------------------------------------------------------
(* What the tokenizer has read.                                            *)

Said == [k \in DOMAIN tokens |-> <<tokens[k].type, tokens[k].lexeme>>]

\* The elements of the text are those that have been read, and then those of the
\* rest; at the end nothing is left.
ReadSoFar ==
  /\ \A k \in DOMAIN tokens : tokens[k].type # "END"
  /\ Elements(source)[1].items = Said \o Elements(source)[index].items
  /\ Elements(source)[1].stop = Elements(source)[index].stop

ReadAll ==
  LET found == Elements(source)[1]
      read  == IF Tokenized THEN Front(tokens) ELSE tokens
  IN  /\ [k \in DOMAIN read |-> <<read[k].type, read[k].lexeme>>] = found.items
      /\ Tokenized <=> found.stop > Len(source)
      /\ index = found.stop

ReadInv == IF phase = "tokenize" THEN ReadSoFar ELSE ReadAll

LEMMA SaidType ==
  ASSUME TokenizerTypeOK
  PROVE  Said \in Seq(TokenType \X Text) /\ Len(Said) = Len(tokens)
<1>1. Len(tokens) \in Nat /\ DOMAIN tokens = 1 .. Len(tokens)
      /\ \A k \in 1 .. Len(tokens) : tokens[k] \in Token
  BY DEF TokenizerTypeOK
<1>2. \A k \in 1 .. Len(tokens) : <<tokens[k].type, tokens[k].lexeme>> \in TokenType \X Text
  BY <1>1 DEF Token
<1>3. PICK S, V : S = Said /\ V = TokenType \X Text
  OBVIOUS
<1>4. /\ S = [k \in 1 .. Len(tokens) |-> S[k]]
      /\ \A k \in 1 .. Len(tokens) : S[k] \in V
  BY <1>1, <1>2, <1>3 DEF Said
<1>5. S \in Seq(V) /\ Len(S) = Len(tokens)
  BY <1>1, <1>4, IsSequence
<1> QED BY <1>3, <1>5

LEMMA SaidNext ==
  ASSUME TokenizerTypeOK, NEW type \in TokenType, NEW lexeme \in Text, AddToken(type, lexeme)
  PROVE  /\ Said' = Append(Said, <<type, lexeme>>)
         /\ tokens' # <<>> /\ Last(tokens').type = type /\ Front(tokens') = tokens
         /\ DOMAIN tokens' = DOMAIN tokens \cup {Len(tokens) + 1}
         /\ \A k \in DOMAIN tokens : tokens'[k] = tokens[k]
         /\ tokens'[Len(tokens) + 1].type = type
<1>1. PICK token : token = [type |-> type, lexeme |-> lexeme, line |-> line,
                            column |-> column, start |-> index]
  OBVIOUS
<1>2. token.type = type /\ token.lexeme = lexeme /\ token \in Token
  BY <1>1 DEF TokenizerTypeOK, Token
<1>3. tokens' = Append(tokens, token) /\ tokens \in Seq(Token)
  BY <1>1 DEF AddToken, TokenizerTypeOK
<1>4. /\ Len(tokens') = Len(tokens) + 1 /\ Len(tokens) \in Nat /\ tokens' \in Seq(Token)
      /\ \A k \in 1 .. Len(tokens) : tokens'[k] = tokens[k]
      /\ tokens'[Len(tokens) + 1] = token
      /\ DOMAIN tokens = 1 .. Len(tokens) /\ DOMAIN tokens' = 1 .. Len(tokens) + 1
  BY <1>2, <1>3
<1>5. Last(tokens') = token /\ tokens' # <<>> /\ DOMAIN tokens' = DOMAIN tokens \cup {Len(tokens) + 1}
  BY <1>4 DEF Last
<1>6. Front(tokens') = tokens
  <2>1. ASSUME NEW T, NEW ss \in Seq(T), NEW x \in T PROVE SubSeq(Append(ss, x), 1, Len(Append(ss, x)) - 1) = ss
    <3>1. PICK tt, u : tt = Append(ss, x) /\ u = SubSeq(tt, 1, Len(ss))
      OBVIOUS
    <3>2. tt \in Seq(T) /\ Len(ss) \in Nat /\ Len(tt) = Len(ss) + 1 /\ \A k \in 1 .. Len(ss) : tt[k] = ss[k]
      BY <3>1
    <3>3. 1 \in 1 .. Len(tt) + 1 /\ Len(ss) \in 1 - 1 .. Len(tt)
      BY <3>2
    <3>4. /\ u \in Seq(T) /\ Len(u) = Len(ss) - 1 + 1
          /\ \A k \in 1 .. Len(ss) - 1 + 1 : u[k] = tt[1 + k - 1]
      BY <3>1, <3>2, <3>3, StretchIs
    <3>5. Len(u) = Len(ss) /\ \A k \in 1 .. Len(u) : u[k] = ss[k]
      BY <3>2, <3>4
    <3>6. u = ss
      BY <3>4, <3>5, SeqEqual
    <3>7. Len(Append(ss, x)) - 1 = Len(ss)
      BY <3>1, <3>2
    <3> QED BY <3>1, <3>6, <3>7
  <2> QED BY <1>2, <1>3, <2>1 DEF Front
<1>7. Said' = Append(Said, <<type, lexeme>>)
  <2>1. PICK S, V, x : S = Said /\ V = TokenType \X Text /\ x = <<type, lexeme>>
    OBVIOUS
  <2>2. S \in Seq(V) /\ Len(S) = Len(tokens) /\ x \in V
    BY <2>1, SaidType
  <2>3. PICK f : f = Said'
    OBVIOUS
  <2>4. f = [k \in 1 .. Len(tokens) + 1 |-> <<tokens'[k].type, tokens'[k].lexeme>>]
    BY <1>4, <2>3 DEF Said
  <2>5. ASSUME NEW k \in 1 .. Len(tokens) PROVE f[k] = S[k] /\ S[k] \in V
    <3>1. S[k] = <<tokens[k].type, tokens[k].lexeme>> /\ k \in 1 .. Len(tokens) + 1
      BY <1>4, <2>1 DEF Said
    <3>2. f[k] = <<tokens'[k].type, tokens'[k].lexeme>> /\ tokens'[k] = tokens[k]
      BY <1>4, <2>4, <3>1
    <3>3. S[k] \in V
      BY <1>4, <2>2
    <3> QED BY <3>1, <3>2, <3>3
  <2>6. f[Len(tokens) + 1] = x
    <3>1. Len(tokens) + 1 \in 1 .. Len(tokens) + 1
      BY <1>4
    <3> QED BY <1>2, <1>4, <2>1, <2>4, <3>1
  <2>7. f \in Seq(V) /\ Len(f) = Len(tokens) + 1
    <3>1. PICK n \in Nat : n = Len(tokens) + 1
      BY <1>4
    <3>2. f = [k \in 1 .. n |-> f[k]]
      BY <2>4, <3>1
    <3>3. \A k \in 1 .. n : k \in 1 .. Len(tokens) \/ k = Len(tokens) + 1
      BY <1>4, <3>1
    <3>4. \A k \in 1 .. n : f[k] \in V
      BY <2>2, <2>5, <2>6, <3>3
    <3> QED BY <3>1, <3>2, <3>4, IsSequence
  <2>8. f = Append(S, x)
    BY <2>2, <2>5, <2>6, <2>7, IsAppend
  <2> QED BY <2>1, <2>3, <2>8
<1> QED BY <1>2, <1>4, <1>5, <1>6, <1>7

LEMMA ConsConcat ==
  ASSUME NEW T, NEW a \in Seq(T), NEW x \in T, NEW b \in Seq(T)
  PROVE  a \o (<<x>> \o b) = Append(a, x) \o b /\ a \o <<>> = a
  OBVIOUS

\* The tokenizer takes the longest element.
LEMMA ReadsToken ==
  ASSUME TokenizerTypeOK, ReadInv, phase = "tokenize", UNCHANGED <<source, phase>>,
         index \in 1 .. Len(source), NEW m \in index .. Len(source), LongestAt(source, index, m),
         ~IsSkipped(SubSeq(source, index, m)), index' = m + 1,
         NEW type \in TokenType, NEW lexeme \in Text, type # "END",
         Meaning(SubSeq(source, index, m)) = <<type, lexeme>>, AddToken(type, lexeme)
  PROVE  ReadInv'
<1>1. ReadSoFar /\ source \in Text /\ 1 \in 1 .. Len(source) + 1
  BY DEF ReadInv, TokenizerTypeOK
<1>2. /\ Said' = Append(Said, <<type, lexeme>>)
      /\ DOMAIN tokens' = DOMAIN tokens \cup {Len(tokens) + 1}
      /\ \A k \in DOMAIN tokens : tokens'[k] = tokens[k]
      /\ tokens'[Len(tokens) + 1].type = type
  BY SaidNext
<1>3. \A k \in DOMAIN tokens' : tokens'[k].type # "END"
  BY <1>1, <1>2 DEF ReadSoFar
<1>4. PICK E, M : E = Elements(source) /\ M = Meanings(source)
  OBVIOUS
<1>5. Elements(source)' = E
  BY <1>4
<1>6. /\ m + 1 \in 1 .. Len(source) + 1
      /\ E[index].stop = E[m + 1].stop
      /\ E[index].items = <<<<type, lexeme>>>> \o E[m + 1].items
  BY <1>1, <1>4, ElementsGoOn
<1>7. E[m + 1].items \in Seq(M)
  <2>1. PICK r : r = E[m + 1]
    OBVIOUS
  <2>2. r \in [stop : m + 1 .. Len(source) + 1, items : Seq(M)]
    BY <1>1, <1>4, <1>6, <2>1, ElementsType, Zenon
  <2> QED BY <2>1, <2>2
<1>8. PICK T : T = (TokenType \X Text) \cup M
  OBVIOUS
<1>9. PICK S, x, i : S = Said /\ x = <<type, lexeme>> /\ i = E[m + 1].items
  OBVIOUS
<1>10. S \in Seq(T) /\ i \in Seq(T) /\ x \in T
  <2>1. TokenType \X Text \subseteq T /\ M \subseteq T /\ x \in T
    BY <1>8, <1>9
  <2>2. S \in Seq(TokenType \X Text)
    BY <1>9, SaidType
  <2>3. i \in Seq(M)
    BY <1>7, <1>9
  <2> QED BY <2>1, <2>2, <2>3, SeqSubset
<1>11. S \o (<<x>> \o i) = Append(S, x) \o i
  BY <1>10, ConsConcat, SMTT(20)
<1>12. E[1].items = S \o (<<x>> \o i) /\ E[1].stop = E[m + 1].stop
  BY <1>1, <1>4, <1>6, <1>9, Zenon DEF ReadSoFar
<1>13. ReadSoFar'
  BY <1>2, <1>3, <1>4, <1>5, <1>9, <1>11, <1>12, Zenon DEF ReadSoFar
<1> QED BY <1>13 DEF ReadInv

\* It skips what is no token.
LEMMA ReadsOn ==
  ASSUME TokenizerTypeOK, ReadInv, phase = "tokenize", UNCHANGED <<source, phase, tokens>>,
         index \in 1 .. Len(source), NEW m \in index .. Len(source), LongestAt(source, index, m),
         IsSkipped(SubSeq(source, index, m)), index' = m + 1
  PROVE  ReadInv'
<1>1. ReadSoFar /\ source \in Text
  BY DEF ReadInv, TokenizerTypeOK
<1>2. /\ Elements(source)[index].stop = Elements(source)[m + 1].stop
      /\ Elements(source)[index].items = Elements(source)[m + 1].items
  BY <1>1, ElementsGoOn
<1>3. Said' = Said /\ Elements(source)' = Elements(source)
  BY DEF Said
<1>4. ReadSoFar'
  BY <1>1, <1>2, <1>3, Zenon DEF ReadSoFar
<1> QED BY <1>4 DEF ReadInv

\* It fails where no element starts.
LEMMA ReadsNoFurther ==
  ASSUME TokenizerTypeOK, ReadInv, phase = "tokenize", UNCHANGED source,
         index \in 1 .. Len(source), Ends(source, index) = {}, NEW position, TokenizerFails(position)
  PROVE  ReadInv'
<1>1. ReadSoFar /\ source \in Text /\ index \in 1 .. Len(source) + 1 /\ Len(source) \in Nat
  BY DEF ReadInv, TokenizerTypeOK, Text
<1>2. Elements(source)[index] = [stop |-> index, items |-> <<>>]
  BY <1>1, ElementsNext
<1>3. UNCHANGED <<tokens, index>> /\ phase' = "failed"
  BY DEF TokenizerFails
<1>4. ~Tokenized
  <2>1. tokens # <<>> => Len(tokens) \in DOMAIN tokens
    BY DEF TokenizerTypeOK
  <2> QED BY <1>1, <2>1 DEF ReadSoFar, Tokenized, Last
<1>5. PICK S : S = Said
  OBVIOUS
<1>6. S \o <<>> = S
  <2>1. PICK V : V = TokenType \X Text
    OBVIOUS
  <2>2. S \in Seq(V)
    BY <1>5, <2>1, SaidType
  <2> QED BY <2>2
<1>7. Elements(source)[1].items = Said /\ Elements(source)[1].stop = index
  BY <1>1, <1>2, <1>5, <1>6 DEF ReadSoFar
<1>8. ~(index > Len(source))
  BY <1>1
<1>9. ReadAll
  BY <1>4, <1>7, <1>8 DEF ReadAll, Said
<1>10. ReadAll' <=> ReadAll
  BY <1>3 DEF ReadAll, Tokenized
<1> QED BY <1>3, <1>9, <1>10 DEF ReadInv

\* It has read everything at the end of the text.
LEMMA ReadsToTheEnd ==
  ASSUME TokenizerTypeOK, ReadInv, EndOfInput
  PROVE  ReadInv'
<1>1. /\ phase = "tokenize" /\ source' = source /\ index > Len(source) /\ AddToken("END", <<>>)
      /\ phase' = "parse" /\ index' = index
  BY DEF EndOfInput, Tokenizing
<1>2. ReadSoFar /\ source \in Text /\ index \in 1 .. Len(source) + 1 /\ Len(source) \in Nat
  BY <1>1 DEF ReadInv, TokenizerTypeOK, Text
<1>3. Elements(source)[index] = [stop |-> index, items |-> <<>>]
  BY <1>1, <1>2, ElementsNext
<1>4. tokens' # <<>> /\ Last(tokens').type = "END" /\ Front(tokens') = tokens
  <2>1. "END" \in TokenType /\ <<>> \in Text
    BY DEF TokenType, Text
  <2> QED BY <1>1, <2>1, SaidNext
<1>5. PICK S : S = Said
  OBVIOUS
<1>6. S \o <<>> = S
  <2>1. PICK V : V = TokenType \X Text
    OBVIOUS
  <2>2. S \in Seq(V)
    BY <1>5, <2>1, SaidType
  <2> QED BY <2>2
<1>7. Elements(source)[1].items = Said /\ Elements(source)[1].stop = index
  BY <1>2, <1>3, <1>5, <1>6 DEF ReadSoFar
<1>8. Tokenized'
  BY <1>4 DEF Tokenized
<1>9. ReadAll'
  BY <1>1, <1>4, <1>7, <1>8 DEF ReadAll, Said
<1> QED BY <1>1, <1>9 DEF ReadInv

LEMMA WordIsNoEnd ==
  ASSUME NEW lexeme
  PROVE  KeywordType(lexeme) # "END"
<1> DEFINE words == {w \in DOMAIN Keyword : SameName(lexeme, w)}
<1>1. CASE words = {}
  BY <1>1 DEF KeywordType
<1>2. CASE words # {}
  <2>1. (CHOOSE w \in words : TRUE) \in DOMAIN Keyword
    BY <1>2
  <2>2. KeywordType(lexeme) = Keyword[CHOOSE w \in words : TRUE]
    BY <1>2 DEF KeywordType
  <2> HIDE DEF words
  <2> QED BY <2>1, <2>2, SourceAssumption
<1> QED BY <1>1, <1>2

LEMMA TokenizeReads ==
  ASSUME TokenizerTypeOK, ReadInv, Tokenize
  PROVE  ReadInv'
<1>1. phase = "tokenize" /\ source' = source
  BY DEF Tokenize, SkipNewline, SkipBlank, LineComment, BlockComment, UnterminatedComment, Word,
         Number, StringLiteral, UnterminatedString, SymbolToken, UnexpectedCharacter, EndOfInput,
         Tokenizing
<1>2. source \in Text /\ Len(source) \in Nat /\ index \in Nat \ {0} /\ index \in 1 .. Len(source) + 1
  BY DEF TokenizerTypeOK, Text
<1>3. At(index) # NUL => /\ index \in 1 .. Len(source) /\ index \in index .. Len(source)
                         /\ At(index) = source[index] /\ source[index] \in Char
  <2>1. index <= Len(source) => At(index) = source[index] /\ source[index] \in Char
    BY <1>2, AtIs
  <2>2. index > Len(source) => At(index) = NUL
    BY <1>2, AtIs
  <2> QED BY <1>2, <2>1, <2>2
<1>4. NUL \notin Char \cup Letter \cup Digit \cup Blank \cup Symbol \cup {Quote, "-", "/", "*"}
  BY <1>2, AtIs
<1>5. ASSUME NEW m \in index .. Len(source), index \in 1 .. Len(source), LongestAt(source, index, m)
      PROVE  IsSkipped(SubSeq(source, index, m))
               <=> BlankAt(source, index, m) \/ LineCommentAt(source, index, m)
                   \/ BlockCommentAt(source, index, m)
  BY <1>2, EndsAt
<1>10. CASE SkipNewline \/ SkipBlank
  <2>1. At(index) \in Blank /\ index' = index + 1 /\ UNCHANGED <<phase, tokens>>
    BY <1>10, SourceAssumption DEF SkipNewline, SkipBlank, MoveTo
  <2>2. At(index) # NUL
    BY <1>4, <2>1
  <2>3. LongestAt(source, index, index)
    BY <1>2, <1>3, <2>1, <2>2, OneCharacter
  <2>4. BlankAt(source, index, index)
    BY <1>3, <2>1, <2>2 DEF BlankAt
  <2> QED BY <1>1, <1>3, <1>5, <2>1, <2>2, <2>3, <2>4, ReadsOn
<1>11. CASE LineComment
  <2>1. PICK e : e = SpanEnd(index + 2, Char \ {LF})
    OBVIOUS
  <2>2. At(index) = "-" /\ At(index + 1) = "-" /\ index' = e /\ UNCHANGED <<phase, tokens>>
    BY <1>11, <2>1 DEF LineComment, StartsLineComment, MoveTo
  <2>3. index \in 1 .. Len(source)
    BY <1>3, <1>4, <2>2
  <2>4. e - 1 \in index .. Len(source) /\ LongestAt(source, index, e - 1)
        /\ LineCommentAt(source, index, e - 1)
    BY <1>2, <2>1, <2>2, <2>3, LongestLineComment
  <2>5. PICK m : m = e - 1
    OBVIOUS
  <2>6. index' = m + 1
    <3>1. m \in Nat /\ e \in Nat
      <4>1. e \in index + 2 .. Len(source) + 1
        <5>1. index + 2 \in 1 .. Len(source) + 1
          BY <1>2, <1>4, <2>2, AtIs
        <5> QED BY <1>2, <1>4, <5>1, RunOfText, <2>1
      <4> QED BY <1>2, <2>4, <2>5, <4>1
    <3> QED BY <2>2, <2>5, <3>1
  <2> QED BY <1>1, <1>5, <2>2, <2>3, <2>4, <2>5, <2>6, ReadsOn
<1>12. CASE BlockComment
  <2>1. PICK l : l = Min(CommentEnds)
    OBVIOUS
  <2>2. /\ At(index) = "/" /\ At(index + 1) = "*" /\ CommentEnds # {} /\ index' = l + 2
        /\ UNCHANGED <<phase, tokens>>
    BY <1>12, <2>1 DEF BlockComment, StartsBlockComment
  <2>3. index \in 1 .. Len(source)
    BY <1>3, <1>4, <2>2
  <2>4. l + 1 \in index .. Len(source) /\ LongestAt(source, index, l + 1)
        /\ BlockCommentAt(source, index, l + 1)
    BY <1>2, <2>1, <2>2, <2>3, LongestBlockComment
  <2>5. l + 2 = (l + 1) + 1
    <3>1. CommentEnds \subseteq Nat
      BY <1>2 DEF CommentEnds
    <3>2. PICK x \in CommentEnds : \A y \in CommentEnds : x <= y
      BY <2>2, <3>1, LeastNat
    <3>3. l \in CommentEnds
      BY <2>1, <3>2 DEF Min
    <3> QED BY <3>1, <3>3
  <2> QED BY <1>1, <1>5, <2>2, <2>3, <2>4, <2>5, ReadsOn
<1>13. CASE UnterminatedComment
  <2>1. /\ At(index) = "/" /\ At(index + 1) = "*" /\ CommentEnds = {}
        /\ TokenizerFails(NoPosition)
    BY <1>13 DEF UnterminatedComment, StartsBlockComment
  <2>2. index \in 1 .. Len(source)
    BY <1>3, <1>4, <2>1
  <2>3. Ends(source, index) = {}
    BY <1>2, <2>1, <2>2, LongestBlockComment
  <2> QED BY <1>1, <2>1, <2>2, <2>3, ReadsNoFurther
<1>14. CASE Word
  <2>1. PICK e, t : e = SpanEnd(index, Letter \cup Digit) /\ t = SubSeq(source, index, e - 1)
    OBVIOUS
  <2>2. At(index) \in Letter /\ AddToken(KeywordType(t), t) /\ index' = e /\ phase' = phase
    BY <1>14, <2>1 DEF Word, MoveTo
  <2>3. index \in 1 .. Len(source)
    BY <1>3, <1>4, <2>2
  <2>4. e - 1 \in index .. Len(source) /\ LongestAt(source, index, e - 1)
        /\ WordAt(source, index, e - 1)
    BY <1>2, <2>1, <2>2, <2>3, LongestWord
  <2>5. e \in index .. Len(source) + 1 /\ e = (e - 1) + 1
    <3>1. e \in index .. Len(source) + 1
      BY <1>2, <1>4, <2>1, RunOfText
    <3> QED BY <1>2, <3>1
  <2>6. t \in Text /\ KeywordType(t) \in TokenType /\ KeywordType(t) # "END"
    <3>1. t \in Text
      BY <1>2, <2>1, <2>3, <2>4, StretchOfText DEF Stretch
    <3> QED BY <3>1, KeywordTypeType, WordIsNoEnd
  <2>7. ~IsSkipped(t) /\ Meaning(t) = <<KeywordType(t), t>>
    BY <1>2, <2>1, <2>3, <2>4, MeaningAt
  <2> QED BY <1>1, <2>1, <2>2, <2>3, <2>4, <2>5, <2>6, <2>7, ReadsToken
<1>15. CASE Number
  <2>1. PICK e, t : e = SpanEnd(index + 1, Digit) /\ t = SubSeq(source, index, e - 1)
    OBVIOUS
  <2>2. /\ At(index) \in Digit \/ (At(index) = "-" /\ At(index + 1) \in Digit)
        /\ AddToken("NUMBER", t) /\ index' = e /\ phase' = phase
    BY <1>15, <2>1 DEF Number, StartsNumber, MoveTo
  <2>3. index \in 1 .. Len(source)
    BY <1>3, <1>4, <2>2
  <2>4. e - 1 \in index .. Len(source) /\ LongestAt(source, index, e - 1)
        /\ NumberAt(source, index, e - 1)
    BY <1>2, <2>1, <2>2, <2>3, LongestNumber
  <2>5. e \in index + 1 .. Len(source) + 1 /\ e = (e - 1) + 1
    <3>1. index + 1 \in 1 .. Len(source) + 1
      BY <1>2, <2>3
    <3>2. e \in index + 1 .. Len(source) + 1
      BY <1>2, <1>4, <2>1, <3>1, RunOfText
    <3> QED BY <1>2, <3>2
  <2>6. t \in Text /\ "NUMBER" \in TokenType
    BY <1>2, <2>1, <2>3, <2>4, StretchOfText DEF Stretch, TokenType
  <2>7. ~IsSkipped(t) /\ Meaning(t) = <<"NUMBER", t>>
    BY <1>2, <2>1, <2>3, <2>4, MeaningAt
  <2> QED BY <1>1, <2>1, <2>2, <2>3, <2>4, <2>5, <2>6, <2>7, ReadsToken
<1>16. CASE StringLiteral
  <2>1. PICK c, v, t : /\ c = StringFrom[index + 1].close /\ v = StringFrom[index + 1].value
                       /\ t = SubSeq(source, index, c)
    OBVIOUS
  <2>2. At(index) = Quote /\ c # 0 /\ AddToken("STRING", v) /\ index' = c + 1 /\ phase' = phase
    BY <1>16, <2>1 DEF StringLiteral, MoveTo
  <2>3. index \in 1 .. Len(source)
    BY <1>3, <1>4, <2>2
  <2>4. c \in index + 1 .. Len(source) /\ LongestAt(source, index, c) /\ Closes(source, index, c)
        /\ v = Unquoted(t)
    BY <1>2, <2>1, <2>2, <2>3, LongestString
  <2>5. c \in index .. Len(source)
    BY <1>2, <2>4
  <2>6. v \in Text /\ "STRING" \in TokenType
    <3>1. index + 1 \in 1 .. Len(source) + 1
      BY <1>2, <2>3
    <3> QED BY <1>2, <2>1, <3>1, StringFromType DEF TokenType
  <2>7. ~IsSkipped(t) /\ Meaning(t) = <<"STRING", v>>
    <3>1. StringAt(source, index, c)
      BY <2>4 DEF Closes
    <3>2. ~IsSkipped(t) /\ Meaning(t) = <<"STRING", Unquoted(t)>>
      BY <1>2, <2>1, <2>3, <2>5, <3>1, MeaningAt
    <3> QED BY <2>4, <3>2
  <2> QED BY <1>1, <2>1, <2>2, <2>3, <2>4, <2>5, <2>6, <2>7, ReadsToken
<1>17. CASE UnterminatedString
  <2>1. PICK position : position = <<line, column>>
    OBVIOUS
  <2>2. At(index) = Quote /\ StringFrom[index + 1].close = 0 /\ TokenizerFails(position)
    BY <1>17, <2>1 DEF UnterminatedString
  <2>3. index \in 1 .. Len(source)
    BY <1>3, <1>4, <2>2
  <2>4. Ends(source, index) = {}
    BY <1>2, <2>2, <2>3, LongestString
  <2> QED BY <1>1, <2>2, <2>3, <2>4, ReadsNoFurther
<1>18. CASE SymbolToken
  <2>1. PICK c, t : c = At(index) /\ t = SubSeq(source, index, index)
    OBVIOUS
  <2>2. c \in Symbol /\ AddToken(c, <<c>>) /\ index' = index + 1 /\ phase' = phase
    BY <1>18, <2>1 DEF SymbolToken, MoveTo
  <2>3. index \in 1 .. Len(source) /\ index \in index .. Len(source) /\ c = source[index] /\ c \in Char
    BY <1>3, <1>4, <2>1, <2>2
  <2>4. LongestAt(source, index, index)
    BY <1>2, <2>2, <2>3, OneCharacter
  <2>5. SymbolAt(source, index, index)
    BY <2>2, <2>3 DEF SymbolAt
  <2>6. ~IsSkipped(t) /\ Meaning(t) = <<c, <<c>>>>
    <3>1. ~IsSkipped(t) /\ Meaning(t) = <<source[index], <<source[index]>>>>
      BY <1>2, <2>1, <2>3, <2>5, MeaningAt, Zenon
    <3> QED BY <2>3, <3>1
  <2>7. <<c>> \in Text /\ c \in TokenType /\ c # "END"
    <3>1. <<c>> \in Seq(Char)
      BY <2>3
    <3> QED BY <2>2, <3>1 DEF Text, TokenType, Symbol
  <2> QED BY <1>1, <2>1, <2>2, <2>3, <2>4, <2>6, <2>7, ReadsToken
<1>19. CASE UnexpectedCharacter
  <2>1. PICK position : position = <<line, column>>
    OBVIOUS
  <2>2. /\ index <= Len(source) /\ At(index) \notin Blank \cup Letter \cup Symbol \cup {Quote}
        /\ ~(At(index) = "-" /\ At(index + 1) = "-") /\ ~(At(index) = "/" /\ At(index + 1) = "*")
        /\ At(index) \notin Digit /\ ~(At(index) = "-" /\ At(index + 1) \in Digit)
        /\ TokenizerFails(position)
    BY <1>19, <2>1 DEF UnexpectedCharacter, StartsLineComment, StartsBlockComment, StartsNumber
  <2>3. /\ index \in 1 .. Len(source) /\ At(index) = source[index]
        /\ index < Len(source) => At(index + 1) = source[index + 1]
    <3>1. index + 1 \in Nat \ {0} /\ (index < Len(source) => index + 1 <= Len(source))
      BY <1>2
    <3> QED BY <1>2, <2>2, <3>1, AtIs
  <2>4. ASSUME NEW j \in index .. Len(source) PROVE j \notin Ends(source, index)
    BY <1>2, <2>2, <2>3, EndsByKind
  <2>5. Ends(source, index) = {}
    <3>1. Ends(source, index) \subseteq index .. Len(source)
      BY DEF Ends
    <3> QED BY <2>4, <3>1
  <2> QED BY <1>1, <2>2, <2>3, <2>5, ReadsNoFurther
<1> QED BY <1>10, <1>11, <1>12, <1>13, <1>14, <1>15, <1>16, <1>17, <1>18, <1>19, ReadsToTheEnd
        DEF Tokenize

\* The parser leaves what has been read as it is.
LEMMA ParseReads ==
  ASSUME ReadInv, Parse
  PROVE  ReadInv'
<1>1. phase = "parse" /\ UNCHANGED <<tokens, source, index>> /\ phase' \in {"parse", "done", "failed"}
  BY DEF Parse, SkipSemicolon, BeginInsert, BeginSelect, EndStatement, EndOfScript, SyntaxError,
         Consume, TableName, QualifiedName, AllColumns, ColumnName, Value, Where, WhereColumn,
         WhereValue, Parsing, tvars
<1>2. ReadAll' <=> ReadAll
  BY <1>1 DEF ReadAll, Tokenized
<1> QED BY <1>1, <1>2 DEF ReadInv

LEMMA ReadStarts == ParserInit => ReadInv
<1> SUFFICES ASSUME ParserInit PROVE ReadInv
  OBVIOUS
<1>1. tokens = <<>> /\ index = 1 /\ phase = "tokenize" /\ source \in Text
  BY SourceAssumption DEF ParserInit, TokenizerInit
<1>2. Said = <<>>
  BY <1>1 DEF Said
<1>3. PICK r : r = Elements(source)[1]
  OBVIOUS
<1>4. <<>> \o r.items = r.items
  <2>1. 1 \in 1 .. Len(source) + 1
    BY <1>1 DEF Text
  <2>2. PICK M, N : M = Meanings(source) /\ N = 1 .. Len(source) + 1
    OBVIOUS
  <2>3. r \in [stop : N, items : Seq(M)]
    BY <1>1, <1>3, <2>1, <2>2, ElementsType, Zenon
  <2> QED BY <2>3
<1>5. ReadSoFar
  BY <1>1, <1>2, <1>3, <1>4 DEF ReadSoFar
<1> QED BY <1>1, <1>5 DEF ReadInv

LEMMA ReadGoesOn == ParserInv /\ ReadInv /\ [ParserNext]_pvars => ReadInv'
<1>1. ReadInv /\ UNCHANGED pvars => ReadInv'
  <2> SUFFICES ASSUME ReadInv, UNCHANGED pvars PROVE ReadInv'
    OBVIOUS
  <2>1. UNCHANGED <<source, index, tokens, phase>>
    BY DEF pvars, tvars
  <2>2. (ReadAll' <=> ReadAll) /\ (ReadSoFar' <=> ReadSoFar)
    BY <2>1 DEF ReadAll, ReadSoFar, Tokenized, Said
  <2> QED BY <2>1, <2>2 DEF ReadInv
<1> QED BY <1>1, ParseReads, TokenizeReads DEF ParserNext, ParserInv

\* tokenize_sql takes the longest element at each position, skips what is none,
\* and fails exactly where no element starts, whatever the text (parser.c:215-387).
THEOREM LongestElements == ParserSpec => []LongestMatch
<1>1. ParserInit => ParserInv /\ ReadInv
  BY ParserStarts, ReadStarts
<1>2. ParserInv /\ ReadInv /\ [ParserNext]_pvars => (ParserInv /\ ReadInv)'
  BY ParserGoesOn, ReadGoesOn
<1>3. ReadInv => LongestMatch
  BY DEF ReadInv, ReadAll, LongestMatch
<1> QED BY <1>1, <1>2, <1>3, PTL DEF ParserSpec
=============================================================================
