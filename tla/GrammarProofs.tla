--------------------------- MODULE GrammarProofs ---------------------------
(***************************************************************************)
(* The parser accepts the grammar and nothing else, and complains about    *)
(* the first token that no legal script could have there, for texts of     *)
(* every length.                                                           *)
(*                                                                         *)
(* The invariant says for each rule what the parser has read of the        *)
(* statement: its lists so far are those of the statement under            *)
(* construction.  From there every legal statement that begins like this   *)
(* one goes on with a token that the rule accepts (MustGoOn), so an error  *)
(* is one for every way to go on; and the rest of an example completes     *)
(* what has been read (BeginsInside), so nothing before was an error.      *)
(***************************************************************************)
EXTENDS ParserGrammar, ParserProofs

-----------------------------------------------------------------------------
(* Lists.                                                                  *)

Separator == ","

\* m items after the i-th token, each with a comma behind it.
Begun(ts, i, m, types) ==
  \A k \in 1 .. m : ts[i + 2 * k - 1].type \in types /\ ts[i + 2 * k].type = Separator

LEMMA NothingBegun ==
  ASSUME NEW ts, NEW i, NEW types
  PROVE  Begun(ts, i, 0, types)
<1>1. 1 .. 0 = {}
  OBVIOUS
<1> QED BY <1>1 DEF Begun

\* One item more, at the end of the list or with a comma behind it.
LEMMA ListGrows ==
  ASSUME NEW ts, NEW i \in Nat, NEW m \in Nat, NEW types, Begun(ts, i, m, types),
         ts[i + 2 * m + 1].type \in types
  PROVE  /\ IsCommaList(ts, i, m + 1, types)
         /\ ts[i + 2 * m + 2].type = Separator => Begun(ts, i, m + 1, types)
<1>1. ASSUME NEW k \in 1 .. m + 1
      PROVE  /\ ts[i + 2 * k - 1].type \in types
             /\ k < m + 1 => ts[i + 2 * k].type = Separator
             /\ ts[i + 2 * m + 2].type = Separator => ts[i + 2 * k].type = Separator
  <2>1. CASE k = m + 1
    <3>1. i + 2 * k - 1 = i + 2 * m + 1 /\ i + 2 * k = i + 2 * m + 2 /\ ~(k < m + 1)
      BY <2>1
    <3> QED BY <3>1
  <2>2. CASE k # m + 1
    <3>1. k \in 1 .. m
      BY <2>2
    <3> QED BY <3>1 DEF Begun
  <2> QED BY <2>1, <2>2
<1>2. m + 1 > 0
  OBVIOUS
<1> QED BY <1>1, <1>2 DEF IsCommaList, IsList, Begun, Separator

LEMMA CommaListIs ==
  ASSUME NEW ts, NEW i \in Nat, NEW m \in Nat, NEW types
  PROVE  IsCommaList(ts, i, m, types)
           <=> /\ m > 0
               /\ \A k \in 1 .. m : /\ ts[i + 2 * k - 1].type \in types
                                    /\ k < m => ts[i + 2 * k].type = Separator
<1>1. IsCommaList(ts, i, m, types) <=> m > 0 /\ IsList(ts, i, m, types, Separator)
  BY DEF IsCommaList, Separator
<1> QED BY <1>1 DEF IsList

LEMMA NotEmpty ==
  \A ts, i, m, types : IsCommaList(ts, i, m, types) => m > 0
  BY DEF IsCommaList

\* A list that ends where there is no separator is as long as another one.
LEMMA AsLong ==
  ASSUME NEW ts, NEW i \in Nat, NEW m \in Nat, NEW n \in Nat \ {0}, NEW types,
         IsCommaList(ts, i, m, types), ts[i + 2 * n].type # Separator
  PROVE  m <= n
<1>1. ASSUME n < m PROVE FALSE
  <2>1. n \in 1 .. m
    BY <1>1
  <2>2. \A k \in 1 .. m : k < m => ts[i + 2 * k].type = Separator
    BY CommaListIs, ZenonT(30)
  <2> QED BY <1>1, <2>1, <2>2
<1> QED BY <1>1

LEMMA Longer ==
  ASSUME NEW ts, NEW i \in Nat, NEW m \in Nat, NEW n \in Nat \ {0}, NEW types,
         Begun(ts, i, m, types), ts[i + 2 * n].type # Separator
  PROVE  m + 1 <= n
<1>1. ASSUME n <= m PROVE FALSE
  <2>1. n \in 1 .. m
    BY <1>1
  <2> QED BY <2>1 DEF Begun
<1> QED BY <1>1

\* Two lists from the same place that both end where there is no separator.
LEMMA SameLength ==
  ASSUME NEW ts, NEW i \in Nat, NEW m \in Nat, NEW n \in Nat, NEW types,
         IsCommaList(ts, i, m, types), ts[i + 2 * m].type # Separator,
         IsCommaList(ts, i, n, types), ts[i + 2 * n].type # Separator
  PROVE  m = n
<1>1. m \in Nat \ {0} /\ n \in Nat \ {0}
  <2>1. m > 0 /\ n > 0
    BY CommaListIs, Zenon
  <2> QED BY <2>1
<1>2. m <= n /\ n <= m
  BY <1>1, AsLong
<1> QED BY <1>2

\* A list that begins with m items and a separator has one item more.
LEMMA OneMoreItem ==
  ASSUME NEW ts, NEW i \in Nat, NEW m \in Nat, NEW n \in Nat, NEW types,
         Begun(ts, i, m, types), IsCommaList(ts, i, n, types), ts[i + 2 * n].type # Separator
  PROVE  m + 1 <= n /\ ts[i + 2 * m + 1].type \in types
<1>1. n > 0 /\ \A k \in 1 .. n : ts[i + 2 * k - 1].type \in types
  BY CommaListIs, Zenon
<1>2. m + 1 <= n
  <2>1. n \in Nat \ {0}
    BY <1>1
  <2> QED BY <2>1, Longer
<1>3. m + 1 \in 1 .. n /\ i + 2 * (m + 1) - 1 = i + 2 * m + 1
  BY <1>2
<1>4. ts[i + 2 * (m + 1) - 1].type \in types
  BY <1>1, <1>3
<1> QED BY <1>2, <1>3, <1>4

\* A list is made of its tokens.
LEMMA ListAgrees ==
  ASSUME NEW ts, NEW us, NEW i \in Nat, NEW m \in Nat, NEW types,
         \A x \in i + 1 .. i + 2 * m - 1 : ts[x] = us[x],
         IsCommaList(ts, i, m, types)
  PROVE  IsCommaList(us, i, m, types)
<1>1. ASSUME NEW k \in 1 .. m
      PROVE  /\ us[i + 2 * k - 1].type \in types
             /\ k < m => us[i + 2 * k].type = Separator
  <2>1. i + 2 * k - 1 \in i + 1 .. i + 2 * m - 1
        /\ (k < m => i + 2 * k \in i + 1 .. i + 2 * m - 1)
    OBVIOUS
  <2>2. /\ ts[i + 2 * k - 1].type \in types
        /\ k < m => ts[i + 2 * k].type = Separator
    BY CommaListIs, Zenon
  <2> QED BY <2>1, <2>2
<1>2. m > 0
  BY CommaListIs, Zenon
<1> QED BY <1>1, <1>2, CommaListIs, Zenon

LEMMA BegunAgrees ==
  ASSUME NEW ts, NEW us, NEW i \in Nat, NEW m \in Nat, NEW types,
         \A x \in i + 1 .. i + 2 * m : ts[x] = us[x], Begun(ts, i, m, types)
  PROVE  Begun(us, i, m, types)
<1> SUFFICES ASSUME NEW k \in 1 .. m
             PROVE  us[i + 2 * k - 1].type \in types /\ us[i + 2 * k].type = Separator
  BY DEF Begun
<1>1. i + 2 * k - 1 \in i + 1 .. i + 2 * m /\ i + 2 * k \in i + 1 .. i + 2 * m
  OBVIOUS
<1> QED BY <1>1 DEF Begun

\* The names of a table are one, or two with a dot in between.
LEMMA TableIs ==
  ASSUME NEW ts, NEW i \in Nat
  PROVE  \A q : IsTable(ts, i, q) <=> \/ q = 1 /\ ts[i + 1].type \in Names
                                      \/ /\ q = 2 /\ ts[i + 1].type \in Names
                                         /\ ts[i + 2].type = "." /\ ts[i + 3].type \in Names
<1>1. i + 2 * 1 - 1 = i + 1 /\ i + 2 * 1 = i + 2 /\ i + 2 * 2 - 1 = i + 3
  OBVIOUS
<1>2. 1 .. 1 = {1} /\ 1 .. 2 = {1, 2} /\ 1 < 2 /\ ~(1 < 1) /\ ~(2 < 2)
  OBVIOUS
<1> QED BY <1>1, <1>2 DEF IsTable, IsList

LEMMA TableAgrees ==
  ASSUME NEW ts, NEW us, NEW i \in Nat, NEW q \in Nat,
         \A x \in i + 1 .. i + 2 * q - 1 : ts[x] = us[x], IsTable(ts, i, q)
  PROVE  IsTable(us, i, q)
<1>1. q = 1 \/ q = 2
  BY TableIs
<1>2. i + 1 \in i + 1 .. i + 2 * q - 1
      /\ (q = 2 => i + 2 \in i + 1 .. i + 2 * q - 1 /\ i + 3 \in i + 1 .. i + 2 * q - 1)
  BY <1>1
<1> QED BY <1>1, <1>2, TableIs

-----------------------------------------------------------------------------
(* What parse_insert has read up to the c-th token: a table of q names, m  *)
(* columns and v values, when it is at rule r of the statement that begins *)
(* with the h-th.                                                          *)

InsertInto(ts, h) == ts[h].type = "INSERT" /\ ts[h + 1].type = "INTO"

Opened(ts, h, q) ==
  InsertInto(ts, h) /\ IsTable(ts, h + 1, q) /\ ts[h + 1 + 2 * q].type = "("

Closed(ts, h, q, m) ==
  /\ Opened(ts, h, q)
  /\ IsCommaList(ts, h + 1 + 2 * q, m, Names)
  /\ ts[h + 1 + 2 * q + 2 * m].type = ")"

Valued(ts, h, q, m) ==
  /\ Closed(ts, h, q, m)
  /\ ts[h + 2 + 2 * q + 2 * m].type = "VALUES" /\ ts[h + 3 + 2 * q + 2 * m].type = "("

InsertTo(ts, h, c, r, q, m, v) ==
  LET open  == h + 1 + 2 * q
      close == open + 2 * m
  IN  \/ r = "into" /\ c = h + 1 /\ q = 0 /\ m = 0 /\ v = 0 /\ ts[h].type = "INSERT"
      \/ r = "table" /\ c = h + 2 /\ q = 0 /\ m = 0 /\ v = 0 /\ InsertInto(ts, h)
      \/ /\ r = "qualified" /\ c = h + 4 /\ q = 1 /\ m = 0 /\ v = 0 /\ InsertInto(ts, h)
         /\ ts[h + 2].type \in Names /\ ts[h + 3].type = "."
      \/ /\ r = "openColumns" /\ c = open /\ m = 0 /\ v = 0 /\ InsertInto(ts, h)
         /\ IsTable(ts, h + 1, q)
      \/ /\ r = "columns" /\ c = close + 1 /\ v = 0 /\ Opened(ts, h, q)
         /\ Begun(ts, open, m, Names)
      \/ /\ r = "closeColumns" /\ c = close /\ v = 0 /\ Opened(ts, h, q)
         /\ IsCommaList(ts, open, m, Names)
      \/ r = "values" /\ c = close + 1 /\ v = 0 /\ Closed(ts, h, q, m)
      \/ /\ r = "openValues" /\ c = close + 2 /\ v = 0 /\ Closed(ts, h, q, m)
         /\ ts[close + 1].type = "VALUES"
      \/ /\ r = "literals" /\ c = close + 3 + 2 * v /\ Valued(ts, h, q, m)
         /\ Begun(ts, close + 2, v, Literals)
      \/ /\ r = "closeValues" /\ c = close + 2 + 2 * v /\ Valued(ts, h, q, m)
         /\ IsCommaList(ts, close + 2, v, Literals)
      \/ /\ r = "end" /\ c = close + 3 + 2 * v /\ Valued(ts, h, q, m)
         /\ IsCommaList(ts, close + 2, v, Literals) /\ ts[close + 2 + 2 * v].type = ")"

\* What the parser has seen of the token that comes next.
InsertAhead(ts, c, r, q) ==
  /\ r = "openColumns" /\ q = 1 => ts[c].type # "."
  /\ r \in {"closeColumns", "closeValues"} => ts[c].type # Separator

\* A statement that has been read to its end is an INSERT of the grammar.
LEMMA InsertIs ==
  ASSUME NEW ts, NEW h \in Nat, NEW e \in Nat, NEW q \in Nat, NEW m \in Nat, NEW v \in Nat
  PROVE  IsInsert(ts, h, e, q, m, v) <=> InsertTo(ts, h, e + 1, "end", q, m, v)
<1>1. /\ h + 1 + 2 * q + 2 * m + 1 = h + 2 + 2 * q + 2 * m
      /\ h + 1 + 2 * q + 2 * m + 2 = h + 3 + 2 * q + 2 * m
      /\ e + 1 = h + 1 + 2 * q + 2 * m + 3 + 2 * v <=> e = h + 1 + 2 * q + 2 * m + 2 + 2 * v
  OBVIOUS
<1> QED BY <1>1 DEF IsInsert, InsertTo, Valued, Closed, Opened, InsertInto

\* A token that the rule accepts takes the parser on to the next one.
LEMMA InsertGoesOn ==
  ASSUME NEW ts, NEW h \in Nat, NEW c \in Nat, NEW q \in Nat, NEW m \in Nat, NEW v \in Nat
  PROVE  LET to(r)             == InsertTo(ts, h, c, r, q, m, v)
             on(n, r, a, b, d) == InsertTo(ts, h, c + n, r, a, b, d)
             type              == ts[c].type
         IN  /\ to("into") /\ type = "INTO" => on(1, "table", q, m, v)
             /\ to("table") /\ type \in Names => on(1, "openColumns", 1, m, v)
             /\ to("table") /\ type \in Names /\ ts[c + 1].type = "." => on(2, "qualified", 1, m, v)
             /\ to("qualified") /\ type \in Names => on(1, "openColumns", 2, m, v)
             /\ to("openColumns") /\ type = "(" => on(1, "columns", q, m, v)
             /\ to("columns") /\ type \in Names => on(1, "closeColumns", q, m + 1, v)
             /\ to("columns") /\ type \in Names /\ ts[c + 1].type = Separator
                  => on(2, "columns", q, m + 1, v)
             /\ to("closeColumns") /\ type = ")" => on(1, "values", q, m, v)
             /\ to("values") /\ type = "VALUES" => on(1, "openValues", q, m, v)
             /\ to("openValues") /\ type = "(" => on(1, "literals", q, m, v)
             /\ to("literals") /\ type \in Literals => on(1, "closeValues", q, m, v + 1)
             /\ to("literals") /\ type \in Literals /\ ts[c + 1].type = Separator
                  => on(2, "literals", q, m, v + 1)
             /\ to("closeValues") /\ type = ")" => on(1, "end", q, m, v)
<1> DEFINE to(r)             == InsertTo(ts, h, c, r, q, m, v)
           on(n, r, a, b, d) == InsertTo(ts, h, c + n, r, a, b, d)
           type              == ts[c].type
           open              == h + 1 + 2 * q
           close             == open + 2 * m
<1> USE DEF InsertTo
<1>1. to("into") /\ type = "INTO"
        => on(1, "table", q, m, v)
  BY DEF InsertInto
<1>2. to("table") /\ type \in Names
        => on(1, "openColumns", 1, m, v)
  BY TableIs DEF InsertInto
<1>3. to("table") /\ type \in Names /\ ts[c + 1].type = "."
        => on(2, "qualified", 1, m, v)
  BY DEF Opened, Closed, Valued
<1>4. to("qualified") /\ type \in Names
        => on(1, "openColumns", 2, m, v)
  BY TableIs DEF InsertInto
<1>5. to("openColumns") /\ type = "("
        => on(1, "columns", q, m, v)
  BY NothingBegun DEF Opened, Valued
<1>6. to("columns") /\ type \in Names
        => on(1, "closeColumns", q, m + 1, v)
  BY ListGrows
<1>7. to("columns") /\ type \in Names /\ ts[c + 1].type = Separator
        => on(2, "columns", q, m + 1, v)
  BY ListGrows
<1>8. to("closeColumns") /\ type = ")"
        => on(1, "values", q, m, v)
  BY DEF Opened, Closed, Valued
<1>9. to("values") /\ type = "VALUES"
        => on(1, "openValues", q, m, v)
  BY DEF Opened, Closed, Valued
<1>10. to("openValues") /\ type = "("
        => on(1, "literals", q, m, v)
  BY NothingBegun DEF Opened, Valued
<1>11. to("literals") /\ type \in Literals
        => on(1, "closeValues", q, m, v + 1)
  BY ListGrows
<1>12. to("literals") /\ type \in Literals /\ ts[c + 1].type = Separator
        => on(2, "literals", q, m, v + 1)
  BY ListGrows
<1>13. to("closeValues") /\ type = ")"
        => on(1, "end", q, m, v)
  BY DEF Opened, Closed, Valued
<1> HIDE DEF InsertTo
<1> QED BY <1>1, <1>2, <1>3, <1>4, <1>5, <1>6, <1>7, <1>8, <1>9, <1>10, <1>11, <1>12, <1>13, Zenon


\* What has been read is a matter of the tokens up to there.
LEMMA InsertAgrees ==
  ASSUME NEW ts, NEW us, NEW h \in Nat, NEW c \in Nat, NEW r,
         NEW q \in Nat, NEW m \in Nat, NEW v \in Nat,
         \A x \in h .. c - 1 : ts[x] = us[x], InsertTo(ts, h, c, r, q, m, v)
  PROVE  InsertTo(us, h, c, r, q, m, v)
<1> DEFINE open  == h + 1 + 2 * q
           close == open + 2 * m
<1>1. ASSUME c >= h + 2, InsertInto(ts, h) PROVE InsertInto(us, h)
  BY <1>1 DEF InsertInto
<1>2. ASSUME c >= open, IsTable(ts, h + 1, q) PROVE IsTable(us, h + 1, q)
  BY <1>2, TableAgrees
<1>3. ASSUME c >= open + 1, Opened(ts, h, q) PROVE Opened(us, h, q)
  <2>1. IsTable(us, h + 1, q) /\ InsertInto(us, h)
    BY <1>1, <1>2, <1>3 DEF Opened
  <2> QED BY <1>3, <2>1 DEF Opened
<1>4. ASSUME c >= close, IsCommaList(ts, open, m, Names) PROVE IsCommaList(us, open, m, Names)
  BY <1>4, ListAgrees
<1>5. ASSUME c >= close + 1, Closed(ts, h, q, m) PROVE Closed(us, h, q, m)
  <2>1. Opened(us, h, q) /\ IsCommaList(us, open, m, Names)
    BY <1>3, <1>4, <1>5 DEF Closed
  <2> QED BY <1>5, <2>1 DEF Closed
<1>6. ASSUME c >= close + 3, Valued(ts, h, q, m) PROVE Valued(us, h, q, m)
  <2>1. Closed(us, h, q, m)
    BY <1>5, <1>6 DEF Valued
  <2> QED BY <1>6, <2>1 DEF Valued
<1>7. ASSUME c >= close + 2 + 2 * v, IsCommaList(ts, close + 2, v, Literals)
      PROVE  IsCommaList(us, close + 2, v, Literals)
  BY <1>7, ListAgrees
<1>8. ASSUME c >= close + 1, Begun(ts, open, m, Names) PROVE Begun(us, open, m, Names)
  BY <1>8, BegunAgrees
<1>9. ASSUME c >= close + 3 + 2 * v, Begun(ts, close + 2, v, Literals)
      PROVE  Begun(us, close + 2, v, Literals)
  BY <1>9, BegunAgrees
<1>10. CASE r = "into"
  BY <1>10 DEF InsertTo
<1>11. CASE r = "table"
  BY <1>1, <1>11 DEF InsertTo
<1>12. CASE r = "qualified"
  BY <1>1, <1>12 DEF InsertTo
<1>13. CASE r = "openColumns"
  <2>1. /\ c = open /\ m = 0 /\ v = 0 /\ InsertInto(ts, h) /\ IsTable(ts, h + 1, q)
        /\ q = 1 \/ q = 2
    BY <1>13, TableIs DEF InsertTo
  <2>2. c >= open /\ c >= h + 2
    BY <2>1
  <2>3. InsertInto(us, h) /\ IsTable(us, h + 1, q)
    BY <1>1, <1>2, <2>1, <2>2
  <2> QED BY <1>13, <2>1, <2>3 DEF InsertTo
<1>14. CASE r = "columns"
  BY <1>3, <1>8, <1>14 DEF InsertTo
<1>15. CASE r = "closeColumns"
  <2>1. c = close /\ v = 0 /\ Opened(ts, h, q) /\ IsCommaList(ts, open, m, Names)
    BY <1>15 DEF InsertTo
  <2>2. m > 0
    BY <2>1 DEF IsCommaList
  <2>3. c >= close /\ c >= open + 1
    BY <2>1, <2>2
  <2>4. Opened(us, h, q) /\ IsCommaList(us, open, m, Names)
    BY <1>3, <1>4, <2>1, <2>3
  <2> QED BY <1>15, <2>1, <2>4 DEF InsertTo
<1>16. CASE r = "values"
  BY <1>5, <1>16 DEF InsertTo
<1>17. CASE r = "openValues"
  BY <1>5, <1>17 DEF InsertTo
<1>18. CASE r = "literals"
  BY <1>6, <1>9, <1>18 DEF InsertTo
<1>19. CASE r = "closeValues"
  <2>1. /\ c = close + 2 + 2 * v /\ Valued(ts, h, q, m)
        /\ IsCommaList(ts, close + 2, v, Literals)
    BY <1>19 DEF InsertTo
  <2>2. v > 0
    BY <2>1 DEF IsCommaList
  <2>3. c >= close + 2 + 2 * v /\ c >= close + 3
    BY <2>1, <2>2
  <2>4. Valued(us, h, q, m) /\ IsCommaList(us, close + 2, v, Literals)
    BY <1>6, <1>7, <2>1, <2>3
  <2> QED BY <1>19, <2>1, <2>4 DEF InsertTo
<1>20. CASE r = "end"
  BY <1>6, <1>7, <1>20 DEF InsertTo
<1> QED BY <1>10, <1>11, <1>12, <1>13, <1>14, <1>15, <1>16, <1>17, <1>18, <1>19, <1>20 DEF InsertTo

\* An INSERT that begins like the one that is being read has a table of as many
\* names, and as many columns, if what comes after these has been read.
LEMMA SameTable ==
  ASSUME NEW ts, NEW h \in Nat, NEW p \in Nat, NEW q \in Nat,
         IsTable(ts, h + 1, p), IsTable(ts, h + 1, q),
         ts[h + 1 + 2 * p].type # ".", ts[h + 1 + 2 * q].type # "."
  PROVE  p = q
<1>1. /\ h + 1 \in Nat /\ h + 1 + 2 * 1 = h + 1 + 2
      /\ \A t : IsTable(ts, h + 1, t) => t = 1 \/ (t = 2 /\ ts[h + 1 + 2].type = ".")
  <2>1. h + 1 \in Nat /\ h + 1 + 2 * 1 = h + 1 + 2
    OBVIOUS
  <2> QED BY <2>1, TableIs, Zenon
<1> QED BY <1>1

LEMMA SameColumns ==
  ASSUME NEW ts, NEW h \in Nat, NEW q \in Nat, NEW p \in Nat, NEW l \in Nat, NEW m \in Nat,
         Closed(ts, h, q, m), Closed(ts, h, p, l)
  PROVE  p = q /\ l = m
<1>1. p = q
  BY SameTable DEF Closed, Opened
<1>2. PICK i \in Nat : i = h + 1 + 2 * q
  OBVIOUS
<1>3. IsCommaList(ts, i, m, Names) /\ IsCommaList(ts, i, l, Names)
      /\ ts[i + 2 * m].type # Separator /\ ts[i + 2 * l].type # Separator
  <2>1. Separator # ")"
    BY DEF Separator
  <2> QED BY <1>1, <1>2, <2>1 DEF Closed
<1> QED BY <1>1, <1>2, <1>3, SameLength

LEMMA AcceptsIs ==
  /\ Accepts["table"] = Names                /\ Accepts["qualified"] = Names
  /\ Accepts["columns"] = Names              /\ Accepts["whereColumn"] = Names
  /\ Accepts["into"] = {"INTO"}              /\ Accepts["openColumns"] = {"("}
  /\ Accepts["closeColumns"] = {")"}         /\ Accepts["values"] = {"VALUES"}
  /\ Accepts["openValues"] = {"("}           /\ Accepts["closeValues"] = {")"}
  /\ Accepts["from"] = {"FROM"}              /\ Accepts["equal"] = {"="}
  /\ Accepts["selection"] = {"*"} \cup Names
  /\ Accepts["literals"] = Literals          /\ Accepts["whereValue"] = Literals
  BY DEF Accepts, Names, Literals, Literal

\* Every INSERT that begins with what has been read goes on with a token that the
\* rule accepts; at its end there is nothing to go on with.
InsertGoesOnAs(ts, h, c, r, q, m, v) ==
  \A e, p, l, w \in Nat :
    IsInsert(ts, h, e, p, l, w)
      => /\ r # "end" => c <= e /\ ts[c].type \in Accepts[r]
         /\ r = "end" => e = c - 1 /\ p = q /\ l = m /\ w = v

LEMMA InsertForced ==
  ASSUME NEW ts, NEW h \in Nat, NEW c \in Nat, NEW r,
         NEW q \in Nat, NEW m \in Nat, NEW v \in Nat,
         InsertTo(ts, h, c, r, q, m, v), InsertAhead(ts, c, r, q)
  PROVE  InsertGoesOnAs(ts, h, c, r, q, m, v)
<1> SUFFICES ASSUME NEW e \in Nat, NEW p \in Nat, NEW l \in Nat, NEW w \in Nat,
                    IsInsert(ts, h, e, p, l, w)
             PROVE  /\ r # "end" => c <= e /\ ts[c].type \in Accepts[r]
                    /\ r = "end" => e = c - 1 /\ p = q /\ l = m /\ w = v
  BY Zenon DEF InsertGoesOnAs
<1> DEFINE open  == h + 1 + 2 * p
           close == open + 2 * l
<1>1. /\ e = close + 2 + 2 * w /\ Valued(ts, h, p, l) /\ IsCommaList(ts, close + 2, w, Literals)
      /\ ts[close + 2 + 2 * w].type = ")"
  <2>1. InsertTo(ts, h, e + 1, "end", p, l, w)
    BY InsertIs
  <2>2. e + 1 = close + 3 + 2 * w => e = close + 2 + 2 * w
    OBVIOUS
  <2> QED BY <2>1, <2>2 DEF InsertTo
<1>2. Closed(ts, h, p, l) /\ Opened(ts, h, p) /\ InsertInto(ts, h) /\ IsTable(ts, h + 1, p)
      /\ IsCommaList(ts, open, l, Names)
  BY <1>1 DEF Valued, Closed, Opened
<1>3. Separator \notin {")", "(", "."}
  BY DEF Separator
<1>4. p >= 1 /\ l >= 1 /\ w >= 1 /\ e >= open + 4
  <2>1. l > 0 /\ w > 0 /\ p > 0
    <3>1. l > 0 /\ w > 0
      BY <1>1, <1>2, NotEmpty, Zenon
    <3>2. p > 0
      BY <1>2 DEF IsTable
    <3> QED BY <3>1, <3>2
  <2> QED BY <1>1, <2>1
<1>5. /\ p = 1 \/ (p = 2 /\ ts[h + 3].type = "." /\ ts[h + 4].type \in Names)
      /\ ts[h + 2].type \in Names
  <2>1. h + 1 \in Nat /\ (h + 1) + 1 = h + 2 /\ (h + 1) + 2 = h + 3 /\ (h + 1) + 3 = h + 4
    OBVIOUS
  <2> QED BY <1>2, <2>1, TableIs
<1>6. ASSUME Opened(ts, h, q) PROVE q = p
  BY <1>2, <1>6, SameTable DEF Opened
<1>7. ASSUME Closed(ts, h, q, m) PROVE q = p /\ m = l
  BY <1>2, <1>7, SameColumns
<1>8. CASE r = "into"
  BY <1>2, <1>4, <1>8, AcceptsIs DEF InsertTo, InsertInto
<1>9. CASE r = "table"
  BY <1>4, <1>5, <1>9, AcceptsIs DEF InsertTo
<1>10. CASE r = "qualified"
  BY <1>2, <1>4, <1>5, <1>10, AcceptsIs DEF InsertTo, Opened
<1>11. CASE r = "openColumns"
  <2>1. c = h + 1 + 2 * q /\ IsTable(ts, h + 1, q) /\ (q = 1 => ts[c].type # ".")
    BY <1>11 DEF InsertTo, InsertAhead
  <2>2. q = 1 \/ (q = 2 /\ ts[h + 3].type = ".")
    <3>1. h + 1 \in Nat /\ (h + 1) + 2 = h + 3
      OBVIOUS
    <3> QED BY <2>1, <3>1, TableIs
  <2>3. ts[open].type = "("
    BY <1>2 DEF Opened
  <2>4. p = q
    BY <1>5, <2>1, <2>2, <2>3
  <2> QED BY <1>4, <1>11, <2>1, <2>3, <2>4, AcceptsIs
<1>12. CASE r = "columns"
  <2>1. c = h + 1 + 2 * q + 2 * m + 1 /\ Opened(ts, h, q) /\ Begun(ts, h + 1 + 2 * q, m, Names)
    BY <1>12 DEF InsertTo
  <2>2. q = p
    BY <1>6, <2>1
  <2>3. ts[open + 2 * l].type # Separator
    BY <1>2, <1>3 DEF Closed
  <2>4. m + 1 <= l /\ ts[open + 2 * m + 1].type \in Names
    BY <1>2, <2>1, <2>2, <2>3, OneMoreItem
  <2> QED BY <1>1, <1>12, <2>1, <2>2, <2>4, AcceptsIs
<1>13. CASE r = "closeColumns"
  <2>1. /\ c = h + 1 + 2 * q + 2 * m /\ Opened(ts, h, q)
        /\ IsCommaList(ts, h + 1 + 2 * q, m, Names) /\ ts[c].type # Separator
    BY <1>13 DEF InsertTo, InsertAhead
  <2>2. q = p
    BY <1>6, <2>1
  <2>3. ts[open + 2 * l].type # Separator /\ ts[close].type = ")"
    BY <1>2, <1>3 DEF Closed
  <2>4. m = l
    BY <1>2, <2>1, <2>2, <2>3, SameLength
  <2> QED BY <1>1, <1>13, <2>1, <2>2, <2>3, <2>4, AcceptsIs
<1>14. CASE r = "values"
  <2>1. c = h + 1 + 2 * q + 2 * m + 1 /\ q = p /\ m = l
    BY <1>7, <1>14 DEF InsertTo
  <2>2. ts[h + 2 + 2 * p + 2 * l].type = "VALUES" /\ c = h + 2 + 2 * p + 2 * l
    BY <1>1, <2>1 DEF Valued
  <2> QED BY <1>1, <1>14, <2>1, <2>2, AcceptsIs
<1>15. CASE r = "openValues"
  <2>1. c = h + 1 + 2 * q + 2 * m + 2 /\ q = p /\ m = l
    BY <1>7, <1>15 DEF InsertTo
  <2>2. ts[h + 3 + 2 * p + 2 * l].type = "(" /\ c = h + 3 + 2 * p + 2 * l
    BY <1>1, <2>1 DEF Valued
  <2> QED BY <1>1, <1>15, <2>1, <2>2, AcceptsIs
<1>16. CASE r \in {"literals", "closeValues", "end"}
  <2>1. Valued(ts, h, q, m)
    BY <1>16 DEF InsertTo
  <2>2. q = p /\ m = l
    BY <1>7, <2>1 DEF Valued
  <2>3. PICK i \in Nat : i = close + 2
    OBVIOUS
  <2>4. IsCommaList(ts, i, w, Literals) /\ ts[i + 2 * w].type # Separator
        /\ ts[i + 2 * w].type = ")" /\ e = i + 2 * w
    BY <1>1, <1>3, <2>3
  <2>5. CASE r = "literals"
    <3>1. c = i + 1 + 2 * v /\ Begun(ts, i, v, Literals)
      BY <2>2, <2>3, <2>5 DEF InsertTo
    <3>2. v + 1 <= w /\ ts[i + 2 * v + 1].type \in Literals
      BY <2>4, <3>1, OneMoreItem
    <3> QED BY <2>4, <2>5, <3>1, <3>2, AcceptsIs
  <2>6. CASE r = "closeValues"
    <3>1. c = i + 2 * v /\ IsCommaList(ts, i, v, Literals) /\ ts[c].type # Separator
      BY <2>2, <2>3, <2>6 DEF InsertTo, InsertAhead
    <3>2. v = w
      BY <2>4, <3>1, SameLength
    <3> QED BY <2>4, <2>6, <3>1, <3>2, AcceptsIs
  <2>7. CASE r = "end"
    <3>1. c = i + 1 + 2 * v /\ IsCommaList(ts, i, v, Literals) /\ ts[i + 2 * v].type = ")"
      BY <2>2, <2>3, <2>7 DEF InsertTo
    <3>2. v = w
      BY <1>3, <2>4, <3>1, SameLength
    <3> QED BY <2>2, <2>4, <2>7, <3>1, <3>2
  <2> QED BY <1>16, <2>5, <2>6, <2>7
<1> QED BY <1>8, <1>9, <1>10, <1>11, <1>12, <1>13, <1>14, <1>15, <1>16 DEF InsertTo

-----------------------------------------------------------------------------
(* What parse_select has read up to the c-th token: m columns, none for *, *)
(* and a table of q names.                                                 *)

Chosen(ts, h, m) ==
  /\ ts[h].type = "SELECT"
  /\ IF m = 0 THEN ts[h + 1].type = "*" ELSE IsCommaList(ts, h, m, Names)

FromRead(ts, h, m) == Chosen(ts, h, m) /\ ts[FromAt(h, m)].type = "FROM"
Ranged(ts, h, m, q) == FromRead(ts, h, m) /\ IsTable(ts, FromAt(h, m), q)

\* The first n tokens of the condition that begins with the i-th.
Condition(ts, i, n) ==
  /\ n >= 1 => ts[i].type = "WHERE"
  /\ n >= 2 => ts[i + 1].type \in Names
  /\ n >= 3 => ts[i + 2].type = "="
  /\ n >= 4 => ts[i + 3].type \in Literals

SelectTo(ts, h, c, r, m, q) ==
  LET from  == FromAt(h, m)
      where == from + 2 * q
  IN  \/ r = "selection" /\ c = h + 1 /\ m = 0 /\ q = 0 /\ ts[h].type = "SELECT"
      \/ /\ r = "columns" /\ c = h + 1 + 2 * m /\ m > 0 /\ q = 0
         /\ ts[h].type = "SELECT" /\ Begun(ts, h, m, Names)
      \/ r = "from" /\ c = from /\ q = 0 /\ Chosen(ts, h, m)
      \/ r = "table" /\ c = from + 1 /\ q = 0 /\ FromRead(ts, h, m)
      \/ /\ r = "qualified" /\ c = from + 3 /\ q = 1 /\ FromRead(ts, h, m)
         /\ ts[from + 1].type \in Names /\ ts[from + 2].type = "."
      \/ r = "where" /\ c = where /\ Ranged(ts, h, m, q)
      \/ r = "whereColumn" /\ c = where + 1 /\ Ranged(ts, h, m, q) /\ Condition(ts, where, 1)
      \/ r = "equal" /\ c = where + 2 /\ Ranged(ts, h, m, q) /\ Condition(ts, where, 2)
      \/ r = "whereValue" /\ c = where + 3 /\ Ranged(ts, h, m, q) /\ Condition(ts, where, 3)
      \/ r = "end" /\ c = where /\ Ranged(ts, h, m, q)
      \/ r = "end" /\ c = where + 4 /\ Ranged(ts, h, m, q) /\ Condition(ts, where, 4)

SelectAhead(ts, h, c, r, m, q) ==
  /\ r = "from" /\ m > 0 => ts[c].type # Separator
  /\ r = "where" /\ q = 1 => ts[c].type # "."
  /\ r = "end" /\ c = FromAt(h, m) + 2 * q => /\ ts[c].type # "WHERE"
                                              /\ q = 1 => ts[c].type # "."

LEMMA FromIs ==
  ASSUME NEW h \in Nat, NEW m \in Nat
  PROVE  /\ FromAt(h, m) \in Nat /\ FromAt(h, m) >= h + 2
         /\ m = 0 => FromAt(h, m) = h + 2
         /\ m > 0 => FromAt(h, m) = h + 2 * m
         /\ FromAt(h, m + 1) = h + 2 * m + 2
  BY DEF FromAt

LEMMA SelectIs ==
  ASSUME NEW ts, NEW h \in Nat, NEW e \in Nat, NEW m \in Nat, NEW q \in Nat
  PROVE  IsSelect(ts, h, e, m, q) <=> SelectTo(ts, h, e + 1, "end", m, q)
<1>1. PICK from \in Nat : from = FromAt(h, m)
  BY FromIs
<1>2. PICK where \in Nat : where = from + 2 * q
  OBVIOUS
<1>3. /\ e = where - 1 => ~(e > where) /\ e + 1 = where
      /\ e = where + 3 => e > where /\ e + 1 = where + 4
      /\ e + 1 = where => e = where - 1
      /\ e + 1 = where + 4 => e = where + 3
  OBVIOUS
<1>4. IsSelect(ts, h, e, m, q)
        <=> /\ e \in {where - 1, where + 3} /\ Ranged(ts, h, m, q)
            /\ e > where => Condition(ts, where, 4)
  BY <1>1, <1>2 DEF IsSelect, Ranged, FromRead, Chosen, Condition
<1>5. SelectTo(ts, h, e + 1, "end", m, q)
        <=> \/ e + 1 = where /\ Ranged(ts, h, m, q)
            \/ e + 1 = where + 4 /\ Ranged(ts, h, m, q) /\ Condition(ts, where, 4)
  BY <1>1, <1>2 DEF SelectTo
<1> QED BY <1>3, <1>4, <1>5

\* A token that the rule accepts takes the parser on to the next one.
LEMMA SelectGoesOn ==
  ASSUME NEW ts, NEW h \in Nat, NEW c \in Nat, NEW m \in Nat, NEW q \in Nat
  PROVE  LET to(r)          == SelectTo(ts, h, c, r, m, q)
             on(n, r, a, b) == SelectTo(ts, h, c + n, r, a, b)
             type           == ts[c].type
         IN  /\ to("selection") /\ type = "*" => on(1, "from", m, q)
             /\ to("selection") /\ type \in Names => on(1, "from", m + 1, q)
             /\ to("selection") /\ type \in Names /\ ts[c + 1].type = Separator
                  => on(2, "columns", m + 1, q)
             /\ to("columns") /\ type \in Names => on(1, "from", m + 1, q)
             /\ to("columns") /\ type \in Names /\ ts[c + 1].type = Separator
                  => on(2, "columns", m + 1, q)
             /\ to("from") /\ type = "FROM" => on(1, "table", m, q)
             /\ to("table") /\ type \in Names => on(1, "where", m, 1)
             /\ to("table") /\ type \in Names /\ ts[c + 1].type = "." => on(2, "qualified", m, 1)
             /\ to("qualified") /\ type \in Names => on(1, "where", m, 2)
             /\ to("where") => on(0, "end", m, q)
             /\ to("where") /\ type = "WHERE" => on(1, "whereColumn", m, q)
             /\ to("whereColumn") /\ type \in Names => on(1, "equal", m, q)
             /\ to("equal") /\ type = "=" => on(1, "whereValue", m, q)
             /\ to("whereValue") /\ type \in Literals => on(1, "end", m, q)
<1> DEFINE to(r)          == SelectTo(ts, h, c, r, m, q)
           on(n, r, a, b) == SelectTo(ts, h, c + n, r, a, b)
           type           == ts[c].type
<1>0. PICK from \in Nat, next \in Nat : from = FromAt(h, m) /\ next = FromAt(h, m + 1)
  <2>1. m + 1 \in Nat
    OBVIOUS
  <2> QED BY <2>1, FromIs
<1>1. next = h + 2 * m + 2 /\ (m = 0 => from = h + 2)
  BY <1>0, FromIs
<1>2. type \in Names /\ Begun(ts, h, m, Names) /\ c = h + 2 * m + 1
        => /\ IsCommaList(ts, h, m + 1, Names)
           /\ ts[c + 1].type = Separator => Begun(ts, h, m + 1, Names)
  BY ListGrows
<1>3. to("selection") => /\ c = h + 2 * m + 1 /\ m = 0 /\ q = 0 /\ ts[h].type = "SELECT"
                         /\ Begun(ts, h, m, Names)
  BY NothingBegun DEF SelectTo
<1>4. to("columns") => /\ c = h + 2 * m + 1 /\ m > 0 /\ q = 0 /\ ts[h].type = "SELECT"
                       /\ Begun(ts, h, m, Names)
  BY DEF SelectTo
<1>5. to("selection") /\ type = "*" => on(1, "from", m, q)
  BY <1>0, <1>1 DEF SelectTo, Chosen
<1>6. (to("selection") \/ to("columns")) /\ type \in Names => on(1, "from", m + 1, q)
  BY <1>0, <1>1, <1>2, <1>3, <1>4 DEF SelectTo, Chosen
<1>7. (to("selection") \/ to("columns")) /\ type \in Names /\ ts[c + 1].type = Separator
        => on(2, "columns", m + 1, q)
  BY <1>2, <1>3, <1>4 DEF SelectTo
<1>8. to("from") /\ type = "FROM" => on(1, "table", m, q)
  BY <1>0 DEF SelectTo, FromRead
<1>9. to("table") /\ type \in Names => on(1, "where", m, 1)
  BY <1>0, TableIs DEF SelectTo, Ranged
<1>10. to("table") /\ type \in Names /\ ts[c + 1].type = "." => on(2, "qualified", m, 1)
  BY <1>0 DEF SelectTo
<1>11. to("qualified") /\ type \in Names => on(1, "where", m, 2)
  BY <1>0, TableIs DEF SelectTo, Ranged
<1>12. to("where") => on(0, "end", m, q)
  BY <1>0 DEF SelectTo
<1>13. to("where") /\ type = "WHERE" => on(1, "whereColumn", m, q)
  BY <1>0 DEF SelectTo, Condition
<1>14. to("whereColumn") /\ type \in Names => on(1, "equal", m, q)
  BY <1>0 DEF SelectTo, Condition
<1>15. to("equal") /\ type = "=" => on(1, "whereValue", m, q)
  BY <1>0 DEF SelectTo, Condition
<1>16. to("whereValue") /\ type \in Literals => on(1, "end", m, q)
  BY <1>0 DEF SelectTo, Condition
<1> QED BY <1>5, <1>6, <1>7, <1>8, <1>9, <1>10, <1>11, <1>12, <1>13, <1>14, <1>15, <1>16, Zenon

LEMMA SelectAgrees ==
  ASSUME NEW ts, NEW us, NEW h \in Nat, NEW c \in Nat, NEW r, NEW m \in Nat, NEW q \in Nat,
         \A x \in h .. c - 1 : ts[x] = us[x], SelectTo(ts, h, c, r, m, q)
  PROVE  SelectTo(us, h, c, r, m, q)
<1>1. PICK from \in Nat : from = FromAt(h, m)
  BY FromIs
<1>2. PICK where \in Nat : where = from + 2 * q
  OBVIOUS
<1>3. /\ from >= h + 2 /\ (m = 0 => from = h + 2) /\ (m > 0 => from = h + 2 * m)
  BY <1>1, FromIs
<1>4. ASSUME c >= from, Chosen(ts, h, m) PROVE Chosen(us, h, m)
  <2>1. h \in h .. c - 1 /\ h + 1 \in h .. c - 1
    BY <1>3, <1>4
  <2>2. CASE m = 0
    BY <1>4, <2>1, <2>2 DEF Chosen
  <2>3. CASE m # 0
    <3>1. IsCommaList(ts, h, m, Names)
      BY <1>4, <2>3 DEF Chosen
    <3>2. \A x \in h + 1 .. h + 2 * m - 1 : ts[x] = us[x]
      BY <1>3, <1>4, <2>3
    <3>3. IsCommaList(us, h, m, Names)
      BY <3>1, <3>2, ListAgrees
    <3> QED BY <1>4, <2>1, <2>3, <3>3 DEF Chosen
  <2> QED BY <2>2, <2>3
<1>5. ASSUME c >= from + 1, FromRead(ts, h, m) PROVE FromRead(us, h, m)
  <2>1. Chosen(us, h, m)
    BY <1>4, <1>5 DEF FromRead
  <2>2. from \in h .. c - 1
    BY <1>3, <1>5
  <2> QED BY <1>1, <1>5, <2>1, <2>2 DEF FromRead
<1>6. ASSUME c >= where, Ranged(ts, h, m, q) PROVE Ranged(us, h, m, q)
  <2>1. q = 1 \/ q = 2
    BY <1>1, <1>6, TableIs DEF Ranged
  <2>2. FromRead(us, h, m)
    BY <1>2, <1>5, <1>6, <2>1 DEF Ranged
  <2>3. \A x \in from + 1 .. from + 2 * q - 1 : ts[x] = us[x]
    BY <1>2, <1>3, <1>6
  <2>4. IsTable(us, from, q)
    BY <1>1, <1>6, <2>3, TableAgrees DEF Ranged
  <2> QED BY <1>1, <2>2, <2>4 DEF Ranged
<1>7. ASSUME NEW n \in 1 .. 4, c >= where + n, Condition(ts, where, n) PROVE Condition(us, where, n)
  <2>1. \A k \in Nat : n >= k + 1 => ts[where + k] = us[where + k]
    <3> SUFFICES ASSUME NEW k \in Nat, n >= k + 1 PROVE ts[where + k] = us[where + k]
      OBVIOUS
    <3>1. where + k \in h .. c - 1
      BY <1>2, <1>3, <1>7
    <3> QED BY <3>1
  <2>2. /\ n >= 1 => ts[where] = us[where]
        /\ n >= 2 => ts[where + 1] = us[where + 1]
        /\ n >= 3 => ts[where + 2] = us[where + 2]
        /\ n >= 4 => ts[where + 3] = us[where + 3]
    <3>1. /\ n >= 0 + 1 => ts[where + 0] = us[where + 0]
          /\ n >= 1 + 1 => ts[where + 1] = us[where + 1]
          /\ n >= 2 + 1 => ts[where + 2] = us[where + 2]
          /\ n >= 3 + 1 => ts[where + 3] = us[where + 3]
      BY <2>1
    <3> QED BY <3>1
  <2> QED BY <1>7, <2>2 DEF Condition
<1>8. CASE r \in {"selection", "columns"}
  <2>1. CASE r = "selection"
    BY <2>1 DEF SelectTo
  <2>2. CASE r = "columns"
    <3>1. c = h + 1 + 2 * m /\ m > 0 /\ q = 0 /\ ts[h].type = "SELECT" /\ Begun(ts, h, m, Names)
      BY <2>2 DEF SelectTo
    <3>2. h \in h .. c - 1 /\ \A x \in h + 1 .. h + 2 * m : ts[x] = us[x]
      BY <3>1
    <3>3. Begun(us, h, m, Names)
      BY <3>1, <3>2, BegunAgrees
    <3> QED BY <2>2, <3>1, <3>2, <3>3 DEF SelectTo
  <2> QED BY <1>8, <2>1, <2>2
<1>9. CASE r \in {"from", "table", "qualified"}
  <2>1. CASE r = "from"
    BY <1>1, <1>4, <2>1 DEF SelectTo
  <2>2. CASE r = "table"
    BY <1>1, <1>5, <2>2 DEF SelectTo
  <2>3. CASE r = "qualified"
    <3>1. /\ c = from + 3 /\ q = 1 /\ FromRead(ts, h, m)
          /\ ts[from + 1].type \in Names /\ ts[from + 2].type = "."
      BY <1>1, <2>3 DEF SelectTo
    <3>2. from + 1 \in h .. c - 1 /\ from + 2 \in h .. c - 1 /\ c >= from + 1
      BY <1>3, <3>1
    <3>3. FromRead(us, h, m)
      BY <1>5, <3>1, <3>2
    <3> QED BY <1>1, <2>3, <3>1, <3>2, <3>3 DEF SelectTo
  <2> QED BY <1>9, <2>1, <2>2, <2>3
<1>10. ASSUME NEW n \in 0 .. 4, c = where + n, Ranged(ts, h, m, q),
              n = 0 \/ Condition(ts, where, n)
       PROVE  Ranged(us, h, m, q) /\ (n = 0 \/ Condition(us, where, n))
  <2>1. c >= where /\ c >= where + n
    BY <1>10
  <2>2. Ranged(us, h, m, q)
    BY <1>6, <1>10, <2>1
  <2>3. n # 0 => Condition(us, where, n)
    BY <1>7, <1>10, <2>1
  <2> QED BY <2>2, <2>3
<1>11. CASE r \in {"where", "whereColumn", "equal", "whereValue", "end"}
  <2>1. /\ 0 \in 0 .. 4 /\ 1 \in 0 .. 4 /\ 2 \in 0 .. 4 /\ 3 \in 0 .. 4 /\ 4 \in 0 .. 4
        /\ where + 0 = where
    OBVIOUS
  <2>2. CASE r = "where"
    BY <1>1, <1>2, <1>10, <2>1, <2>2 DEF SelectTo
  <2>3. CASE r = "whereColumn"
    BY <1>1, <1>2, <1>10, <2>1, <2>3 DEF SelectTo
  <2>4. CASE r = "equal"
    BY <1>1, <1>2, <1>10, <2>1, <2>4 DEF SelectTo
  <2>5. CASE r = "whereValue"
    BY <1>1, <1>2, <1>10, <2>1, <2>5 DEF SelectTo
  <2>6. CASE r = "end"
    BY <1>1, <1>2, <1>10, <2>1, <2>6 DEF SelectTo
  <2> QED BY <1>11, <2>2, <2>3, <2>4, <2>5, <2>6
<1> QED BY <1>8, <1>9, <1>11 DEF SelectTo

\* Every SELECT that begins with what has been read goes on with a token that the
\* rule accepts; at its end there is nothing to go on with.
SelectGoesOnAs(ts, h, c, r, m, q, e) ==
  \A l, p \in Nat :
    IsSelect(ts, h, e, l, p)
      => /\ r \notin {"where", "end"} => c <= e /\ ts[c].type \in Accepts[r]
         /\ r = "end" => e = c - 1 /\ l = m /\ p = q

LEMMA SelectForced ==
  ASSUME NEW ts, NEW h \in Nat, NEW c \in Nat, NEW r, NEW m \in Nat, NEW q \in Nat,
         NEW e \in Nat, c - 1 <= e, SelectTo(ts, h, c, r, m, q),
         SelectAhead(ts, h, c, r, m, q) \/ (r = "end" /\ e = c - 1)
  PROVE  SelectGoesOnAs(ts, h, c, r, m, q, e)
<1> SUFFICES ASSUME NEW l \in Nat, NEW p \in Nat, IsSelect(ts, h, e, l, p)
             PROVE  /\ r \notin {"where", "end"} => c <= e /\ ts[c].type \in Accepts[r]
                    /\ r = "end" => e = c - 1 /\ l = m /\ p = q
  BY Zenon DEF SelectGoesOnAs
<1>1. PICK from \in Nat : from = FromAt(h, l)
  BY FromIs
<1>2. PICK where \in Nat : where = from + 2 * p
  OBVIOUS
<1>3. from >= h + 2 /\ (l = 0 => from = h + 2) /\ (l > 0 => from = h + 2 * l)
  BY <1>1, FromIs
<1>4. /\ Ranged(ts, h, l, p)
      /\ e = where - 1 \/ (e = where + 3 /\ Condition(ts, where, 4))
  <2>1. SelectTo(ts, h, e + 1, "end", l, p)
    BY SelectIs
  <2>2. /\ e + 1 = where => e = where - 1
        /\ e + 1 = where + 4 => e = where + 3
    OBVIOUS
  <2> QED BY <1>1, <1>2, <2>1, <2>2 DEF SelectTo
<1>5. /\ Chosen(ts, h, l) /\ FromRead(ts, h, l) /\ ts[from].type = "FROM"
      /\ ts[from + 1].type \in Names
      /\ p = 1 \/ (p = 2 /\ ts[from + 2].type = ".")
  <2>1. IsTable(ts, from, p)
    BY <1>1, <1>4 DEF Ranged
  <2> QED BY <1>1, <1>4, <2>1, TableIs DEF Ranged, FromRead
<1>6. Separator \notin {"FROM", "*", "."}
  BY DEF Separator
<1>7. ASSUME Chosen(ts, h, m), m > 0 => ts[FromAt(h, m)].type # Separator
      PROVE  m = l
  <2>1. ASSUME NEW k \in Nat, k # 0, Chosen(ts, h, k) PROVE ts[h + 1].type \in Names
    <3>1. IsCommaList(ts, h, k, Names)
      BY <2>1 DEF Chosen
    <3>2. \A x \in 1 .. k : ts[h + 2 * x - 1].type \in Names
      BY <3>1, CommaListIs, Zenon
    <3>3. 1 \in 1 .. k /\ h + 2 * 1 - 1 = h + 1
      BY <2>1
    <3>4. ts[h + 2 * 1 - 1].type \in Names
      BY <3>2, <3>3
    <3> QED BY <3>3, <3>4
  <2>2. m = 0 <=> l = 0
    <3>1. "*" \notin Names
      BY DEF Names
    <3>2. /\ m # 0 => ts[h + 1].type \in Names
          /\ l # 0 => ts[h + 1].type \in Names
      BY <1>5, <1>7, <2>1
    <3> QED BY <1>5, <1>7, <3>1, <3>2 DEF Chosen
  <2>3. ASSUME m # 0 PROVE m = l
    <3>1. m > 0 /\ l > 0 /\ l # 0
      BY <2>2, <2>3
    <3>2. IsCommaList(ts, h, m, Names) /\ IsCommaList(ts, h, l, Names)
      BY <1>5, <1>7, <2>3, <3>1 DEF Chosen
    <3>3. FromAt(h, m) = h + 2 * m /\ from = h + 2 * l
      BY <1>3, <3>1, FromIs
    <3>4. ts[h + 2 * m].type # Separator /\ ts[h + 2 * l].type # Separator
      BY <1>5, <1>6, <1>7, <3>1, <3>3
    <3> QED BY <3>2, <3>4, SameLength
  <2> QED BY <2>2, <2>3
<1>8. ASSUME FromRead(ts, h, m) PROVE m = l
  BY <1>6, <1>7, <1>8 DEF FromRead
<1>9. CASE r = "selection"
  <2>1. c = h + 1
    BY <1>9 DEF SelectTo
  <2>2. ts[h + 1].type \in {"*"} \cup Names
    <3>1. CASE l = 0
      BY <1>5, <3>1 DEF Chosen
    <3>2. CASE l # 0
      <4>1. IsCommaList(ts, h, l, Names)
        BY <1>5, <3>2 DEF Chosen
      <4>2. ts[h + 2 * l].type # Separator
        BY <1>3, <1>5, <1>6, <3>2
      <4>3. Begun(ts, h, 0, Names) /\ h + 2 * 0 + 1 = h + 1
        BY NothingBegun
      <4>4. ts[h + 2 * 0 + 1].type \in Names
        BY <4>1, <4>2, <4>3, OneMoreItem
      <4> QED BY <4>3, <4>4
    <3> QED BY <3>1, <3>2
  <2>3. c <= e
    BY <1>2, <1>3, <1>4, <1>5, <2>1
  <2> QED BY <1>9, <2>1, <2>2, <2>3, AcceptsIs
<1>10. CASE r = "columns"
  <2>1. c = h + 1 + 2 * m /\ m > 0 /\ Begun(ts, h, m, Names)
    BY <1>10 DEF SelectTo
  <2>2. l # 0
    <3>1. 1 \in 1 .. m /\ h + 2 * 1 - 1 = h + 1
      BY <2>1
    <3>2. ts[h + 2 * 1 - 1].type \in Names
      BY <2>1, <3>1 DEF Begun
    <3>3. "*" \notin Names
      BY DEF Names
    <3> QED BY <1>5, <3>1, <3>2, <3>3 DEF Chosen
  <2>3. IsCommaList(ts, h, l, Names) /\ ts[h + 2 * l].type # Separator
    BY <1>3, <1>5, <1>6, <2>2 DEF Chosen
  <2>4. m + 1 <= l /\ ts[h + 2 * m + 1].type \in Names
    BY <2>1, <2>3, OneMoreItem
  <2>5. h + 2 * m + 1 = c /\ c <= e
    BY <1>2, <1>3, <1>4, <1>5, <2>1, <2>2, <2>4
  <2> QED BY <1>10, <2>4, <2>5, AcceptsIs
<1>11. CASE r = "from"
  <2>1. c = FromAt(h, m) /\ Chosen(ts, h, m) /\ (m > 0 => ts[c].type # Separator)
    BY <1>11 DEF SelectTo, SelectAhead
  <2>2. m = l
    BY <1>7, <2>1
  <2> QED BY <1>1, <1>2, <1>4, <1>5, <1>11, <2>1, <2>2, AcceptsIs
<1>12. CASE r = "table"
  <2>1. c = from + 1
    BY <1>1, <1>8, <1>12 DEF SelectTo
  <2> QED BY <1>2, <1>4, <1>5, <1>12, <2>1, AcceptsIs
<1>13. CASE r = "qualified"
  <2>1. c = from + 3 /\ ts[from + 2].type = "."
    BY <1>1, <1>8, <1>13 DEF SelectTo
  <2>2. p = 2
    <3>1. ASSUME p = 1 PROVE FALSE
      <4>1. where = from + 2 /\ e = where + 3
        BY <1>2, <1>4, <2>1, <3>1
      <4>2. ts[where].type = "WHERE"
        BY <1>4, <4>1 DEF Condition
      <4> QED BY <2>1, <4>1, <4>2
    <3> QED BY <1>5, <3>1
  <2>3. ts[from + 3].type \in Names
    BY <1>1, <1>4, <2>2, TableIs DEF Ranged
  <2> QED BY <1>2, <1>4, <1>13, <2>1, <2>2, <2>3, AcceptsIs
\* Behind the table, when either there is WHERE or nothing comes after it.
<1>14. ASSUME Ranged(ts, h, m, q), c >= from + 2 * q,
              \/ c = from + 2 * q /\ ts[c].type # "WHERE" /\ (q = 1 => ts[c].type # ".")
              \/ c > from + 2 * q /\ ts[from + 2 * q].type = "WHERE"
              \/ c = from + 2 * q /\ e = c - 1
       PROVE  m = l /\ p = q /\ (c = where => e = where - 1)
              /\ (c > where => e = where + 3 /\ Condition(ts, where, 4))
  <2>1. m = l
    BY <1>8, <1>14 DEF Ranged
  <2>2. q = 1 \/ (q = 2 /\ ts[from + 2].type = ".")
    BY <1>1, <1>14, <2>1, TableIs DEF Ranged
  <2>3. ASSUME e = where + 3 PROVE ts[where].type = "WHERE"
    BY <1>4, <2>3 DEF Condition
  <2>4. CASE q = 1
    <3>1. p # 2
      BY <1>2, <1>4, <1>5, <1>14, <2>4
    <3>2. p = q /\ where = from + 2
      BY <1>2, <1>5, <2>4, <3>1
    <3> QED BY <1>4, <1>14, <2>1, <2>3, <2>4, <3>2
  <2>5. CASE q = 2
    <3>1. p # 1
      <4>1. ASSUME p = 1 PROVE FALSE
        <5>1. where = from + 2 /\ e = where + 3
          BY <1>2, <1>4, <1>14, <2>5, <4>1
        <5> QED BY <2>2, <2>3, <2>5, <5>1
      <4> QED BY <4>1
    <3>2. p = q /\ where = from + 4
      BY <1>2, <1>5, <2>5, <3>1
    <3> QED BY <1>4, <1>14, <2>1, <2>3, <2>5, <3>2
  <2> QED BY <2>2, <2>4, <2>5
<1>15. CASE r \in {"whereColumn", "equal", "whereValue", "end"}
  <2>1. /\ Ranged(ts, h, m, q)
        /\ \/ r = "end" /\ c = FromAt(h, m) + 2 * q
           \/ /\ c > FromAt(h, m) + 2 * q /\ ts[FromAt(h, m) + 2 * q].type = "WHERE"
              /\ r = "whereColumn" => c = FromAt(h, m) + 2 * q + 1
              /\ r = "equal" => c = FromAt(h, m) + 2 * q + 2
              /\ r = "whereValue" => c = FromAt(h, m) + 2 * q + 3
              /\ r = "end" => c = FromAt(h, m) + 2 * q + 4
    <3>0. FromAt(h, m) \in Nat
      BY FromIs
    <3>1. PICK w \in Nat : w = FromAt(h, m) + 2 * q
      BY <3>0
    <3> QED BY <1>15, <3>1 DEF SelectTo, Condition
  <2>2. FromAt(h, m) = from
    BY <1>1, <1>8, <2>1 DEF Ranged
  <2>3. /\ m = l /\ p = q /\ (c = where => e = where - 1)
        /\ c > where => e = where + 3 /\ Condition(ts, where, 4)
    <3>1. \/ c = from + 2 * q /\ ts[c].type # "WHERE" /\ (q = 1 => ts[c].type # ".")
          \/ c > from + 2 * q /\ ts[from + 2 * q].type = "WHERE"
          \/ c = from + 2 * q /\ e = c - 1
      BY <2>1, <2>2 DEF SelectAhead
    <3>2. c >= from + 2 * q
      BY <3>1
    <3> QED BY <1>14, <2>1, <3>1, <3>2
  <2> QED BY <1>2, <1>15, <2>1, <2>2, <2>3, AcceptsIs DEF Condition
<1> QED BY <1>9, <1>10, <1>11, <1>12, <1>13, <1>15 DEF SelectTo

-----------------------------------------------------------------------------
(* The statement that a stretch of tokens is.                              *)

LEMMA MeansInsert ==
  ASSUME NEW ts, NEW h \in Nat, NEW e \in Nat, NEW q \in Nat, NEW m \in Nat, NEW v \in Nat,
         IsInsert(ts, h, e, q, m, v)
  PROVE  StatementsAt(ts, h, e) = {InsertOf(ts, h, q, m, v)}
<1>1. InsertTo(ts, h, e + 1, "end", q, m, v) /\ InsertAhead(ts, e + 1, "end", q)
      /\ e + 1 \in Nat
  BY InsertIs DEF InsertAhead
<1>2. q \in 1 .. 2 /\ m \in 1 .. e - h /\ v \in 1 .. e - h
  <2>1. q \in 1 .. 2 /\ e = h + 1 + 2 * q + 2 * m + 2 + 2 * v
    BY DEF IsInsert, IsTable
  <2>2. m > 0 /\ v > 0
    BY NotEmpty DEF IsInsert
  <2> QED BY <2>1, <2>2
<1>3. ASSUME NEW a \in Nat, NEW b \in Nat, NEW d \in Nat, IsInsert(ts, h, e, a, b, d)
      PROVE  a = q /\ b = m /\ d = v
  <2>1. PICK c, r : c \in Nat /\ c = e + 1 /\ r = "end"
    BY <1>1
  <2>2. InsertTo(ts, h, c, r, q, m, v) /\ InsertAhead(ts, c, r, q)
    BY <1>1, <2>1
  <2>3. r = "end" => a = q /\ b = m /\ d = v
    <3>1. InsertGoesOnAs(ts, h, c, r, q, m, v)
      BY <2>1, <2>2, InsertForced
    <3> QED BY <1>3, <3>1, Zenon DEF InsertGoesOnAs
  <2> QED BY <2>1, <2>3
<1>4. ASSUME NEW b, NEW d PROVE ~IsSelect(ts, h, e, b, d)
  BY DEF IsInsert, IsSelect
<1>5. ASSUME NEW p \in (1 .. 2) \X (1 .. e - h) \X (1 .. e - h),
             IsInsert(ts, h, e, p[1], p[2], p[3])
      PROVE  InsertOf(ts, h, p[1], p[2], p[3]) = InsertOf(ts, h, q, m, v)
  <2>1. p[1] \in Nat /\ p[2] \in Nat /\ p[3] \in Nat
    OBVIOUS
  <2> QED BY <1>3, <1>5, <2>1
<1>6. PICK p \in (1 .. 2) \X (1 .. e - h) \X (1 .. e - h) : p[1] = q /\ p[2] = m /\ p[3] = v
  <2>1. <<q, m, v>> \in (1 .. 2) \X (1 .. e - h) \X (1 .. e - h)
    BY <1>2
  <2> QED BY <2>1
<1>7. IsInsert(ts, h, e, p[1], p[2], p[3]) /\ InsertOf(ts, h, p[1], p[2], p[3]) = InsertOf(ts, h, q, m, v)
  BY <1>6
<1> QED BY <1>4, <1>5, <1>7, Zenon DEF StatementsAt

LEMMA MeansSelect ==
  ASSUME NEW ts, NEW h \in Nat, NEW e \in Nat, NEW m \in Nat, NEW q \in Nat,
         IsSelect(ts, h, e, m, q)
  PROVE  StatementsAt(ts, h, e) = {SelectOf(ts, h, e, m, q)}
<1>1. SelectTo(ts, h, e + 1, "end", m, q) /\ e + 1 \in Nat /\ e = (e + 1) - 1 /\ (e + 1) - 1 <= e
  BY SelectIs
<1>2. q \in 1 .. 2 /\ m \in 0 .. e - h
  <2>1. PICK from \in Nat : from = FromAt(h, m)
    BY FromIs
  <2>2. q \in 1 .. 2 /\ e \in {from + 2 * q - 1, from + 2 * q + 3}
    BY <2>1 DEF IsSelect, IsTable
  <2>3. from >= h + 2 /\ (m > 0 => from = h + 2 * m)
    BY <2>1, FromIs
  <2> QED BY <2>2, <2>3
<1>3. ASSUME NEW a \in Nat, NEW b \in Nat, IsSelect(ts, h, e, a, b)
      PROVE  a = m /\ b = q
  <2>1. PICK c, r : c \in Nat /\ c = e + 1 /\ r = "end"
    BY <1>1
  <2>2. SelectTo(ts, h, c, r, m, q) /\ (r = "end" /\ e = c - 1) /\ c - 1 <= e
    BY <1>1, <2>1
  <2>3. r = "end" => a = m /\ b = q
    <3>1. SelectGoesOnAs(ts, h, c, r, m, q, e)
      BY <2>1, <2>2, SelectForced
    <3> QED BY <1>3, <3>1, Zenon DEF SelectGoesOnAs
  <2> QED BY <2>1, <2>3
<1>4. ASSUME NEW a, NEW b, NEW d PROVE ~IsInsert(ts, h, e, a, b, d)
  BY DEF IsInsert, IsSelect
<1>5. ASSUME NEW p \in (0 .. e - h) \X (1 .. 2), IsSelect(ts, h, e, p[1], p[2])
      PROVE  SelectOf(ts, h, e, p[1], p[2]) = SelectOf(ts, h, e, m, q)
  <2>1. p[1] \in Nat /\ p[2] \in Nat
    OBVIOUS
  <2> QED BY <1>3, <1>5, <2>1
<1>6. PICK p \in (0 .. e - h) \X (1 .. 2) : p[1] = m /\ p[2] = q
  <2>1. <<m, q>> \in (0 .. e - h) \X (1 .. 2)
    BY <1>2
  <2> QED BY <2>1
<1>7. IsSelect(ts, h, e, p[1], p[2]) /\ SelectOf(ts, h, e, p[1], p[2]) = SelectOf(ts, h, e, m, q)
  BY <1>6
<1> QED BY <1>4, <1>5, <1>7, Zenon DEF StatementsAt

LEMMA MeansSomething ==
  ASSUME NEW ts, NEW h \in Nat, NEW e \in Nat, StatementsAt(ts, h, e) # {}
  PROVE  \/ \E q, m, v \in Nat : IsInsert(ts, h, e, q, m, v)
         \/ \E m, q \in Nat : IsSelect(ts, h, e, m, q)
<1>1. PICK s : s \in StatementsAt(ts, h, e)
  OBVIOUS
<1>2. \/ \E p \in (1 .. 2) \X (1 .. e - h) \X (1 .. e - h) : IsInsert(ts, h, e, p[1], p[2], p[3])
      \/ \E p \in (0 .. e - h) \X (1 .. 2) : IsSelect(ts, h, e, p[1], p[2])
  BY <1>1, Zenon DEF StatementsAt
<1>3. CASE \E p \in (1 .. 2) \X (1 .. e - h) \X (1 .. e - h) : IsInsert(ts, h, e, p[1], p[2], p[3])
  <2>1. PICK p \in (1 .. 2) \X (1 .. e - h) \X (1 .. e - h) : IsInsert(ts, h, e, p[1], p[2], p[3])
    BY <1>3
  <2>2. p[1] \in Nat /\ p[2] \in Nat /\ p[3] \in Nat
    OBVIOUS
  <2> QED BY <2>1, <2>2
<1>4. CASE \E p \in (0 .. e - h) \X (1 .. 2) : IsSelect(ts, h, e, p[1], p[2])
  <2>1. PICK p \in (0 .. e - h) \X (1 .. 2) : IsSelect(ts, h, e, p[1], p[2])
    BY <1>4
  <2>2. p[1] \in Nat /\ p[2] \in Nat
    OBVIOUS
  <2> QED BY <2>1, <2>2
<1> QED BY <1>2, <1>3, <1>4

-----------------------------------------------------------------------------
(* Scripts.                                                                *)

Semicolon == ";"

LEMMA BoundariesAre ==
  /\ Verbs \subseteq Boundaries /\ Semicolon \in Boundaries /\ Semicolon \notin Verbs
  /\ "INSERT" \in Verbs /\ "SELECT" \in Verbs
  /\ \A t \in Boundaries : t \in Verbs \/ t = Semicolon
  BY Zenon DEF Verbs, Boundaries, Semicolon

LEMMA ScriptIs ==
  ASSUME NEW ts, NEW n
  PROVE  IsScript(ts, n)
           <=> /\ \A k \in 1 .. n : ts[k].type = Semicolon \/ \E h \in Heads(ts, n) : Within(ts, h, k)
               /\ \A h \in Heads(ts, n) : StatementsAt(ts, h, EndOf(ts, n, h)) # {}
  BY Zenon DEF IsScript, Semicolon

\* A statement begins with the h-th token and goes on up to the k-th at least.
Goes(ts, h, k) == h \in 1 .. k /\ ts[h].type \in Verbs /\ Within(ts, h, k)

LEMMA EndOfIs ==
  ASSUME NEW ts, NEW n \in Nat, NEW h \in 1 .. n
  PROVE  /\ EndOf(ts, n, h) \in h .. n
         /\ \A k \in h .. n : Within(ts, h, k) => k <= EndOf(ts, n, h)
<1> DEFINE T == {k \in h .. n : Within(ts, h, k)}
<1>1. h \in T
  <2>1. h + 1 .. h = {}
    OBVIOUS
  <2> QED BY <2>1 DEF Within
<1>2. T \subseteq 0 .. n /\ T \subseteq Nat
  OBVIOUS
<1>3. EndOf(ts, n, h) = Max(T)
  BY DEF EndOf
<1>4. \A k \in h .. n : Within(ts, h, k) => k \in T
  OBVIOUS
<1>5. T \subseteq h .. n
  OBVIOUS
<1> HIDE DEF T
<1>6. PICK m \in T : \A y \in T : y <= m
  BY <1>1, <1>2, GreatestNat
<1>7. Max(T) = m
  BY <1>2, <1>6, MaxIs
<1> QED BY <1>3, <1>4, <1>5, <1>6, <1>7

\* A statement that goes up to the last token ends there.
LEMMA EndIsLast ==
  ASSUME NEW ts, NEW n \in Nat, NEW h \in 1 .. n, Within(ts, h, n)
  PROVE  EndOf(ts, n, h) = n
<1>1. n \in h .. n
  OBVIOUS
<1> QED BY <1>1, EndOfIs

\* Behind a verb or a semicolon no statement goes on.
LEMMA NotBeyond ==
  ASSUME NEW ts, NEW n \in Nat, NEW h \in 1 .. n, NEW k \in Nat, n < k,
         ts[n + 1].type \in Boundaries
  PROVE  ~Within(ts, h, k)
<1>1. n + 1 \in h + 1 .. k
  OBVIOUS
<1> QED BY <1>1 DEF Within

LEMMA EndStays ==
  ASSUME NEW ts, NEW n \in Nat, NEW h \in 1 .. n, NEW e \in Nat, n < e,
         ts[n + 1].type \in Boundaries
  PROVE  EndOf(ts, e, h) = EndOf(ts, n, h)
<1>1. {k \in h .. e : Within(ts, h, k)} = {k \in h .. n : Within(ts, h, k)}
  <2>1. \A k \in h .. e : Within(ts, h, k) => k \in h .. n
    <3> SUFFICES ASSUME NEW k \in h .. e, Within(ts, h, k) PROVE k \in h .. n
      OBVIOUS
    <3>1. k \in Nat
      OBVIOUS
    <3>2. ~(n < k)
      BY <3>1, NotBeyond
    <3> QED BY <3>1, <3>2
  <2>2. \A k \in h .. n : k \in h .. e
    OBVIOUS
  <2> QED BY <2>1, <2>2
<1> QED BY <1>1 DEF EndOf

StatementFrom(ts, n, h) == CHOOSE s \in StatementsAt(ts, h, EndOf(ts, n, h)) : TRUE

\* The statements of a script, by their first tokens.
LEMMA ScriptAt ==
  ASSUME NEW ts, NEW n \in Nat, NEW list, list = InOrder(Heads(ts, n), n)
  PROVE  ScriptOf(ts, n) = [k \in DOMAIN list |-> StatementFrom(ts, n, list[k])]
  BY DEF ScriptOf, StatementFrom

\* A semicolon adds nothing.
LEMMA ScriptSemicolon ==
  ASSUME NEW ts, NEW n \in Nat, ts[n + 1].type = Semicolon, IsScript(ts, n)
  PROVE  IsScript(ts, n + 1) /\ ScriptOf(ts, n + 1) = ScriptOf(ts, n)
<1>1. Heads(ts, n + 1) = Heads(ts, n)
  <2>1. ts[n + 1].type \notin Verbs
    BY BoundariesAre
  <2> QED BY <2>1 DEF Heads
<1>2. \A h \in Heads(ts, n) : h \in 1 .. n /\ EndOf(ts, n + 1, h) = EndOf(ts, n, h)
  BY EndStays, BoundariesAre DEF Heads
<1>3. IsScript(ts, n + 1)
  <2>1. \A k \in 1 .. n + 1 : k \in 1 .. n \/ k = n + 1
    OBVIOUS
  <2>2. /\ \A k \in 1 .. n : ts[k].type = Semicolon \/ \E h \in Heads(ts, n) : Within(ts, h, k)
        /\ \A h \in Heads(ts, n) : StatementsAt(ts, h, EndOf(ts, n, h)) # {}
    BY ScriptIs, Zenon
  <2>3. /\ \A k \in 1 .. n + 1 : ts[k].type = Semicolon \/ \E h \in Heads(ts, n + 1) : Within(ts, h, k)
        /\ \A h \in Heads(ts, n + 1) : StatementsAt(ts, h, EndOf(ts, n + 1, h)) # {}
    BY <1>1, <1>2, <2>1, <2>2, Zenon
  <2> QED BY <2>3, ScriptIs, Zenon
<1>4. PICK list : list = InOrder(Heads(ts, n), n)
  OBVIOUS
<1>5. list = InOrder(Heads(ts, n + 1), n + 1)
  <2>1. n + 1 \notin Heads(ts, n)
    BY DEF Heads
  <2> QED BY <1>1, <1>4, <2>1, InOrderSnoc
<1>6. \A k \in DOMAIN list : list[k] \in Heads(ts, n)
  <2>1. list \in Seq(Heads(ts, n) \cap 1 .. n)
    BY <1>4, InOrderType
  <2> QED BY <2>1
<1>7. n + 1 \in Nat
  OBVIOUS
<1>8. /\ ScriptOf(ts, n) = [k \in DOMAIN list |-> StatementFrom(ts, n, list[k])]
      /\ ScriptOf(ts, n + 1) = [k \in DOMAIN list |-> StatementFrom(ts, n + 1, list[k])]
  <2>1. PICK j \in Nat : j = n + 1
    BY <1>7
  <2>2. list = InOrder(Heads(ts, j), j)
    BY <1>5, <2>1
  <2>3. ScriptOf(ts, j) = [k \in DOMAIN list |-> StatementFrom(ts, j, list[k])]
    BY <2>2, ScriptAt
  <2>4. ScriptOf(ts, n) = [k \in DOMAIN list |-> StatementFrom(ts, n, list[k])]
    BY <1>4, ScriptAt
  <2> QED BY <2>1, <2>3, <2>4
<1>9. \A k \in DOMAIN list : StatementFrom(ts, n + 1, list[k]) = StatementFrom(ts, n, list[k])
  BY <1>2, <1>6 DEF StatementFrom
<1> QED BY <1>3, <1>8, <1>9


OneMore(list, stmt) == Append(list, stmt)

\* A statement behind a script makes a script with one statement more.
LEMMA ScriptGrows ==
  ASSUME NEW ts, NEW h \in Nat, NEW e \in Nat, Goes(ts, h, e), IsScript(ts, h - 1),
         NEW stmt, StatementsAt(ts, h, e) = {stmt}
  PROVE  IsScript(ts, e) /\ ScriptOf(ts, e) = OneMore(ScriptOf(ts, h - 1), stmt)
<1>0. PICK n \in Nat : n = h - 1 /\ h = n + 1 /\ n < e
  BY DEF Goes
<1>1. /\ h \in 1 .. e /\ ts[h].type \in Verbs /\ Within(ts, h, e) /\ ts[n + 1].type \in Boundaries
      /\ \A k \in h + 1 .. e : ts[k].type \notin Verbs
  BY <1>0, BoundariesAre DEF Goes, Within
<1>2. Heads(ts, e) = Heads(ts, n) \cup {h}
  <2>1. \A k \in 1 .. e : k \in 1 .. n \/ k = h \/ k \in h + 1 .. e
    BY <1>0
  <2>2. 1 .. n \subseteq 1 .. e
    BY <1>0
  <2> QED BY <1>1, <2>1, <2>2 DEF Heads
<1>3. \A g \in Heads(ts, n) : g \in 1 .. n /\ EndOf(ts, e, g) = EndOf(ts, n, g)
  BY <1>0, <1>1, EndStays DEF Heads
<1>4. EndOf(ts, e, h) = e
  BY <1>1, EndIsLast
<1>5. IsScript(ts, e)
  <2>1. \A k \in 1 .. e : k \in 1 .. n \/ (k \in h .. e /\ Within(ts, h, k))
    <3> SUFFICES ASSUME NEW k \in 1 .. e, k \notin 1 .. n PROVE k \in h .. e /\ Within(ts, h, k)
      OBVIOUS
    <3>1. k \in h .. e /\ h + 1 .. k \subseteq h + 1 .. e
      BY <1>0
    <3> QED BY <1>1, <3>1 DEF Within
  <2>2. /\ \A k \in 1 .. n : ts[k].type = Semicolon \/ \E g \in Heads(ts, n) : Within(ts, g, k)
        /\ \A g \in Heads(ts, n) : StatementsAt(ts, g, EndOf(ts, n, g)) # {}
    BY <1>0, ScriptIs, Zenon
  <2>3. StatementsAt(ts, h, e) # {}
    OBVIOUS
  <2>4. /\ \A k \in 1 .. e : ts[k].type = Semicolon \/ \E g \in Heads(ts, e) : Within(ts, g, k)
        /\ \A g \in Heads(ts, e) : StatementsAt(ts, g, EndOf(ts, e, g)) # {}
    BY <1>2, <1>3, <1>4, <2>1, <2>2, <2>3, Zenon
  <2> QED BY <2>4, ScriptIs, Zenon
<1>6. PICK old : old = InOrder(Heads(ts, n), n)
  OBVIOUS
<1>7. PICK new : new = InOrder(Heads(ts, e), e)
  OBVIOUS
<1>8. new = Append(old, h)
  <2>1. InOrder(Heads(ts, e), e) = InOrder(Heads(ts, e), h)
    <3>1. Heads(ts, e) \cap h + 1 .. e = {}
      BY <1>1 DEF Heads
    <3>2. h <= e
      BY <1>1
    <3> QED BY <3>1, <3>2, InOrderGap
  <2>2. InOrder(Heads(ts, e), h) = Append(InOrder(Heads(ts, n), n), h)
    <3>1. \A k \in 1 .. n : k \in Heads(ts, n) <=> k \in Heads(ts, e)
      BY <1>0, <1>2
    <3>2. n + 1 .. h = {h} /\ h \in Heads(ts, e) /\ n < h
      BY <1>0, <1>2
    <3>3. Heads(ts, e) \cap n + 1 .. h = {h}
      BY <3>2
    <3> QED BY <3>1, <3>2, <3>3, InOrderLast
  <2> QED BY <1>6, <1>7, <2>1, <2>2
<1>9. /\ ScriptOf(ts, n) = [k \in DOMAIN old |-> StatementFrom(ts, n, old[k])]
      /\ ScriptOf(ts, e) = [k \in DOMAIN new |-> StatementFrom(ts, e, new[k])]
  BY <1>6, <1>7, ScriptAt
<1>10. old \in Seq(1 .. n) /\ \A k \in DOMAIN old : old[k] \in Heads(ts, n)
  <2>1. old \in Seq(Heads(ts, n) \cap 1 .. n)
    BY <1>6, InOrderType
  <2>2. Heads(ts, n) \cap 1 .. n = Heads(ts, n)
    BY DEF Heads
  <2>3. Heads(ts, n) \subseteq 1 .. n
    BY DEF Heads
  <2> QED BY <2>1, <2>2, <2>3
<1>11. \A k \in DOMAIN old : StatementFrom(ts, e, old[k]) = StatementFrom(ts, n, old[k])
  BY <1>3, <1>10 DEF StatementFrom
<1>12. StatementFrom(ts, e, h) = stmt
  BY <1>4 DEF StatementFrom
<1>13. ScriptOf(ts, e) = Append(ScriptOf(ts, n), stmt)
  <2>1. PICK l \in Nat : l = Len(old) /\ DOMAIN old = 1 .. l
    BY <1>10
  <2>2. /\ DOMAIN new = 1 .. l + 1 /\ new[l + 1] = h
        /\ \A k \in 1 .. l : new[k] = old[k]
    BY <1>8, <1>10, <2>1
  <2>3. PICK F : F = ScriptOf(ts, n)
    OBVIOUS
  <2>4. PICK G : G = ScriptOf(ts, e)
    OBVIOUS
  <2>5. F = [k \in 1 .. l |-> StatementFrom(ts, n, old[k])]
    BY <1>9, <2>1, <2>3
  <2>6. G = [k \in 1 .. l + 1 |-> StatementFrom(ts, e, new[k])]
    BY <1>9, <2>2, <2>4
  <2>7. PICK V : V = {F[k] : k \in 1 .. l} \cup {stmt}
    OBVIOUS
  <2>8. \A k \in 1 .. l : F[k] \in V /\ G[k] = F[k]
    BY <1>11, <2>1, <2>2, <2>5, <2>6, <2>7
  <2>9. stmt \in V /\ G[l + 1] = stmt
    BY <1>12, <2>2, <2>6, <2>7
  <2>10. F \in Seq(V) /\ Len(F) = l
    <3>1. F = [k \in 1 .. l |-> F[k]]
      BY <2>5
    <3> QED BY <2>8, <3>1, IsSequence
  <2>11. G \in Seq(V) /\ Len(G) = l + 1
    <3>1. G = [k \in 1 .. l + 1 |-> G[k]] /\ l + 1 \in Nat
      BY <2>6
    <3>2. \A k \in 1 .. l + 1 : k \in 1 .. l \/ k = l + 1
      OBVIOUS
    <3>3. \A k \in 1 .. l + 1 : G[k] \in V
      BY <2>8, <2>9, <3>2
    <3> QED BY <3>1, <3>3, IsSequence
  <2>12. G = Append(F, stmt)
    BY <2>8, <2>9, <2>10, <2>11, IsAppend
  <2> QED BY <2>3, <2>4, <2>12
<1>14. ScriptOf(ts, h - 1) = ScriptOf(ts, n)
  BY <1>0
<1> QED BY <1>5, <1>13, <1>14, Zenon DEF OneMore


\* A script is made of its tokens.
LEMMA ScriptAgrees ==
  ASSUME NEW ts, NEW us, NEW n \in Nat, \A x \in 1 .. n : ts[x] = us[x], IsScript(ts, n)
  PROVE  IsScript(us, n)
<1>1. Heads(ts, n) = Heads(us, n)
  BY DEF Heads
<1>2. ASSUME NEW h \in 1 .. n, NEW k \in 1 .. n
      PROVE  Within(ts, h, k) <=> Within(us, h, k)
  <2>1. h + 1 .. k \subseteq 1 .. n
    OBVIOUS
  <2> QED BY <2>1 DEF Within
<1>3. ASSUME NEW h \in 1 .. n
      PROVE  /\ EndOf(ts, n, h) = EndOf(us, n, h)
             /\ EndOf(ts, n, h) \in h .. n
  <2>1. \A k \in h .. n : k \in 1 .. n
    OBVIOUS
  <2>2. {k \in h .. n : Within(ts, h, k)} = {k \in h .. n : Within(us, h, k)}
    BY <1>2, <2>1
  <2> QED BY <2>2, EndOfIs DEF EndOf
<1>4. ASSUME NEW h \in 1 .. n, NEW e \in h .. n, StatementsAt(ts, h, e) # {}
      PROVE  StatementsAt(us, h, e) # {}
  <2>0. /\ h \in Nat /\ e \in Nat /\ e + 1 \in Nat
        /\ \A x \in h .. (e + 1) - 1 : ts[x] = us[x]
    OBVIOUS
  <2>1. CASE \E q, m, v \in Nat : IsInsert(ts, h, e, q, m, v)
    <3>1. PICK q \in Nat, m \in Nat, v \in Nat : IsInsert(ts, h, e, q, m, v)
      BY <2>1
    <3>2. InsertTo(us, h, e + 1, "end", q, m, v)
      <4>1. InsertTo(ts, h, e + 1, "end", q, m, v)
        BY <2>0, <3>1, InsertIs
      <4> QED BY <2>0, <4>1, InsertAgrees
    <3>3. IsInsert(us, h, e, q, m, v)
      BY <2>0, <3>2, InsertIs
    <3>4. PICK one : one = InsertOf(us, h, q, m, v)
      OBVIOUS
    <3>5. StatementsAt(us, h, e) = {one}
      BY <2>0, <3>3, <3>4, MeansInsert
    <3> QED BY <3>5
  <2>2. CASE \E m, q \in Nat : IsSelect(ts, h, e, m, q)
    <3>1. PICK m \in Nat, q \in Nat : IsSelect(ts, h, e, m, q)
      BY <2>2
    <3>2. SelectTo(us, h, e + 1, "end", m, q)
      <4>1. SelectTo(ts, h, e + 1, "end", m, q)
        BY <2>0, <3>1, SelectIs
      <4> QED BY <2>0, <4>1, SelectAgrees
    <3>3. IsSelect(us, h, e, m, q)
      BY <2>0, <3>2, SelectIs
    <3>4. PICK one : one = SelectOf(us, h, e, m, q)
      OBVIOUS
    <3>5. StatementsAt(us, h, e) = {one}
      BY <2>0, <3>3, <3>4, MeansSelect
    <3> QED BY <3>5
  <2> QED BY <1>4, <2>0, <2>1, <2>2, MeansSomething
<1>5. /\ \A k \in 1 .. n : ts[k].type = Semicolon \/ \E h \in Heads(ts, n) : Within(ts, h, k)
      /\ \A h \in Heads(ts, n) : StatementsAt(ts, h, EndOf(ts, n, h)) # {}
  BY ScriptIs, Zenon
<1>6. Heads(ts, n) \subseteq 1 .. n
  BY DEF Heads
<1>7. ASSUME NEW k \in 1 .. n
      PROVE  us[k].type = Semicolon \/ \E h \in Heads(us, n) : Within(us, h, k)
  BY <1>1, <1>2, <1>5, <1>6
<1>8. ASSUME NEW h \in Heads(us, n)
      PROVE  StatementsAt(us, h, EndOf(us, n, h)) # {}
  BY <1>1, <1>3, <1>4, <1>5, <1>6
<1> QED BY <1>7, <1>8, ScriptIs, Zenon

\* The statement that begins with h, whatever comes after it.
LEMMA StatementIn ==
  ASSUME NEW us, NEW n \in Nat, NEW h \in Nat, NEW k \in Nat, Goes(us, h, k), k <= n,
         IsScript(us, n)
  PROVE  \E e \in k .. n : StatementsAt(us, h, e) # {}
<1>1. h \in 1 .. n /\ us[h].type \in Verbs /\ Within(us, h, k) /\ k \in h .. n
  BY DEF Goes
<1>2. h \in Heads(us, n)
  BY <1>1 DEF Heads
<1>3. StatementsAt(us, h, EndOf(us, n, h)) # {}
  BY <1>2, ScriptIs, Zenon
<1>4. EndOf(us, n, h) \in k .. n
  <2>1. EndOf(us, n, h) \in h .. n /\ k <= EndOf(us, n, h)
    BY <1>1, EndOfIs
  <2> QED BY <2>1
<1> QED BY <1>3, <1>4


-----------------------------------------------------------------------------
(* What the parser has read of a statement.                                *)

InsertRead(ts, h, c, r, q, m, v) == InsertTo(ts, h, c, r, q, m, v) /\ InsertAhead(ts, c, r, q)
SelectRead(ts, h, c, r, m, q)    == SelectTo(ts, h, c, r, m, q) /\ SelectAhead(ts, h, c, r, m, q)

\* At rule r the tokens from the h-th on, up to the c-th, begin a statement.
HasRead(ts, h, c, r) ==
  \/ \E q, m, v \in Nat : InsertRead(ts, h, c, r, q, m, v)
  \/ \E m, q \in Nat : SelectRead(ts, h, c, r, m, q)

LEMMA ReadFirst ==
  ASSUME NEW ts, NEW h \in Nat, NEW c \in Nat, NEW r
  PROVE  /\ \A q, m, v \in Nat : InsertTo(ts, h, c, r, q, m, v) => ts[h].type = "INSERT" /\ h < c
         /\ \A m, q \in Nat : SelectTo(ts, h, c, r, m, q) => ts[h].type = "SELECT" /\ h < c
<1>1. ASSUME NEW q \in Nat, NEW m \in Nat, NEW v \in Nat, InsertTo(ts, h, c, r, q, m, v)
      PROVE  ts[h].type = "INSERT" /\ h < c
  <2>1. ts[h].type = "INSERT"
    BY <1>1 DEF InsertTo, Valued, Closed, Opened, InsertInto
  <2>2. h < c
    BY <1>1 DEF InsertTo
  <2> QED BY <2>1, <2>2
<1>2. ASSUME NEW m \in Nat, NEW q \in Nat, SelectTo(ts, h, c, r, m, q)
      PROVE  ts[h].type = "SELECT" /\ h < c
  <2>1. ts[h].type = "SELECT"
    BY <1>2 DEF SelectTo, Ranged, FromRead, Chosen
  <2>2. PICK from \in Nat : from = FromAt(h, m) /\ from >= h + 2
    BY FromIs
  <2>3. h < c
    BY <1>2, <2>2 DEF SelectTo
  <2> QED BY <2>1, <2>3
<1> QED BY <1>1, <1>2

\* No statement that begins with what has been read goes on without a token that
\* the rule accepts; one that has been read to its end does not go on at all.
LEMMA MustGoOn ==
  ASSUME NEW ts, NEW us, NEW h \in Nat, NEW c \in Nat, NEW r, NEW e \in Nat,
         HasRead(ts, h, c, r), \A x \in h .. c : ts[x] = us[x],
         c - 1 <= e, StatementsAt(us, h, e) # {}, r # "where"
  PROVE  IF r = "end" THEN e = c - 1 ELSE c <= e /\ us[c].type \in Accepts[r]
<1>1. CASE \E q, m, v \in Nat : InsertRead(ts, h, c, r, q, m, v)
  <2>1. PICK q \in Nat, m \in Nat, v \in Nat : InsertRead(ts, h, c, r, q, m, v)
    BY <1>1
  <2>2. \A x \in h .. c - 1 : ts[x] = us[x]
    OBVIOUS
  <2>3. InsertTo(us, h, c, r, q, m, v)
    BY <2>1, <2>2, InsertAgrees DEF InsertRead
  <2>4. us[h].type = "INSERT" /\ c \in h .. c
    <3>1. us[h].type = "INSERT" /\ h < c
      BY <2>3, ReadFirst, Zenon
    <3> QED BY <3>1
  <2>5. InsertAhead(us, c, r, q)
    BY <2>1, <2>4 DEF InsertRead, InsertAhead
  <2>6. InsertGoesOnAs(us, h, c, r, q, m, v)
    BY <2>3, <2>5, InsertForced
  <2>7. \A a, b : ~IsSelect(us, h, e, a, b)
    BY <2>4 DEF IsSelect
  <2>8. PICK a \in Nat, b \in Nat, d \in Nat : IsInsert(us, h, e, a, b, d)
    BY <2>7, MeansSomething
  <2> QED BY <2>6, <2>8, Zenon DEF InsertGoesOnAs
<1>2. CASE \E m, q \in Nat : SelectRead(ts, h, c, r, m, q)
  <2>1. PICK m \in Nat, q \in Nat : SelectRead(ts, h, c, r, m, q)
    BY <1>2
  <2>2. \A x \in h .. c - 1 : ts[x] = us[x]
    OBVIOUS
  <2>3. SelectTo(us, h, c, r, m, q)
    BY <2>1, <2>2, SelectAgrees DEF SelectRead
  <2>4. us[h].type = "SELECT" /\ c \in h .. c
    <3>1. us[h].type = "SELECT" /\ h < c
      BY <2>3, ReadFirst, Zenon
    <3> QED BY <3>1
  <2>5. SelectAhead(us, h, c, r, m, q)
    BY <2>1, <2>4 DEF SelectRead, SelectAhead
  <2>6. SelectGoesOnAs(us, h, c, r, m, q, e)
    BY <2>3, <2>5, SelectForced
  <2>7. \A a, b, d : ~IsInsert(us, h, e, a, b, d)
    BY <2>4 DEF IsInsert
  <2>8. PICK a \in Nat, b \in Nat : IsSelect(us, h, e, a, b)
    BY <2>7, MeansSomething
  <2>9. r \notin {"where", "end"} <=> r # "end"
    OBVIOUS
  <2> QED BY <2>6, <2>8, <2>9, Zenon DEF SelectGoesOnAs
<1> QED BY <1>1, <1>2 DEF HasRead

\* Inside a statement a token that the rule does not accept is the end of every hope.
LEMMA StuckInside ==
  ASSUME NEW ts, NEW us, NEW n \in Nat, NEW h \in Nat, NEW c \in Nat, NEW r,
         Goes(ts, h, c - 1), HasRead(ts, h, c, r), r \notin {"where", "end"},
         ts[c].type \notin Accepts[r],
         \A x \in 1 .. c : ts[x] = us[x], c - 1 <= n
  PROVE  ~IsScript(us, n)
<1> SUFFICES ASSUME IsScript(us, n) PROVE FALSE
  OBVIOUS
<1>1. h \in 1 .. c - 1 /\ c - 1 \in Nat /\ c \in 1 .. c /\ h .. c \subseteq 1 .. c
      /\ h + 1 .. c - 1 \subseteq 1 .. c
  BY DEF Goes
<1>2. Goes(us, h, c - 1)
  BY <1>1 DEF Goes, Within
<1>3. PICK e \in c - 1 .. n : StatementsAt(us, h, e) # {}
  BY <1>1, <1>2, StatementIn
<1>4. /\ e \in Nat /\ c - 1 <= e
      /\ \A x \in h .. c : ts[x] = us[x]
      /\ r # "where" /\ r # "end"
  BY <1>1
<1>5. c <= e /\ us[c].type \in Accepts[r]
  BY <1>3, <1>4, MustGoOn
<1> QED BY <1>1, <1>5


\* The parser is at the beginning, behind a semicolon or behind a statement.
Rested(ts, c) ==
  \/ c = 1
  \/ ts[c - 1].type = Semicolon
  \/ \E h \in Nat : Goes(ts, h, c - 1) /\ HasRead(ts, h, c, "end")

\* Between statements the end of hope is a token that begins none.
LEMMA StuckBetween ==
  ASSUME NEW ts, NEW us, NEW n \in Nat, NEW c \in Nat \ {0}, Rested(ts, c),
         ts[c].type \notin Boundaries, \A x \in 1 .. c : ts[x] = us[x], c <= n
  PROVE  ~IsScript(us, n)
<1> SUFFICES ASSUME IsScript(us, n) PROVE FALSE
  OBVIOUS
<1>1. c \in 1 .. n /\ us[c].type = ts[c].type
  OBVIOUS
<1>2. PICK g \in Heads(us, n) : Within(us, g, c)
  <2>1. us[c].type # Semicolon
    BY <1>1, BoundariesAre
  <2> QED BY <1>1, <2>1, ScriptIs, Zenon
<1>3. g \in 1 .. c - 1 /\ us[g].type \in Verbs /\ us[g].type \in Boundaries
  <2>1. g \in 1 .. c /\ us[g].type \in Verbs
    BY <1>2 DEF Heads, Within
  <2>2. us[g].type \in Boundaries
    BY <2>1, BoundariesAre
  <2> QED BY <1>1, <2>1, <2>2
<1>4. CASE c = 1
  BY <1>3, <1>4
<1>5. CASE c # 1 /\ ts[c - 1].type = Semicolon
  <2>1. us[c - 1].type = Semicolon /\ c - 1 \in 1 .. c
    BY <1>5
  <2>2. g # c - 1
    BY <1>3, <2>1, BoundariesAre
  <2>3. c - 1 \in g + 1 .. c
    BY <1>3, <2>2
  <2> QED BY <1>2, <2>1, <2>3, BoundariesAre DEF Within
<1>6. CASE \E h \in Nat : Goes(ts, h, c - 1) /\ HasRead(ts, h, c, "end")
  <2>1. PICK h \in Nat : Goes(ts, h, c - 1) /\ HasRead(ts, h, c, "end")
    BY <1>6
  <2>2. /\ h \in 1 .. c - 1 /\ ts[h].type \in Verbs /\ Within(ts, h, c - 1)
        /\ \A x \in h + 1 .. c - 1 : us[x].type \notin Boundaries
        /\ us[h].type \in Verbs
    <3>1. h \in 1 .. c - 1 /\ ts[h].type \in Verbs /\ Within(ts, h, c - 1)
      BY <2>1 DEF Goes
    <3>2. h \in 1 .. c /\ h + 1 .. c - 1 \subseteq 1 .. c
      BY <3>1
    <3> QED BY <3>1, <3>2 DEF Within
  <2>3. g = h
    <3>1. g \in Nat
      BY <1>3
    <3>2. g < h => h \in g + 1 .. c
      BY <2>2, <3>1
    <3>3. h < g => g \in h + 1 .. c - 1
      BY <1>3, <3>1
    <3>4. us[h].type \in Boundaries
      BY <2>2, BoundariesAre
    <3>5. ~(g < h)
      BY <1>2, <3>2, <3>4 DEF Within
    <3>6. ~(h < g)
      BY <1>3, <2>2, <3>3
    <3> QED BY <3>1, <3>5, <3>6
  <2>4. Goes(us, h, c)
    BY <1>2, <1>3, <2>3 DEF Goes
  <2>5. PICK e \in c .. n : StatementsAt(us, h, e) # {}
    BY <2>4, StatementIn
  <2>6. /\ e \in Nat /\ c - 1 <= e /\ e # c - 1
        /\ \A x \in h .. c : ts[x] = us[x]
    <3>1. h .. c \subseteq 1 .. c
      BY <2>2
    <3> QED BY <3>1
  <2>7. PICK r : r = "end"
    OBVIOUS
  <2>8. HasRead(ts, h, c, r) /\ r # "where"
    BY <2>1, <2>7
  <2>9. IF r = "end" THEN e = c - 1 ELSE c <= e /\ us[c].type \in Accepts[r]
    BY <2>5, <2>6, <2>8, MustGoOn
  <2> QED BY <2>6, <2>7, <2>9
<1> QED BY <1>4, <1>5, <1>6 DEF Rested


-----------------------------------------------------------------------------
(* What has been read can be completed.                                    *)

\* From the c-th token at rule r the parser comes to the end of the statement at d.
InsertLeads(us, h, c, r, d) ==
  \A q, m, v \in Nat : InsertTo(us, h, c, r, q, m, v)
                         => \E a, b, f \in Nat : InsertTo(us, h, d, "end", a, b, f)
SelectLeads(us, h, c, r, d) ==
  \A m, q \in Nat : SelectTo(us, h, c, r, m, q) => \E a, b \in Nat : SelectTo(us, h, d, "end", a, b)

LEMMA InsertLeadsOn ==
  ASSUME NEW us, NEW h \in Nat, NEW c \in Nat, NEW d
  PROVE  LET next(r) == InsertLeads(us, h, c + 1, r, d)
             lead(r) == InsertLeads(us, h, c, r, d)
             type    == us[c].type
         IN  /\ type = "INTO" /\ next("table") => lead("into")
             /\ type \in Names /\ next("openColumns") => lead("table") /\ lead("qualified")
             /\ type = "(" /\ next("columns") => lead("openColumns")
             /\ type \in Names /\ next("closeColumns") => lead("columns")
             /\ type = ")" /\ next("values") => lead("closeColumns")
             /\ type = "VALUES" /\ next("openValues") => lead("values")
             /\ type = "(" /\ next("literals") => lead("openValues")
             /\ type \in Literals /\ next("closeValues") => lead("literals")
             /\ type = ")" /\ next("end") => lead("closeValues")
<1> DEFINE next(r) == InsertLeads(us, h, c + 1, r, d)
           lead(r) == InsertLeads(us, h, c, r, d)
           type    == us[c].type
<1>0. \A m \in Nat : m + 1 \in Nat
  OBVIOUS
<1>1. ASSUME NEW q \in Nat, NEW m \in Nat, NEW v \in Nat
      PROVE  LET to(r)          == InsertTo(us, h, c, r, q, m, v)
                 on(r, a, b, f) == InsertTo(us, h, c + 1, r, a, b, f)
             IN  /\ to("into") /\ type = "INTO" => on("table", q, m, v)
                 /\ to("table") /\ type \in Names => on("openColumns", 1, m, v)
                 /\ to("qualified") /\ type \in Names => on("openColumns", 2, m, v)
                 /\ to("openColumns") /\ type = "(" => on("columns", q, m, v)
                 /\ to("columns") /\ type \in Names => on("closeColumns", q, m + 1, v)
                 /\ to("closeColumns") /\ type = ")" => on("values", q, m, v)
                 /\ to("values") /\ type = "VALUES" => on("openValues", q, m, v)
                 /\ to("openValues") /\ type = "(" => on("literals", q, m, v)
                 /\ to("literals") /\ type \in Literals => on("closeValues", q, m, v + 1)
                 /\ to("closeValues") /\ type = ")" => on("end", q, m, v)
  BY InsertGoesOn
<1>2. type = "INTO" /\ next("table") => lead("into")
  BY <1>1, ZenonT(30) DEF InsertLeads
<1>3. type \in Names /\ next("openColumns") => lead("table") /\ lead("qualified")
  <2>1. 1 \in Nat /\ 2 \in Nat
    OBVIOUS
  <2>2. ASSUME type \in Names, next("openColumns"), NEW q \in Nat, NEW m \in Nat, NEW v \in Nat,
               InsertTo(us, h, c, "table", q, m, v) \/ InsertTo(us, h, c, "qualified", q, m, v)
        PROVE  \E a, b, f \in Nat : InsertTo(us, h, d, "end", a, b, f)
    <3>1. InsertTo(us, h, c + 1, "openColumns", 1, m, v)
          \/ InsertTo(us, h, c + 1, "openColumns", 2, m, v)
      BY <1>1, <2>2
    <3> QED BY <2>1, <2>2, <3>1, Zenon DEF InsertLeads
  <2> QED BY <2>2, Zenon DEF InsertLeads
<1>4. type = "(" /\ next("columns") => lead("openColumns")
  BY <1>1, ZenonT(30) DEF InsertLeads
<1>5. type \in Names /\ next("closeColumns") => lead("columns")
  <2>1. ASSUME type \in Names, next("closeColumns"), NEW q \in Nat, NEW m \in Nat, NEW v \in Nat,
               InsertTo(us, h, c, "columns", q, m, v)
        PROVE  \E a, b, f \in Nat : InsertTo(us, h, d, "end", a, b, f)
    <3>1. InsertTo(us, h, c + 1, "closeColumns", q, m + 1, v) /\ m + 1 \in Nat
      BY <1>0, <1>1, <2>1
    <3> QED BY <2>1, <3>1, Zenon DEF InsertLeads
  <2> QED BY <2>1, Zenon DEF InsertLeads
<1>6. type = ")" /\ next("values") => lead("closeColumns")
  BY <1>1, ZenonT(30) DEF InsertLeads
<1>7. type = "VALUES" /\ next("openValues") => lead("values")
  BY <1>1, ZenonT(30) DEF InsertLeads
<1>8. type = "(" /\ next("literals") => lead("openValues")
  BY <1>1, ZenonT(30) DEF InsertLeads
<1>9. type \in Literals /\ next("closeValues") => lead("literals")
  BY <1>0, <1>1, Zenon DEF InsertLeads
<1>10. type = ")" /\ next("end") => lead("closeValues")
  <2>1. type = ")" => \A q, m, v \in Nat : InsertTo(us, h, c, "closeValues", q, m, v)
                                  => InsertTo(us, h, c + 1, "end", q, m, v)
    BY <1>1, Zenon
  <2> QED BY <2>1, Zenon DEF InsertLeads
<1> QED BY <1>2, <1>3, <1>4, <1>5, <1>6, <1>7, <1>8, <1>9, <1>10, Zenon

LEMMA SelectLeadsOn ==
  ASSUME NEW us, NEW h \in Nat, NEW c \in Nat, NEW d
  PROVE  LET next(r) == SelectLeads(us, h, c + 1, r, d)
             lead(r) == SelectLeads(us, h, c, r, d)
             type    == us[c].type
         IN  /\ type \in Names /\ next("from") => lead("selection") /\ lead("columns")
             /\ type = "FROM" /\ next("table") => lead("from")
             /\ type \in Names /\ next("where") => lead("table") /\ lead("qualified")
             /\ type = "WHERE" /\ next("whereColumn") => lead("where")
             /\ type \in Names /\ next("equal") => lead("whereColumn")
             /\ type = "=" /\ next("whereValue") => lead("equal")
             /\ type \in Literals /\ next("end") => lead("whereValue")
<1> DEFINE next(r) == SelectLeads(us, h, c + 1, r, d)
           lead(r) == SelectLeads(us, h, c, r, d)
           type    == us[c].type
<1>0. \A m \in Nat : m + 1 \in Nat
  OBVIOUS
<1>1. ASSUME NEW m \in Nat, NEW q \in Nat
      PROVE  LET to(r)       == SelectTo(us, h, c, r, m, q)
                 on(r, a, b) == SelectTo(us, h, c + 1, r, a, b)
             IN  /\ to("selection") /\ type \in Names => on("from", m + 1, q)
                 /\ to("columns") /\ type \in Names => on("from", m + 1, q)
                 /\ to("from") /\ type = "FROM" => on("table", m, q)
                 /\ to("table") /\ type \in Names => on("where", m, 1)
                 /\ to("qualified") /\ type \in Names => on("where", m, 2)
                 /\ to("where") /\ type = "WHERE" => on("whereColumn", m, q)
                 /\ to("whereColumn") /\ type \in Names => on("equal", m, q)
                 /\ to("equal") /\ type = "=" => on("whereValue", m, q)
                 /\ to("whereValue") /\ type \in Literals => on("end", m, q)
  BY SelectGoesOn
<1>2. type \in Names /\ next("from") => lead("selection") /\ lead("columns")
  BY <1>0, <1>1, Zenon DEF SelectLeads
<1>3. type = "FROM" /\ next("table") => lead("from")
  BY <1>1, Zenon DEF SelectLeads
<1>4. type \in Names /\ next("where") => lead("table") /\ lead("qualified")
  <2>1. 1 \in Nat /\ 2 \in Nat
    OBVIOUS
  <2> QED BY <1>1, <2>1, Zenon DEF SelectLeads
<1>5. type = "WHERE" /\ next("whereColumn") => lead("where")
  BY <1>1, Zenon DEF SelectLeads
<1>6. type \in Names /\ next("equal") => lead("whereColumn")
  BY <1>1, Zenon DEF SelectLeads
<1>7. type = "=" /\ next("whereValue") => lead("equal")
  BY <1>1, Zenon DEF SelectLeads
<1>8. type \in Literals /\ next("end") => lead("whereValue")
  BY <1>1, Zenon DEF SelectLeads
<1> QED BY <1>2, <1>3, <1>4, <1>5, <1>6, <1>7, <1>8, Zenon


\* How many tokens of the examples are left at each rule.
InsertLeft == [into |-> 9, table |-> 8, qualified |-> 8, openColumns |-> 7, columns |-> 6,
               closeColumns |-> 5, values |-> 4, openValues |-> 3, literals |-> 2, closeValues |-> 1]
SelectLeft == [selection |-> 7, columns |-> 7, from |-> 6, table |-> 5, qualified |-> 5,
               whereColumn |-> 3, equal |-> 2, whereValue |-> 1]

LEMMA ExamplesAre ==
  /\ Len(InsertExample) = 10 /\ Len(SelectExample) = 8
  /\ InsertExample[2] = "INTO" /\ InsertExample[3] = "IDENTIFIER" /\ InsertExample[4] = "("
  /\ InsertExample[5] = "IDENTIFIER" /\ InsertExample[6] = ")" /\ InsertExample[7] = "VALUES"
  /\ InsertExample[8] = "(" /\ InsertExample[9] = "IDENTIFIER" /\ InsertExample[10] = ")"
  /\ SelectExample[2] = "IDENTIFIER" /\ SelectExample[3] = "FROM"
  /\ SelectExample[4] = "IDENTIFIER" /\ SelectExample[5] = "WHERE"
  /\ SelectExample[6] = "IDENTIFIER" /\ SelectExample[7] = "=" /\ SelectExample[8] = "IDENTIFIER"
  BY DEF InsertExample, SelectExample

\* Behind the first words the examples have no boundary in them.
LEMMA NoBoundary ==
  /\ \A i \in 2 .. 10 : InsertExample[i] \notin Boundaries
  /\ \A i \in 2 .. 8 : SelectExample[i] \notin Boundaries
<1>1. /\ "INTO" \notin Boundaries /\ "IDENTIFIER" \notin Boundaries /\ "(" \notin Boundaries
      /\ ")" \notin Boundaries /\ "VALUES" \notin Boundaries /\ "FROM" \notin Boundaries
      /\ "WHERE" \notin Boundaries /\ "=" \notin Boundaries
  BY Zenon DEF Boundaries, Verbs
<1>2. /\ \A i \in 2 .. 10 : i \in {2, 3, 4, 5, 6, 7, 8, 9, 10}
      /\ \A i \in 2 .. 8 : i \in {2, 3, 4, 5, 6, 7, 8}
  OBVIOUS
<1> QED BY <1>1, <1>2, ExamplesAre

\* Whatever the rule, the rest of the example takes the parser to the end.
LEMMA InsertCompleted ==
  ASSUME NEW us, NEW h \in Nat, NEW d \in Nat, NEW r \in DOMAIN InsertLeft, d >= InsertLeft[r],
         \A k \in 1 .. InsertLeft[r] : us[d - k].type = InsertExample[11 - k]
  PROVE  InsertLeads(us, h, d - InsertLeft[r], r, d)
<1> DEFINE lead(k, s) == InsertLeads(us, h, d - k, s, d)
           good(k)    == d >= k /\ us[d - k].type = InsertExample[11 - k]
<1>0. lead(0, "end")
  <2>1. d - 0 = d
    OBVIOUS
  <2> QED BY <2>1 DEF InsertLeads
<1>1. ASSUME NEW n \in Nat, good(n + 1), NEW s
      PROVE  d - (n + 1) \in Nat /\ (InsertLeads(us, h, (d - (n + 1)) + 1, s, d) <=> lead(n, s))
  <2>1. d - (n + 1) \in Nat /\ (d - (n + 1)) + 1 = d - n
    BY <1>1
  <2> QED BY <2>1
<1>2. Names = {"IDENTIFIER"} /\ "IDENTIFIER" \in Literals
  BY DEF Names, Literals
<1>3. ASSUME good(1) PROVE lead(1, "closeValues")
  <2>1. PICK c \in Nat : c = d - 1 /\ c + 1 = d - 0
    BY <1>3
  <2>2. us[c].type = ")" /\ InsertLeads(us, h, c + 1, "end", d)
    BY <1>0, <1>3, <2>1, ExamplesAre
  <2> QED BY <2>1, <2>2, InsertLeadsOn
<1>4. ASSUME good(2), lead(1, "closeValues") PROVE lead(2, "literals")
  <2>1. PICK c \in Nat : c = d - 2 /\ c + 1 = d - 1
    BY <1>4
  <2>2. us[c].type = "IDENTIFIER" /\ InsertLeads(us, h, c + 1, "closeValues", d)
    BY <1>4, <2>1, ExamplesAre
  <2> QED BY <1>2, <2>1, <2>2, InsertLeadsOn
<1>5. ASSUME good(3), lead(2, "literals") PROVE lead(3, "openValues")
  <2>1. PICK c \in Nat : c = d - 3 /\ c + 1 = d - 2
    BY <1>5
  <2>2. us[c].type = "(" /\ InsertLeads(us, h, c + 1, "literals", d)
    BY <1>5, <2>1, ExamplesAre
  <2> QED BY <2>1, <2>2, InsertLeadsOn
<1>6. ASSUME good(4), lead(3, "openValues") PROVE lead(4, "values")
  <2>1. PICK c \in Nat : c = d - 4 /\ c + 1 = d - 3
    BY <1>6
  <2>2. us[c].type = "VALUES" /\ InsertLeads(us, h, c + 1, "openValues", d)
    BY <1>6, <2>1, ExamplesAre
  <2> QED BY <2>1, <2>2, InsertLeadsOn
<1>7. ASSUME good(5), lead(4, "values") PROVE lead(5, "closeColumns")
  <2>1. PICK c \in Nat : c = d - 5 /\ c + 1 = d - 4
    BY <1>7
  <2>2. us[c].type = ")" /\ InsertLeads(us, h, c + 1, "values", d)
    BY <1>7, <2>1, ExamplesAre
  <2> QED BY <2>1, <2>2, InsertLeadsOn
<1>8. ASSUME good(6), lead(5, "closeColumns") PROVE lead(6, "columns")
  <2>1. PICK c \in Nat : c = d - 6 /\ c + 1 = d - 5
    BY <1>8
  <2>2. us[c].type = "IDENTIFIER" /\ InsertLeads(us, h, c + 1, "closeColumns", d)
    BY <1>8, <2>1, ExamplesAre
  <2> QED BY <1>2, <2>1, <2>2, InsertLeadsOn
<1>9. ASSUME good(7), lead(6, "columns") PROVE lead(7, "openColumns")
  <2>1. PICK c \in Nat : c = d - 7 /\ c + 1 = d - 6
    BY <1>9
  <2>2. us[c].type = "(" /\ InsertLeads(us, h, c + 1, "columns", d)
    BY <1>9, <2>1, ExamplesAre
  <2> QED BY <2>1, <2>2, InsertLeadsOn
<1>10. ASSUME good(8), lead(7, "openColumns") PROVE lead(8, "table") /\ lead(8, "qualified")
  <2>1. PICK c \in Nat : c = d - 8 /\ c + 1 = d - 7
    BY <1>10
  <2>2. us[c].type = "IDENTIFIER" /\ InsertLeads(us, h, c + 1, "openColumns", d)
    BY <1>10, <2>1, ExamplesAre
  <2> QED BY <1>2, <2>1, <2>2, InsertLeadsOn
<1>11. ASSUME good(9), lead(8, "table") PROVE lead(9, "into")
  <2>1. PICK c \in Nat : c = d - 9 /\ c + 1 = d - 8
    BY <1>11
  <2>2. us[c].type = "INTO" /\ InsertLeads(us, h, c + 1, "table", d)
    BY <1>11, <2>1, ExamplesAre
  <2> QED BY <2>1, <2>2, InsertLeadsOn
<1>12. PICK n \in 1 .. 9 : n = InsertLeft[r]
  BY DEF InsertLeft
<1>13. \A k \in 1 .. 9 : k <= n => good(k)
  BY <1>12
<1> HIDE DEF lead, good
<1>15. /\ n >= 1 => lead(1, "closeValues")
       /\ n >= 2 => lead(2, "literals")
       /\ n >= 3 => lead(3, "openValues")
       /\ n >= 4 => lead(4, "values")
       /\ n >= 5 => lead(5, "closeColumns")
       /\ n >= 6 => lead(6, "columns")
       /\ n >= 7 => lead(7, "openColumns")
       /\ n >= 8 => lead(8, "table") /\ lead(8, "qualified")
       /\ n >= 9 => lead(9, "into")
  BY <1>3, <1>4, <1>5, <1>6, <1>7, <1>8, <1>9, <1>10, <1>11, <1>13
<1>16. lead(InsertLeft[r], r)
  <2>1. CASE r = "closeValues"
    BY <1>12, <1>15, <2>1 DEF InsertLeft
  <2>2. CASE r = "literals"
    BY <1>12, <1>15, <2>2 DEF InsertLeft
  <2>3. CASE r = "openValues"
    BY <1>12, <1>15, <2>3 DEF InsertLeft
  <2>4. CASE r = "values"
    BY <1>12, <1>15, <2>4 DEF InsertLeft
  <2>5. CASE r = "closeColumns"
    BY <1>12, <1>15, <2>5 DEF InsertLeft
  <2>6. CASE r = "columns"
    BY <1>12, <1>15, <2>6 DEF InsertLeft
  <2>7. CASE r = "openColumns"
    BY <1>12, <1>15, <2>7 DEF InsertLeft
  <2>8. CASE r = "table"
    BY <1>12, <1>15, <2>8 DEF InsertLeft
  <2>9. CASE r = "qualified"
    BY <1>12, <1>15, <2>9 DEF InsertLeft
  <2>10. CASE r = "into"
    BY <1>12, <1>15, <2>10 DEF InsertLeft
  <2> QED BY <2>1, <2>2, <2>3, <2>4, <2>5, <2>6, <2>7, <2>8, <2>9, <2>10 DEF InsertLeft
<1> QED BY <1>16 DEF lead

LEMMA SelectCompleted ==
  ASSUME NEW us, NEW h \in Nat, NEW d \in Nat, NEW r \in DOMAIN SelectLeft, d >= SelectLeft[r],
         \A k \in 1 .. SelectLeft[r] : us[d - k].type = SelectExample[9 - k]
  PROVE  SelectLeads(us, h, d - SelectLeft[r], r, d)
<1> DEFINE lead(k, s) == SelectLeads(us, h, d - k, s, d)
           good(k)    == d >= k /\ us[d - k].type = SelectExample[9 - k]
<1>0. lead(0, "end")
  <2>1. d - 0 = d
    OBVIOUS
  <2> QED BY <2>1 DEF SelectLeads
<1>1. Names = {"IDENTIFIER"} /\ "IDENTIFIER" \in Literals
  BY DEF Names, Literals
<1>2. ASSUME good(1) PROVE lead(1, "whereValue")
  <2>1. PICK c \in Nat : c = d - 1 /\ c + 1 = d - 0
    BY <1>2
  <2>2. us[c].type = "IDENTIFIER" /\ SelectLeads(us, h, c + 1, "end", d)
    BY <1>0, <1>2, <2>1, ExamplesAre
  <2> QED BY <1>1, <2>1, <2>2, SelectLeadsOn
<1>3. ASSUME good(2), lead(1, "whereValue") PROVE lead(2, "equal")
  <2>1. PICK c \in Nat : c = d - 2 /\ c + 1 = d - 1
    BY <1>3
  <2>2. us[c].type = "=" /\ SelectLeads(us, h, c + 1, "whereValue", d)
    BY <1>3, <2>1, ExamplesAre
  <2> QED BY <2>1, <2>2, SelectLeadsOn
<1>4. ASSUME good(3), lead(2, "equal") PROVE lead(3, "whereColumn")
  <2>1. PICK c \in Nat : c = d - 3 /\ c + 1 = d - 2
    BY <1>4
  <2>2. us[c].type = "IDENTIFIER" /\ SelectLeads(us, h, c + 1, "equal", d)
    BY <1>4, <2>1, ExamplesAre
  <2> QED BY <1>1, <2>1, <2>2, SelectLeadsOn
<1>5. ASSUME good(4), lead(3, "whereColumn") PROVE lead(4, "where")
  <2>1. PICK c \in Nat : c = d - 4 /\ c + 1 = d - 3
    BY <1>5
  <2>2. us[c].type = "WHERE" /\ SelectLeads(us, h, c + 1, "whereColumn", d)
    BY <1>5, <2>1, ExamplesAre
  <2> QED BY <2>1, <2>2, SelectLeadsOn
<1>6. ASSUME good(5), lead(4, "where") PROVE lead(5, "table") /\ lead(5, "qualified")
  <2>1. PICK c \in Nat : c = d - 5 /\ c + 1 = d - 4
    BY <1>6
  <2>2. us[c].type = "IDENTIFIER" /\ SelectLeads(us, h, c + 1, "where", d)
    BY <1>6, <2>1, ExamplesAre
  <2> QED BY <1>1, <2>1, <2>2, SelectLeadsOn
<1>7. ASSUME good(6), lead(5, "table") PROVE lead(6, "from")
  <2>1. PICK c \in Nat : c = d - 6 /\ c + 1 = d - 5
    BY <1>7
  <2>2. us[c].type = "FROM" /\ SelectLeads(us, h, c + 1, "table", d)
    BY <1>7, <2>1, ExamplesAre
  <2> QED BY <2>1, <2>2, SelectLeadsOn
<1>8. ASSUME good(7), lead(6, "from") PROVE lead(7, "selection") /\ lead(7, "columns")
  <2>1. PICK c \in Nat : c = d - 7 /\ c + 1 = d - 6
    BY <1>8
  <2>2. us[c].type = "IDENTIFIER" /\ SelectLeads(us, h, c + 1, "from", d)
    BY <1>8, <2>1, ExamplesAre
  <2> QED BY <1>1, <2>1, <2>2, SelectLeadsOn
<1>9. PICK n \in 1 .. 7 : n = SelectLeft[r]
  BY DEF SelectLeft
<1>10. \A k \in 1 .. 7 : k <= n => good(k)
  BY <1>9
<1> HIDE DEF lead, good
<1>11. /\ n >= 1 => lead(1, "whereValue")
       /\ n >= 2 => lead(2, "equal")
       /\ n >= 3 => lead(3, "whereColumn")
       /\ n >= 4 => lead(4, "where")
       /\ n >= 5 => lead(5, "table") /\ lead(5, "qualified")
       /\ n >= 6 => lead(6, "from")
       /\ n >= 7 => lead(7, "selection") /\ lead(7, "columns")
  BY <1>2, <1>3, <1>4, <1>5, <1>6, <1>7, <1>8, <1>10
<1>12. lead(SelectLeft[r], r)
  <2>1. CASE r = "whereValue"
    BY <1>9, <1>11, <2>1 DEF SelectLeft
  <2>2. CASE r = "equal"
    BY <1>9, <1>11, <2>2 DEF SelectLeft
  <2>3. CASE r = "whereColumn"
    BY <1>9, <1>11, <2>3 DEF SelectLeft
  <2>4. CASE r = "table"
    BY <1>9, <1>11, <2>4 DEF SelectLeft
  <2>5. CASE r = "qualified"
    BY <1>9, <1>11, <2>5 DEF SelectLeft
  <2>6. CASE r = "from"
    BY <1>9, <1>11, <2>6 DEF SelectLeft
  <2>7. CASE r = "selection"
    BY <1>9, <1>11, <2>7 DEF SelectLeft
  <2>8. CASE r = "columns"
    BY <1>9, <1>11, <2>8 DEF SelectLeft
  <2> QED BY <2>1, <2>2, <2>3, <2>4, <2>5, <2>6, <2>7, <2>8 DEF SelectLeft
<1> QED BY <1>12 DEF lead


\* The first tokens of a text with the last n of an example behind them.
Completed(ts, c, example, n) ==
  SubSeq(ts, 1, c - 1) \o Example(SubSeq(example, Len(example) - n + 1, Len(example)))

\* us is such a text; if it is a script, what it begins with is a beginning of one.
Completes(us, ts, c, example, n) ==
  /\ \A x \in 1 .. c - 1 : us[x] = ts[x]
  /\ \A k \in 1 .. n : us[c + n - k].type = example[Len(example) + 1 - k]
  /\ IsScript(us, c - 1 + n) => IsBeginning(ts, c - 1)

LEMMA CompletedIs ==
  ASSUME NEW T, NEW ts \in Seq(T), NEW c \in 1 .. Len(ts),
         NEW example \in {InsertExample, SelectExample}, NEW n \in 0 .. Len(example),
         NEW us, us = Completed(ts, c, example, n)
  PROVE  Completes(us, ts, c, example, n)
<1>1. PICK S : example \in Seq(S)
  <2>1. PICK S : S = {"INSERT", "INTO", "IDENTIFIER", "(", ")", "VALUES", "SELECT", "FROM", "WHERE", "="}
    OBVIOUS
  <2>2. InsertExample \in Seq(S) /\ SelectExample \in Seq(S)
    BY <2>1 DEF InsertExample, SelectExample
  <2> QED BY <2>2
<1>2. PICK l \in Nat : l = Len(example) /\ n \in 0 .. l
  BY <1>1
<1>3. PICK rest : rest = SubSeq(example, l - n + 1, l)
  OBVIOUS
<1>4. /\ rest \in Seq(S) /\ Len(rest) = n
      /\ \A i \in 1 .. n : rest[i] = example[l - n + i]
  <2>1. l - n + 1 \in 1 .. l + 1 /\ l \in (l - n + 1) - 1 .. l /\ l - (l - n + 1) + 1 = n
    BY <1>2
  <2>2. /\ rest \in Seq(S) /\ Len(rest) = l - (l - n + 1) + 1
        /\ \A i \in 1 .. l - (l - n + 1) + 1 : rest[i] = example[(l - n + 1) + i - 1]
    BY <1>1, <1>2, <1>3, <2>1, StretchIs
  <2>3. \A i \in 1 .. n : (l - n + 1) + i - 1 = l - n + i
    BY <1>2
  <2> QED BY <2>1, <2>2, <2>3
<1>5. PICK end : end = Example(rest)
  OBVIOUS
<1>6. PICK V : V = T \cup {[type |-> t, lexeme |-> <<>>] : t \in S}
  OBVIOUS
<1>7. /\ end \in Seq(V) /\ Len(end) = n
      /\ \A i \in 1 .. n : end[i].type = rest[i]
  <2>1. DOMAIN rest = 1 .. n /\ \A i \in 1 .. n : rest[i] \in S
    BY <1>2, <1>4
  <2>2. end = [i \in 1 .. n |-> [type |-> rest[i], lexeme |-> <<>>]]
    BY <1>5, <2>1 DEF Example
  <2>3. \A i \in 1 .. n : end[i] \in V
    BY <1>6, <2>1, <2>2
  <2>4. end = [i \in 1 .. n |-> end[i]] /\ n \in Nat
    BY <1>2, <2>2
  <2> QED BY <2>2, <2>3, <2>4, IsSequence, SMTT(20)
<1>8. PICK begin : begin = SubSeq(ts, 1, c - 1)
  OBVIOUS
<1>9. /\ begin \in Seq(T) /\ Len(begin) = c - 1
      /\ \A i \in 1 .. c - 1 : begin[i] = ts[i]
  <2>1. 1 \in 1 .. Len(ts) + 1 /\ c - 1 \in 1 - 1 .. Len(ts) /\ (c - 1) - 1 + 1 = c - 1
    OBVIOUS
  <2>2. PICK b \in Nat : b = c - 1
    OBVIOUS
  <2>3. /\ begin \in Seq(T) /\ Len(begin) = b - 1 + 1
        /\ \A i \in 1 .. b - 1 + 1 : begin[i] = ts[1 + i - 1]
    BY <1>8, <2>1, <2>2, StretchIs
  <2>4. b - 1 + 1 = b /\ \A i \in 1 .. b : 1 + i - 1 = i
    BY <2>2
  <2> QED BY <2>2, <2>3, <2>4
<1>10. us = begin \o end
  BY <1>2, <1>3, <1>5, <1>8 DEF Completed
<1>11. begin \in Seq(V)
  BY <1>6, <1>9
<1>12. /\ \A i \in 1 .. c - 1 : us[i] = begin[i]
       /\ \A i \in 1 .. n : us[c - 1 + i] = end[i]
  <2>1. /\ \A i \in 1 .. Len(begin) : us[i] = begin[i]
        /\ \A i \in 1 .. Len(end) : us[Len(begin) + i] = end[i]
    BY <1>7, <1>10, <1>11, ConcatIs
  <2> QED BY <1>7, <1>9, <2>1
<1>14. \A x \in 1 .. c - 1 : us[x] = ts[x]
  BY <1>9, <1>12
<1>15. ASSUME NEW k \in 1 .. n PROVE us[c + n - k].type = example[l + 1 - k]
  <2>1. PICK i \in 1 .. n : i = n + 1 - k /\ c - 1 + i = c + n - k /\ l - n + i = l + 1 - k
    <3>1. n + 1 - k \in 1 .. n
      BY <1>2
    <3> QED BY <1>2, <3>1
  <2>2. us[c - 1 + i].type = example[l - n + i]
    BY <1>4, <1>7, <1>12
  <2> QED BY <2>1, <2>2
<1>16. end \in Completions
  <2>0. l - n + 1 \in 1 .. l + 1
    BY <1>2
  <2>1. PICK j \in 1 .. l + 1 : j = l - n + 1
    BY <2>0
  <2>2. end = Example(SubSeq(example, j, Len(example))) /\ j \in 1 .. Len(example) + 1
    BY <1>2, <1>3, <1>5, <2>1
  <2>3. end \in {Example(SubSeq(example, i, Len(example))) : i \in 1 .. Len(example) + 1}
    BY <2>2, Zenon
  <2> QED BY <2>3, Zenon DEF Completions
<1>17. IsScript(us, c - 1 + n) => IsBeginning(ts, c - 1)
  BY <1>7, <1>8, <1>10, <1>16, Zenon DEF IsBeginning
<1> QED BY <1>2, <1>14, <1>15, <1>17 DEF Completes


\* What has been read of a statement is the beginning of one.
LEMMA BeginsInside ==
  ASSUME NEW T, NEW ts \in Seq(T), NEW c \in 1 .. Len(ts), NEW h \in Nat,
         NEW r \in DOMAIN InsertLeft \cup DOMAIN SelectLeft,
         IsScript(ts, h - 1), Goes(ts, h, c - 1), HasRead(ts, h, c, r)
  PROVE  IsBeginning(ts, c - 1)
<1>1. h \in 1 .. c - 1 /\ c \in Nat /\ ts[h].type \in Verbs /\ Within(ts, h, c - 1)
  BY DEF Goes
\* A statement that is complete behind what has been read.
<1>2. ASSUME NEW us, NEW d \in Nat, c <= d, \A x \in 1 .. c - 1 : us[x] = ts[x],
             \A x \in c .. d - 1 : us[x].type \notin Boundaries,
             StatementsAt(us, h, d - 1) # {},
             NEW stmt, StatementsAt(us, h, d - 1) = {stmt}
      PROVE  IsScript(us, d - 1)
  <2>1. IsScript(us, h - 1)
    <3>1. h - 1 \in Nat /\ \A x \in 1 .. h - 1 : us[x] = ts[x]
      BY <1>1, <1>2
    <3> QED BY <3>1, ScriptAgrees
  <2>2. Goes(us, h, d - 1)
    <3>1. us[h].type \in Verbs /\ h \in 1 .. d - 1 /\ h <= d - 1
      BY <1>1, <1>2
    <3>2. \A x \in h + 1 .. d - 1 : us[x].type \notin Boundaries
      <4> SUFFICES ASSUME NEW x \in h + 1 .. d - 1 PROVE us[x].type \notin Boundaries
        OBVIOUS
      <4>1. x \in h + 1 .. c - 1 \/ x \in c .. d - 1
        BY <1>1
      <4>2. x \in h + 1 .. c - 1 => us[x] = ts[x] /\ ts[x].type \notin Boundaries
        BY <1>1, <1>2 DEF Within
      <4> QED BY <1>2, <4>1, <4>2
    <3> QED BY <3>1, <3>2 DEF Goes, Within
  <2>3. d - 1 \in Nat
    BY <1>1, <1>2
  <2> QED BY <1>2, <2>1, <2>2, <2>3, ScriptGrows
<1>3. CASE \E q, m, v \in Nat : InsertRead(ts, h, c, r, q, m, v)
  <2>1. PICK q \in Nat, m \in Nat, v \in Nat : InsertTo(ts, h, c, r, q, m, v)
    BY <1>3 DEF InsertRead
  <2>2. r \in DOMAIN InsertLeft
    BY <2>1 DEF InsertTo, InsertLeft, SelectLeft
  <2>3. PICK n \in 1 .. 9 : n = InsertLeft[r]
    BY <2>2 DEF InsertLeft
  <2>4. PICK us : us = Completed(ts, c, InsertExample, n)
    OBVIOUS
  <2>5. PICK d \in Nat : d = c + n
    BY <1>1
  <2>6. /\ \A x \in 1 .. c - 1 : us[x] = ts[x]
        /\ \A k \in 1 .. n : us[d - k].type = InsertExample[11 - k]
        /\ IsScript(us, d - 1) => IsBeginning(ts, c - 1)
    <3>1. PICK example : example = InsertExample
      OBVIOUS
    <3>2. n \in 0 .. Len(example) /\ example \in {InsertExample, SelectExample} /\ Len(example) = 10
          /\ us = Completed(ts, c, example, n)
      BY <2>4, <3>1, ExamplesAre
    <3>3. Completes(us, ts, c, example, n)
      BY <3>2, CompletedIs
    <3>4. c + n = d /\ c - 1 + n = d - 1 /\ 10 + 1 = 11
      BY <1>1, <2>5
    <3>5. \A k \in 1 .. n : us[d - k].type = example[11 - k]
      <4>1. \A k \in 1 .. n : us[c + n - k].type = example[Len(example) + 1 - k]
        BY <3>3, Zenon DEF Completes
      <4>2. ASSUME NEW k \in 1 .. n
            PROVE  us[d - k].type = example[11 - k]
        <5>1. PICK a, b : a = Len(example) + 1 - k /\ b = c + n - k
          OBVIOUS
        <5>2. a = 11 - k
          BY <3>2, <5>1
        <5>3. b = d - k
          BY <1>1, <2>5, <5>1
        <5>4. us[b].type = example[a]
          BY <4>1, <5>1, Zenon
        <5> QED BY <5>2, <5>3, <5>4, Zenon
      <4> QED BY <4>2
    <3> QED BY <3>1, <3>3, <3>4, <3>5 DEF Completes
  <2>7. InsertTo(us, h, c, r, q, m, v)
    <3>1. \A x \in h .. c - 1 : ts[x] = us[x]
      BY <1>1, <2>6
    <3> QED BY <1>1, <2>1, <3>1, InsertAgrees
  <2>8. PICK a \in Nat, b \in Nat, f \in Nat : InsertTo(us, h, d, "end", a, b, f)
    <3>1. InsertLeads(us, h, d - InsertLeft[r], r, d)
      <4>1. d >= InsertLeft[r]
        BY <1>1, <2>3, <2>5
      <4> QED BY <2>2, <2>3, <2>6, <4>1, InsertCompleted
    <3>2. d - InsertLeft[r] = c
      BY <1>1, <2>3, <2>5
    <3> QED BY <2>7, <3>1, <3>2 DEF InsertLeads
  <2>9. d - 1 \in Nat /\ (d - 1) + 1 = d /\ c <= d
    BY <1>1, <2>5, SMTT(20)
  <2>10. IsInsert(us, h, d - 1, a, b, f)
    BY <2>8, <2>9, InsertIs
  <2>11. PICK stmt : StatementsAt(us, h, d - 1) = {stmt}
    <3>1. StatementsAt(us, h, d - 1) = {InsertOf(us, h, a, b, f)}
      BY <2>9, <2>10, MeansInsert
    <3> QED BY <3>1
  <2>12. \A x \in c .. d - 1 : us[x].type \notin Boundaries
    <3> SUFFICES ASSUME NEW x \in c .. d - 1 PROVE us[x].type \notin Boundaries
      OBVIOUS
    <3>1. PICK k \in 1 .. n : k = d - x /\ d - k = x /\ 11 - k \in 2 .. 10
      <4>1. d - x \in 1 .. n /\ d - (d - x) = x /\ 11 - (d - x) \in 2 .. 10
        BY <1>1, <2>5
      <4> QED BY <4>1
    <3>2. us[x].type = InsertExample[11 - k]
      BY <2>6, <3>1
    <3> QED BY <3>1, <3>2, NoBoundary
  <2> QED BY <1>2, <2>6, <2>9, <2>11, <2>12
<1>4. CASE \E m, q \in Nat : SelectRead(ts, h, c, r, m, q)
  <2>1. PICK m \in Nat, q \in Nat : SelectTo(ts, h, c, r, m, q)
    BY <1>4 DEF SelectRead
  <2>2. r \in DOMAIN SelectLeft
    BY <2>1 DEF SelectTo, SelectLeft, InsertLeft
  <2>3. PICK n \in 1 .. 7 : n = SelectLeft[r]
    BY <2>2 DEF SelectLeft
  <2>4. PICK us : us = Completed(ts, c, SelectExample, n)
    OBVIOUS
  <2>5. PICK d \in Nat : d = c + n
    BY <1>1
  <2>6. /\ \A x \in 1 .. c - 1 : us[x] = ts[x]
        /\ \A k \in 1 .. n : us[d - k].type = SelectExample[9 - k]
        /\ IsScript(us, d - 1) => IsBeginning(ts, c - 1)
    <3>1. PICK example : example = SelectExample
      OBVIOUS
    <3>2. n \in 0 .. Len(example) /\ example \in {InsertExample, SelectExample} /\ Len(example) = 8
          /\ us = Completed(ts, c, example, n)
      BY <2>4, <3>1, ExamplesAre
    <3>3. Completes(us, ts, c, example, n)
      BY <3>2, CompletedIs
    <3>4. c + n = d /\ c - 1 + n = d - 1 /\ 8 + 1 = 9
      BY <1>1, <2>5
    <3>5. \A k \in 1 .. n : us[d - k].type = example[9 - k]
      <4>1. \A k \in 1 .. n : us[c + n - k].type = example[Len(example) + 1 - k]
        BY <3>3, Zenon DEF Completes
      <4> QED BY <3>2, <3>4, <4>1
    <3> QED BY <3>1, <3>3, <3>4, <3>5 DEF Completes
  <2>7. SelectTo(us, h, c, r, m, q)
    <3>1. \A x \in h .. c - 1 : ts[x] = us[x]
      BY <1>1, <2>6
    <3> QED BY <1>1, <2>1, <3>1, SelectAgrees
  <2>8. PICK a \in Nat, b \in Nat : SelectTo(us, h, d, "end", a, b)
    <3>1. SelectLeads(us, h, d - SelectLeft[r], r, d)
      <4>1. d >= SelectLeft[r]
        BY <1>1, <2>3, <2>5
      <4> QED BY <2>2, <2>3, <2>6, <4>1, SelectCompleted
    <3>2. d - SelectLeft[r] = c
      BY <1>1, <2>3, <2>5
    <3> QED BY <2>7, <3>1, <3>2 DEF SelectLeads
  <2>9. d - 1 \in Nat /\ (d - 1) + 1 = d /\ c <= d
    BY <1>1, <2>5
  <2>10. IsSelect(us, h, d - 1, a, b)
    BY <2>8, <2>9, SelectIs
  <2>11. PICK stmt : StatementsAt(us, h, d - 1) = {stmt}
    <3>1. StatementsAt(us, h, d - 1) = {SelectOf(us, h, d - 1, a, b)}
      BY <2>9, <2>10, MeansSelect
    <3> QED BY <3>1
  <2>12. \A x \in c .. d - 1 : us[x].type \notin Boundaries
    <3> SUFFICES ASSUME NEW x \in c .. d - 1 PROVE us[x].type \notin Boundaries
      OBVIOUS
    <3>1. PICK k \in 1 .. n : k = d - x /\ d - k = x /\ 9 - k \in 2 .. 8
      <4>1. d - x \in 1 .. n /\ d - (d - x) = x /\ 9 - (d - x) \in 2 .. 8
        BY <1>1, <2>5
      <4> QED BY <4>1
    <3>2. us[x].type = SelectExample[9 - k]
      BY <2>6, <3>1
    <3> QED BY <3>1, <3>2, NoBoundary
  <2> QED BY <1>2, <2>6, <2>9, <2>11, <2>12
<1> QED BY <1>3, <1>4 DEF HasRead

\* A script is the beginning of one.
LEMMA BeginsBetween ==
  ASSUME NEW T, NEW ts \in Seq(T), NEW c \in 1 .. Len(ts), IsScript(ts, c - 1)
  PROVE  IsBeginning(ts, c - 1)
<1>1. PICK us : us = Completed(ts, c, InsertExample, 0)
  OBVIOUS
<1>2. /\ \A x \in 1 .. c - 1 : us[x] = ts[x]
      /\ IsScript(us, c - 1 + 0) => IsBeginning(ts, c - 1)
  <2>1. PICK n, example : n = 0 /\ example = InsertExample
    OBVIOUS
  <2>2. n \in 0 .. Len(example) /\ example \in {InsertExample, SelectExample}
        /\ us = Completed(ts, c, example, n)
    BY <1>1, <2>1, ExamplesAre
  <2>3. Completes(us, ts, c, example, n)
    BY <2>2, CompletedIs
  <2> QED BY <2>1, <2>3, Zenon DEF Completes
<1>3. c - 1 \in Nat /\ c - 1 + 0 = c - 1
  OBVIOUS
<1> QED BY <1>2, <1>3, ScriptAgrees


-----------------------------------------------------------------------------
(* The invariant.                                                          *)

WhereSoFar(ts, where, c) ==
  [enabled |-> c > where + 1,
   column  |-> IF c > where + 1 THEN ts[where + 1].lexeme ELSE <<>>,
   value   |-> IF c > where + 3 THEN ts[where + 3].lexeme ELSE <<>>]

\* The * has been read.
Star(m, r) == m = 0 /\ r # "selection"

\* What parse_select has filled in when it comes to the c-th token at rule r.
SelectSoFar(ts, h, c, r, m, q) ==
  [type |-> "SELECT", table |-> Items(ts, FromAt(h, m), q), selectAll |-> Star(m, r),
   columns |-> Items(ts, h, m), where |-> WhereSoFar(ts, FromAt(h, m) + 2 * q, c)]

Builds(ts, h, c, r, stmt) ==
  \/ \E q, m, v \in Nat : InsertRead(ts, h, c, r, q, m, v) /\ stmt = InsertOf(ts, h, q, m, v)
  \/ \E m, q \in Nat : SelectRead(ts, h, c, r, m, q) /\ stmt = SelectSoFar(ts, h, c, r, m, q)

\* Behind a script, with its statements in the list.
Between(ts, c, list) == IsScript(ts, c - 1) /\ list = ScriptOf(ts, c - 1) /\ Rested(ts, c)

\* Inside the statement that begins with the h-th token.
Inside(ts, h, c, r, stmt, list) ==
  /\ IsScript(ts, h - 1) /\ list = ScriptOf(ts, h - 1)
  /\ Goes(ts, h, c - 1) /\ Builds(ts, h, c, r, stmt)

ReadOK ==
  phase = "parse" => IF rule = "statement" THEN Between(tokens, current, script)
                     ELSE \E h \in Nat : Inside(tokens, h, current, rule, statement, script)

OneEnd == phase # "tokenize" => \A k \in 1 .. Len(tokens) - 1 : tokens[k].type # "END"

\* Nothing that begins with the first c tokens is a script.
Stuck(ts, c) ==
  \A us : \A n \in Nat : c <= n /\ (\A x \in 1 .. c : ts[x] = us[x]) => ~IsScript(us, n)

\* The token that an error message points at ends a beginning of which no
\* tokens whatever make a script, and nothing shorter does.
FirstErrorFinal ==
  phase = "failed" /\ Tokenized =>
    \E bad \in DOMAIN tokens :
      /\ error = <<tokens[bad].line, tokens[bad].column>>
      /\ IsBeginning(tokens, bad - 1)
      /\ bad <= Written => Stuck(tokens, bad)

GrammarInv ==
  /\ phase = "tokenize" => rule = "statement" /\ script = <<>>
  /\ ReadOK
  /\ OneEnd
  /\ AcceptsTheGrammar /\ FirstErrorFinal


-----------------------------------------------------------------------------
(* The statement under construction.                                       *)

LEMMA NoItems ==
  ASSUME NEW ts, NEW i
  PROVE  Items(ts, i, 0) = <<>>
<1>1. 1 .. 0 = {}
  OBVIOUS
<1> QED BY <1>1 DEF Items

LEMMA ItemsGrow ==
  ASSUME NEW ts, NEW i \in Nat, NEW m \in Nat
  PROVE  Items(ts, i, m + 1) = Append(Items(ts, i, m), ts[i + 2 * m + 1].lexeme)
<1>1. PICK F, G, x : F = Items(ts, i, m) /\ G = Items(ts, i, m + 1) /\ x = ts[i + 2 * m + 1].lexeme
  OBVIOUS
<1>2. PICK f : f = [k \in 1 .. m + 1 |-> ts[i + 2 * k - 1].lexeme]
  OBVIOUS
<1>3. PICK V : V = {f[k] : k \in 1 .. m + 1}
  OBVIOUS
<1>4. G = f /\ F = [k \in 1 .. m |-> f[k]]
  <2>1. \A k \in 1 .. m : k \in 1 .. m + 1
    OBVIOUS
  <2> QED BY <1>1, <1>2, <2>1 DEF Items
<1>5. f[m + 1] = x /\ m + 1 \in 1 .. m + 1
  <2>1. i + 2 * (m + 1) - 1 = i + 2 * m + 1 /\ m + 1 \in 1 .. m + 1
    OBVIOUS
  <2> QED BY <1>1, <1>2, <2>1
<1>6. G \in Seq(V) /\ Len(G) = m + 1
  <2>1. f = [k \in 1 .. m + 1 |-> f[k]] /\ \A k \in 1 .. m + 1 : f[k] \in V
    BY <1>2, <1>3
  <2>2. m + 1 \in Nat
    OBVIOUS
  <2> QED BY <1>4, <2>1, <2>2, IsSequence
<1>7. F \in Seq(V) /\ Len(F) = m
  <2>1. \A k \in 1 .. m : k \in 1 .. m + 1
    OBVIOUS
  <2>2. F = [k \in 1 .. m |-> F[k]] /\ \A k \in 1 .. m : F[k] = f[k] /\ F[k] \in V
    BY <1>3, <1>4, <2>1
  <2> QED BY <2>2, IsSequence
<1>8. \A k \in 1 .. m : G[k] = F[k]
  BY <1>4
<1>9. G = Append(F, x)
  BY <1>3, <1>4, <1>5, <1>6, <1>7, <1>8, IsAppend
<1> QED BY <1>1, <1>9

LEMMA OneItem ==
  ASSUME NEW ts, NEW i \in Nat
  PROVE  Items(ts, i, 1) = <<ts[i + 1].lexeme>>
<1>1. PICK m \in Nat : m = 0
  OBVIOUS
<1>2. Items(ts, i, m + 1) = Append(Items(ts, i, m), ts[i + 2 * m + 1].lexeme)
  BY ItemsGrow
<1>3. m + 1 = 1 /\ i + 2 * m + 1 = i + 1 /\ Items(ts, i, m) = <<>>
  BY <1>1, NoItems
<1> QED BY <1>2, <1>3

LEMMA TwoItems ==
  ASSUME NEW ts, NEW i \in Nat
  PROVE  Items(ts, i, 2) = Append(Items(ts, i, 1), ts[i + 3].lexeme)
<1>1. PICK m \in Nat : m = 1
  OBVIOUS
<1>2. Items(ts, i, m + 1) = Append(Items(ts, i, m), ts[i + 2 * m + 1].lexeme)
  BY ItemsGrow
<1>3. m + 1 = 2 /\ i + 2 * m + 1 = i + 3
  BY <1>1
<1> QED BY <1>1, <1>2, <1>3

InsertWith(table, columns, values) ==
  [type |-> "INSERT", table |-> table, columns |-> columns, values |-> values]

WithTable(stmt, y)   == [stmt EXCEPT !.table = y]
WithColumns(stmt, y) == [stmt EXCEPT !.columns = y]
WithValues(stmt, y)  == [stmt EXCEPT !.values = y]

LEMMA InsertFilled ==
  ASSUME NEW a, NEW b, NEW d, NEW y
  PROVE  /\ WithTable(InsertWith(a, b, d), y) = InsertWith(y, b, d)
         /\ WithColumns(InsertWith(a, b, d), y) = InsertWith(a, y, d)
         /\ WithValues(InsertWith(a, b, d), y) = InsertWith(a, b, y)
         /\ InsertWith(a, b, d).table = a
         /\ InsertWith(a, b, d).columns = b
         /\ InsertWith(a, b, d).values = d
<1>1. PICK w : w = [type |-> "INSERT", table |-> a, columns |-> b, values |-> d]
  OBVIOUS
<1>2. /\ [w EXCEPT !.table = y] = [type |-> "INSERT", table |-> y, columns |-> b, values |-> d]
      /\ [w EXCEPT !.columns = y] = [type |-> "INSERT", table |-> a, columns |-> y, values |-> d]
      /\ [w EXCEPT !.values = y] = [type |-> "INSERT", table |-> a, columns |-> b, values |-> y]
      /\ w.table = a /\ w.columns = b /\ w.values = d
  BY <1>1
<1> QED BY <1>1, <1>2, Zenon DEF InsertWith, WithTable, WithColumns, WithValues

LEMMA InsertOfIs ==
  \A ts, h, q, m, v : InsertOf(ts, h, q, m, v)
     = InsertWith(Items(ts, h + 1, q), Items(ts, h + 1 + 2 * q, m), Items(ts, h + 3 + 2 * q + 2 * m, v))
  BY Zenon DEF InsertOf, InsertWith

\* An element of parse_insert that adds nothing to the statement.
LEMMA InsertConsumes ==
  ASSUME NEW ts, NEW h \in Nat, NEW c \in Nat, NEW r,
         NEW q \in Nat, NEW m \in Nat, NEW v \in Nat, InsertRead(ts, h, c, r, q, m, v),
         r \in DOMAIN After, ts[c].type \in Accepts[r]
  PROVE  InsertRead(ts, h, c + 1, After[r], q, m, v)
<1>1. r \in {"into", "openColumns", "closeColumns", "values", "openValues", "closeValues"}
  BY DEF InsertRead, InsertTo, After
<1>2. InsertTo(ts, h, c, r, q, m, v)
  BY DEF InsertRead
<1>3. InsertTo(ts, h, c + 1, After[r], q, m, v)
  <2>1. CASE r = "into"
    BY <1>2, <2>1, AcceptsIs, InsertGoesOn DEF After
  <2>2. CASE r = "openColumns"
    BY <1>2, <2>2, AcceptsIs, InsertGoesOn DEF After
  <2>3. CASE r = "closeColumns"
    BY <1>2, <2>3, AcceptsIs, InsertGoesOn DEF After
  <2>4. CASE r = "values"
    BY <1>2, <2>4, AcceptsIs, InsertGoesOn DEF After
  <2>5. CASE r = "openValues"
    BY <1>2, <2>5, AcceptsIs, InsertGoesOn DEF After
  <2>6. CASE r = "closeValues"
    BY <1>2, <2>6, AcceptsIs, InsertGoesOn DEF After
  <2> QED BY <1>1, <2>1, <2>2, <2>3, <2>4, <2>5, <2>6
<1>4. After[r] \notin {"openColumns", "closeColumns", "closeValues"}
  BY <1>1 DEF After
<1> QED BY <1>3, <1>4 DEF InsertRead, InsertAhead

LEMMA InsertTableRead ==
  ASSUME NEW ts, NEW h \in Nat, NEW c \in Nat,
         NEW q \in Nat, NEW m \in Nat, NEW v \in Nat, InsertRead(ts, h, c, "table", q, m, v),
         ts[c].type \in Names, NEW stmt, stmt = InsertOf(ts, h, q, m, v)
  PROVE  LET next == [stmt EXCEPT !.table = <<ts[c].lexeme>>]
         IN  IF ts[c + 1].type = "." THEN Builds(ts, h, c + 2, "qualified", next)
             ELSE Builds(ts, h, c + 1, "openColumns", next)
<1>1. InsertTo(ts, h, c, "table", q, m, v) /\ c = h + 2 /\ m = 0 /\ v = 0
  BY DEF InsertRead, InsertTo
<1>2. InsertTo(ts, h, c + 1, "openColumns", 1, m, v)
      /\ (ts[c + 1].type = "." => InsertTo(ts, h, c + 2, "qualified", 1, m, v))
  BY <1>1, InsertGoesOn
<1>3. /\ ts[c + 1].type = "." => InsertRead(ts, h, c + 2, "qualified", 1, m, v)
      /\ ts[c + 1].type # "." => InsertRead(ts, h, c + 1, "openColumns", 1, m, v)
  BY <1>2 DEF InsertRead, InsertAhead
<1>4. Items(ts, h + 1, 1) = <<ts[c].lexeme>>
  <2>1. h + 1 \in Nat /\ (h + 1) + 1 = c
    BY <1>1
  <2> QED BY <2>1, OneItem
<1>5. \A i : Items(ts, i, m) = <<>> /\ Items(ts, i, v) = <<>>
  BY <1>1, NoItems
<1>6. [stmt EXCEPT !.table = <<ts[c].lexeme>>] = InsertOf(ts, h, 1, m, v)
  <2>1. PICK x, a, b : x = <<ts[c].lexeme>> /\ a = Items(ts, h + 1, q) /\ b = <<>>
    OBVIOUS
  <2>2. stmt = InsertWith(a, b, b) /\ InsertOf(ts, h, 1, m, v) = InsertWith(x, b, b)
    BY <1>4, <1>5, <2>1, InsertOfIs, Zenon
  <2>3. WithTable(stmt, x) = InsertWith(x, b, b)
    BY <2>2, InsertFilled
  <2> QED BY <2>1, <2>2, <2>3, Zenon DEF WithTable
<1>7. 1 \in Nat
  OBVIOUS
<1> QED BY <1>3, <1>6, <1>7, Zenon DEF Builds

LEMMA InsertQualified ==
  ASSUME NEW ts, NEW h \in Nat, NEW c \in Nat,
         NEW q \in Nat, NEW m \in Nat, NEW v \in Nat, InsertRead(ts, h, c, "qualified", q, m, v),
         ts[c].type \in Names, NEW stmt, stmt = InsertOf(ts, h, q, m, v)
  PROVE  Builds(ts, h, c + 1, "openColumns", [stmt EXCEPT !.table = Append(@, ts[c].lexeme)])
<1>1. InsertTo(ts, h, c, "qualified", q, m, v) /\ c = h + 4 /\ q = 1 /\ m = 0 /\ v = 0
  BY DEF InsertRead, InsertTo
<1>2. InsertRead(ts, h, c + 1, "openColumns", 2, m, v)
  BY <1>1, InsertGoesOn, SMTT(20) DEF InsertRead, InsertAhead
<1>3. Items(ts, h + 1, 2) = Append(Items(ts, h + 1, q), ts[c].lexeme)
  <2>1. h + 1 \in Nat /\ (h + 1) + 3 = c
    BY <1>1
  <2> QED BY <1>1, <2>1, TwoItems
<1>4. \A i : Items(ts, i, m) = <<>> /\ Items(ts, i, v) = <<>>
  BY <1>1, NoItems
<1>5. [stmt EXCEPT !.table = Append(@, ts[c].lexeme)] = InsertOf(ts, h, 2, m, v)
  <2>1. PICK x, a, b : x = ts[c].lexeme /\ a = Items(ts, h + 1, q) /\ b = <<>>
    OBVIOUS
  <2>2. stmt = InsertWith(a, b, b) /\ InsertOf(ts, h, 2, m, v) = InsertWith(Append(a, x), b, b)
    BY <1>3, <1>4, <2>1, InsertOfIs, Zenon
  <2>3. PICK y : y = Append(a, x)
    OBVIOUS
  <2>4. WithTable(stmt, y) = InsertWith(y, b, b) /\ stmt.table = a
    BY <2>2, InsertFilled
  <2> QED BY <2>1, <2>2, <2>3, <2>4, Zenon DEF WithTable
<1>6. 2 \in Nat
  OBVIOUS
<1> QED BY <1>2, <1>5, <1>6, Zenon DEF Builds

LEMMA InsertColumn ==
  ASSUME NEW ts, NEW h \in Nat, NEW c \in Nat,
         NEW q \in Nat, NEW m \in Nat, NEW v \in Nat, InsertRead(ts, h, c, "columns", q, m, v),
         ts[c].type \in Names, NEW stmt, stmt = InsertOf(ts, h, q, m, v)
  PROVE  LET next == [stmt EXCEPT !.columns = Append(@, ts[c].lexeme)]
         IN  IF ts[c + 1].type = Separator THEN Builds(ts, h, c + 2, "columns", next)
             ELSE Builds(ts, h, c + 1, "closeColumns", next)
<1>1. InsertTo(ts, h, c, "columns", q, m, v) /\ c = (h + 1 + 2 * q) + 2 * m + 1 /\ v = 0
  BY DEF InsertRead, InsertTo
<1>2. InsertTo(ts, h, c + 1, "closeColumns", q, m + 1, v)
      /\ (ts[c + 1].type = Separator => InsertTo(ts, h, c + 2, "columns", q, m + 1, v))
  BY <1>1, InsertGoesOn
<1>3. /\ ts[c + 1].type = Separator => InsertRead(ts, h, c + 2, "columns", q, m + 1, v)
      /\ ts[c + 1].type # Separator => InsertRead(ts, h, c + 1, "closeColumns", q, m + 1, v)
  BY <1>2 DEF InsertRead, InsertAhead
<1>4. Items(ts, h + 1 + 2 * q, m + 1) = Append(Items(ts, h + 1 + 2 * q, m), ts[c].lexeme)
  <2>1. h + 1 + 2 * q \in Nat
    OBVIOUS
  <2> QED BY <1>1, <2>1, ItemsGrow
<1>5. \A i : Items(ts, i, v) = <<>>
  BY <1>1, NoItems
<1>6. [stmt EXCEPT !.columns = Append(@, ts[c].lexeme)] = InsertOf(ts, h, q, m + 1, v)
  <2>1. PICK x, a, b, d : /\ x = ts[c].lexeme /\ a = Items(ts, h + 1, q)
                           /\ b = Items(ts, h + 1 + 2 * q, m) /\ d = <<>>
    OBVIOUS
  <2>2. stmt = InsertWith(a, b, d) /\ InsertOf(ts, h, q, m + 1, v) = InsertWith(a, Append(b, x), d)
    BY <1>4, <1>5, <2>1, InsertOfIs, Zenon
  <2>3. PICK y : y = Append(b, x)
    OBVIOUS
  <2>4. WithColumns(stmt, y) = InsertWith(a, y, d) /\ stmt.columns = b
    BY <2>2, InsertFilled
  <2> QED BY <2>1, <2>2, <2>3, <2>4, Zenon DEF WithColumns
<1>7. m + 1 \in Nat
  OBVIOUS
<1> QED BY <1>3, <1>6, <1>7, Zenon DEF Builds

LEMMA InsertValue ==
  ASSUME NEW ts, NEW h \in Nat, NEW c \in Nat,
         NEW q \in Nat, NEW m \in Nat, NEW v \in Nat, InsertRead(ts, h, c, "literals", q, m, v),
         ts[c].type \in Literals, NEW stmt, stmt = InsertOf(ts, h, q, m, v)
  PROVE  LET next == [stmt EXCEPT !.values = Append(@, ts[c].lexeme)]
         IN  IF ts[c + 1].type = Separator THEN Builds(ts, h, c + 2, "literals", next)
             ELSE Builds(ts, h, c + 1, "closeValues", next)
<1>1. InsertTo(ts, h, c, "literals", q, m, v) /\ c = (h + 3 + 2 * q + 2 * m) + 2 * v + 1
  BY DEF InsertRead, InsertTo
<1>2. InsertTo(ts, h, c + 1, "closeValues", q, m, v + 1)
      /\ (ts[c + 1].type = Separator => InsertTo(ts, h, c + 2, "literals", q, m, v + 1))
  BY <1>1, InsertGoesOn
<1>3. /\ ts[c + 1].type = Separator => InsertRead(ts, h, c + 2, "literals", q, m, v + 1)
      /\ ts[c + 1].type # Separator => InsertRead(ts, h, c + 1, "closeValues", q, m, v + 1)
  BY <1>2 DEF InsertRead, InsertAhead
<1>4. Items(ts, h + 3 + 2 * q + 2 * m, v + 1) = Append(Items(ts, h + 3 + 2 * q + 2 * m, v), ts[c].lexeme)
  <2>1. h + 3 + 2 * q + 2 * m \in Nat
    OBVIOUS
  <2> QED BY <1>1, <2>1, ItemsGrow
<1>5. [stmt EXCEPT !.values = Append(@, ts[c].lexeme)] = InsertOf(ts, h, q, m, v + 1)
  <2>1. PICK x, a, b, d : /\ x = ts[c].lexeme /\ a = Items(ts, h + 1, q)
                           /\ b = Items(ts, h + 1 + 2 * q, m)
                           /\ d = Items(ts, h + 3 + 2 * q + 2 * m, v)
    OBVIOUS
  <2>2. stmt = InsertWith(a, b, d) /\ InsertOf(ts, h, q, m, v + 1) = InsertWith(a, b, Append(d, x))
    BY <1>4, <2>1, InsertOfIs, Zenon
  <2>3. PICK y : y = Append(d, x)
    OBVIOUS
  <2>4. WithValues(stmt, y) = InsertWith(a, b, y) /\ stmt.values = d
    BY <2>2, InsertFilled
  <2> QED BY <2>1, <2>2, <2>3, <2>4, Zenon DEF WithValues
<1>6. v + 1 \in Nat
  OBVIOUS
<1> QED BY <1>3, <1>5, <1>6, Zenon DEF Builds


SelectWith(table, all, columns, where) ==
  [type |-> "SELECT", table |-> table, selectAll |-> all, columns |-> columns, where |-> where]

WithAll(stmt)          == [stmt EXCEPT !.selectAll = TRUE]
WithColumn(stmt, t, x) == [stmt EXCEPT !.where.enabled = t, !.where.column = x]
WithLiteral(stmt, x)   == [stmt EXCEPT !.where.value = x]

LEMMA SelectFilled ==
  ASSUME NEW a, NEW s, NEW b, NEW y, NEW w
  PROVE  /\ WithTable(SelectWith(a, s, b, w), y) = SelectWith(y, s, b, w)
         /\ WithColumns(SelectWith(a, s, b, w), y) = SelectWith(a, s, y, w)
         /\ SelectWith(a, s, b, w).table = a
         /\ SelectWith(a, s, b, w).columns = b
<1>1. PICK u : u = [type |-> "SELECT", table |-> a, selectAll |-> s, columns |-> b, where |-> w]
  OBVIOUS
<1>2. /\ [u EXCEPT !.table = y]
           = [type |-> "SELECT", table |-> y, selectAll |-> s, columns |-> b, where |-> w]
      /\ [u EXCEPT !.columns = y]
           = [type |-> "SELECT", table |-> a, selectAll |-> s, columns |-> y, where |-> w]
      /\ u.table = a /\ u.columns = b
  BY <1>1
<1> QED BY <1>1, <1>2, Zenon DEF SelectWith, WithTable, WithColumns

LEMMA AllFilled ==
  \A a, s, b, w : WithAll(SelectWith(a, s, b, w)) = SelectWith(a, TRUE, b, w)
<1> SUFFICES ASSUME NEW a, NEW s, NEW b, NEW w
             PROVE  WithAll(SelectWith(a, s, b, w)) = SelectWith(a, TRUE, b, w)
  OBVIOUS
<1>1. PICK u : u = [type |-> "SELECT", table |-> a, selectAll |-> s, columns |-> b, where |-> w]
  OBVIOUS
<1>2. PICK t : t = TRUE
  OBVIOUS
<1>3. [u EXCEPT !.selectAll = t]
        = [type |-> "SELECT", table |-> a, selectAll |-> t, columns |-> b, where |-> w]
  BY <1>1
<1> QED BY <1>1, <1>2, <1>3, Zenon DEF SelectWith, WithAll

WhereWith(enabled, x, y) == [enabled |-> enabled, column |-> x, value |-> y]

LEMMA WhereFilled ==
  ASSUME NEW a, NEW s, NEW b, NEW x, NEW e, NEW f, NEW g, NEW t
  PROVE  /\ WithColumn(SelectWith(a, s, b, WhereWith(e, f, g)), t, x)
              = SelectWith(a, s, b, WhereWith(t, x, g))
         /\ WithLiteral(SelectWith(a, s, b, WhereWith(e, f, g)), x)
              = SelectWith(a, s, b, WhereWith(e, f, x))
<1>1. PICK w : w = [enabled |-> e, column |-> f, value |-> g]
  OBVIOUS
<1>2. PICK u : u = [type |-> "SELECT", table |-> a, selectAll |-> s, columns |-> b, where |-> w]
  OBVIOUS
<1>3. [u EXCEPT !.where.enabled = t, !.where.column = x]
        = [type |-> "SELECT", table |-> a, selectAll |-> s, columns |-> b,
           where |-> [enabled |-> t, column |-> x, value |-> g]]
  <2>1. PICK z : z = [type |-> "SELECT", table |-> a, selectAll |-> s, columns |-> b,
                      where |-> [enabled |-> t, column |-> f, value |-> g]]
    OBVIOUS
  <2>2. [u EXCEPT !.where.enabled = t] = z
    BY <1>1, <1>2, <2>1
  <2>3. [z EXCEPT !.where.column = x]
          = [type |-> "SELECT", table |-> a, selectAll |-> s, columns |-> b,
             where |-> [enabled |-> t, column |-> x, value |-> g]]
    BY <2>1
  <2>4. [u EXCEPT !.where.enabled = t, !.where.column = x]
          = [[u EXCEPT !.where.enabled = t] EXCEPT !.where.column = x]
    BY Zenon
  <2> QED BY <2>2, <2>3, <2>4, Zenon
<1>4. [u EXCEPT !.where.value = x]
        = [type |-> "SELECT", table |-> a, selectAll |-> s, columns |-> b,
           where |-> [enabled |-> e, column |-> f, value |-> x]]
  BY <1>1, <1>2
<1> QED BY <1>1, <1>2, <1>3, <1>4, Zenon DEF SelectWith, WithColumn, WithLiteral, WhereWith

LEMMA SelectSoFarIs ==
  \A ts, h, c, r, m, q : SelectSoFar(ts, h, c, r, m, q)
     = SelectWith(Items(ts, FromAt(h, m), q), Star(m, r), Items(ts, h, m),
                  WhereSoFar(ts, FromAt(h, m) + 2 * q, c))
  BY Zenon DEF SelectSoFar, SelectWith

HalfWhere(ts, where)  == [enabled |-> TRUE, column |-> ts[where + 1].lexeme, value |-> <<>>]
WholeWhere(ts, where) ==
  [enabled |-> TRUE, column |-> ts[where + 1].lexeme, value |-> ts[where + 3].lexeme]

LEMMA WhereIs ==
  ASSUME NEW ts, NEW where \in Nat, NEW c \in Nat
  PROVE  /\ c <= where + 1 => WhereSoFar(ts, where, c) = NoWhere
         /\ c \in {where + 2, where + 3} => WhereSoFar(ts, where, c) = HalfWhere(ts, where)
         /\ c = where + 4 => WhereSoFar(ts, where, c) = WholeWhere(ts, where)
<1>1. ASSUME c <= where + 1 PROVE WhereSoFar(ts, where, c) = NoWhere
  <2>1. (c > where + 1) = FALSE /\ (c > where + 3) = FALSE
    BY <1>1
  <2> QED BY <2>1 DEF WhereSoFar, NoWhere
<1>2. ASSUME c \in {where + 2, where + 3} PROVE WhereSoFar(ts, where, c) = HalfWhere(ts, where)
  <2>1. (c > where + 1) = TRUE /\ (c > where + 3) = FALSE
    BY <1>2
  <2> QED BY <2>1 DEF WhereSoFar, HalfWhere
<1>3. ASSUME c = where + 4 PROVE WhereSoFar(ts, where, c) = WholeWhere(ts, where)
  <2>1. (c > where + 1) = TRUE /\ (c > where + 3) = TRUE
    BY <1>3
  <2> QED BY <2>1 DEF WhereSoFar, WholeWhere
<1> QED BY <1>1, <1>2, <1>3

LEMMA StarIs ==
  /\ Star(0, "selection") = FALSE /\ Star(0, "from") = TRUE
  /\ \A m, r : Star(m, r) \in BOOLEAN
  /\ \A m \in Nat : \A r : Star(m + 1, r) = FALSE
  /\ \A m, r, t : r # "selection" /\ t # "selection" => Star(m, r) = Star(m, t)
<1>1. \A m \in Nat : m + 1 # 0
  OBVIOUS
<1> QED BY <1>1 DEF Star

\* Up to WHERE there is nothing of the condition.
LEMMA BeforeWhere ==
  ASSUME NEW ts, NEW h \in Nat, NEW c \in Nat, NEW r, NEW m \in Nat, NEW q \in Nat,
         SelectTo(ts, h, c, r, m, q),
         r \in {"selection", "columns", "from", "table", "qualified", "where", "whereColumn"}
  PROVE  WhereSoFar(ts, FromAt(h, m) + 2 * q, c) = NoWhere
<1>1. PICK from \in Nat : /\ from = FromAt(h, m)
                          /\ m = 0 => from = h + 2
                          /\ m > 0 => from = h + 2 * m
  <2>1. PICK from \in Nat : from = FromAt(h, m)
    BY FromIs
  <2>2. (m = 0 => from = h + 2) /\ (m > 0 => from = h + 2 * m)
    BY <2>1, FromIs
  <2> QED BY <2>1, <2>2
<1>2. c <= (from + 2 * q) + 1
  BY <1>1 DEF SelectTo
<1>3. from + 2 * q \in Nat
  BY <1>1
<1> QED BY <1>1, <1>2, <1>3, WhereIs


\* An element of parse_select that adds nothing to the statement.
LEMMA SelectConsumes ==
  ASSUME NEW ts, NEW h \in Nat, NEW c \in Nat, NEW r, NEW m \in Nat, NEW q \in Nat,
         SelectRead(ts, h, c, r, m, q), r \in DOMAIN After, ts[c].type \in Accepts[r]
  PROVE  /\ SelectRead(ts, h, c + 1, After[r], m, q)
         /\ SelectSoFar(ts, h, c + 1, After[r], m, q) = SelectSoFar(ts, h, c, r, m, q)
<1>1. SelectTo(ts, h, c, r, m, q) /\ r \in {"from", "equal"}
  BY DEF SelectRead, SelectTo, After
<1>2. PICK from \in Nat, where \in Nat : from = FromAt(h, m) /\ where = from + 2 * q
  BY FromIs
<1>3. CASE r = "from"
  <2>1. SelectTo(ts, h, c + 1, "table", m, q)
    BY <1>1, <1>3, AcceptsIs, SelectGoesOn
  <2>2. SelectRead(ts, h, c + 1, "table", m, q)
    BY <2>1 DEF SelectRead, SelectAhead
  <2>3. WhereSoFar(ts, where, c) = NoWhere /\ WhereSoFar(ts, where, c + 1) = NoWhere
    <3>1. c + 1 \in Nat
      OBVIOUS
    <3> QED BY <1>1, <1>2, <1>3, <2>1, <3>1, BeforeWhere
  <2>4. SelectSoFar(ts, h, c + 1, "table", m, q) = SelectSoFar(ts, h, c, r, m, q)
    BY <1>2, <1>3, <2>3, StarIs, SelectSoFarIs
  <2> QED BY <1>3, <2>2, <2>4 DEF After
<1>4. CASE r = "equal"
  <2>1. SelectTo(ts, h, c + 1, "whereValue", m, q)
    BY <1>1, <1>4, AcceptsIs, SelectGoesOn
  <2>2. SelectRead(ts, h, c + 1, "whereValue", m, q)
    BY <2>1 DEF SelectRead, SelectAhead
  <2>3. WhereSoFar(ts, where, c) = WhereSoFar(ts, where, c + 1)
    <3>1. PICK d \in Nat : d = c + 1
      OBVIOUS
    <3>2. c \in {where + 2, where + 3} /\ d \in {where + 2, where + 3}
      BY <1>1, <1>2, <1>4, <3>1 DEF SelectTo
    <3>3. WhereSoFar(ts, where, c) = HalfWhere(ts, where)
      BY <3>2, WhereIs
    <3>4. WhereSoFar(ts, where, d) = HalfWhere(ts, where)
      BY <3>2, WhereIs
    <3> QED BY <3>1, <3>3, <3>4
  <2>4. SelectSoFar(ts, h, c + 1, "whereValue", m, q) = SelectSoFar(ts, h, c, r, m, q)
    BY <1>2, <1>4, <2>3, StarIs, SelectSoFarIs
  <2> QED BY <1>4, <2>2, <2>4 DEF After
<1> QED BY <1>1, <1>3, <1>4

LEMMA SelectTableRead ==
  ASSUME NEW ts, NEW h \in Nat, NEW c \in Nat, NEW m \in Nat, NEW q \in Nat,
         SelectRead(ts, h, c, "table", m, q),
         ts[c].type \in Names, NEW stmt, stmt = SelectSoFar(ts, h, c, "table", m, q)
  PROVE  LET next == [stmt EXCEPT !.table = <<ts[c].lexeme>>]
         IN  IF ts[c + 1].type = "." THEN Builds(ts, h, c + 2, "qualified", next)
             ELSE Builds(ts, h, c + 1, "where", next)
<1>1. SelectTo(ts, h, c, "table", m, q)
  BY DEF SelectRead
<1>2. SelectTo(ts, h, c + 1, "where", m, 1)
      /\ (ts[c + 1].type = "." => SelectTo(ts, h, c + 2, "qualified", m, 1))
  BY <1>1, SelectGoesOn
<1>3. /\ ts[c + 1].type = "." => SelectRead(ts, h, c + 2, "qualified", m, 1)
      /\ ts[c + 1].type # "." => SelectRead(ts, h, c + 1, "where", m, 1)
  BY <1>2 DEF SelectRead, SelectAhead
<1>4. PICK from \in Nat : from = FromAt(h, m)
  BY FromIs
<1>5. Items(ts, from, 1) = <<ts[c].lexeme>>
  <2>1. from + 1 = c
    BY <1>1, <1>4 DEF SelectTo
  <2> QED BY <2>1, OneItem
<1>6. /\ WhereSoFar(ts, from + 2 * q, c) = NoWhere
      /\ WhereSoFar(ts, from + 2 * 1, c + 1) = NoWhere
      /\ ts[c + 1].type = "." => WhereSoFar(ts, from + 2 * 1, c + 2) = NoWhere
  <2>1. c + 1 \in Nat /\ c + 2 \in Nat /\ 1 \in Nat
    OBVIOUS
  <2> QED BY <1>1, <1>2, <1>4, <2>1, BeforeWhere
<1>7. [stmt EXCEPT !.table = <<ts[c].lexeme>>] = WithTable(stmt, <<ts[c].lexeme>>)
  BY Zenon DEF WithTable
<1>8. PICK x : x = <<ts[c].lexeme>>
  OBVIOUS
<1>9. /\ WithTable(stmt, x) = SelectSoFar(ts, h, c + 1, "where", m, 1)
      /\ ts[c + 1].type = "." => WithTable(stmt, x) = SelectSoFar(ts, h, c + 2, "qualified", m, 1)
  <2>1. PICK a, z, b, w : /\ a = Items(ts, from, q) /\ z = Star(m, "table")
                          /\ b = Items(ts, h, m) /\ w = NoWhere
    OBVIOUS
  <2>2. Star(m, "where") = z /\ Star(m, "qualified") = z
    BY <2>1, StarIs
  <2>3. stmt = SelectWith(a, z, b, w)
    BY <1>4, <1>6, <2>1, SelectSoFarIs, Zenon
  <2>4. /\ SelectSoFar(ts, h, c + 1, "where", m, 1) = SelectWith(x, z, b, w)
        /\ ts[c + 1].type = "." => SelectSoFar(ts, h, c + 2, "qualified", m, 1) = SelectWith(x, z, b, w)
    BY <1>4, <1>5, <1>6, <1>8, <2>1, <2>2, SelectSoFarIs, Zenon
  <2>5. WithTable(SelectWith(a, z, b, w), x) = SelectWith(x, z, b, w)
    BY SelectFilled
  <2> QED BY <2>3, <2>4, <2>5, Zenon
<1>10. 1 \in Nat
  OBVIOUS
<1> QED BY <1>3, <1>7, <1>8, <1>9, <1>10, Zenon DEF Builds


LEMMA SelectQualified ==
  ASSUME NEW ts, NEW h \in Nat, NEW c \in Nat, NEW m \in Nat, NEW q \in Nat,
         SelectRead(ts, h, c, "qualified", m, q),
         ts[c].type \in Names, NEW stmt, stmt = SelectSoFar(ts, h, c, "qualified", m, q)
  PROVE  Builds(ts, h, c + 1, "where", [stmt EXCEPT !.table = Append(@, ts[c].lexeme)])
<1>1. SelectTo(ts, h, c, "qualified", m, q)
  BY DEF SelectRead
<1>2. SelectTo(ts, h, c + 1, "where", m, 2)
  BY <1>1, SelectGoesOn
<1>3. SelectRead(ts, h, c + 1, "where", m, 2)
  BY <1>2 DEF SelectRead, SelectAhead
<1>4. PICK from \in Nat : from = FromAt(h, m)
  BY FromIs
<1>5. Items(ts, from, 2) = Append(Items(ts, from, q), ts[c].lexeme)
  <2>1. from + 3 = c /\ q = 1
    BY <1>1, <1>4 DEF SelectTo
  <2> QED BY <2>1, TwoItems
<1>6. /\ WhereSoFar(ts, from + 2 * q, c) = NoWhere
      /\ WhereSoFar(ts, from + 2 * 2, c + 1) = NoWhere
  <2>1. c + 1 \in Nat /\ 2 \in Nat
    OBVIOUS
  <2> QED BY <1>1, <1>2, <1>4, <2>1, BeforeWhere
<1>7. [stmt EXCEPT !.table = Append(@, ts[c].lexeme)] = SelectSoFar(ts, h, c + 1, "where", m, 2)
  <2>1. PICK x, a, z, b, w : /\ x = ts[c].lexeme /\ a = Items(ts, from, q)
                             /\ z = Star(m, "qualified") /\ b = Items(ts, h, m) /\ w = NoWhere
    OBVIOUS
  <2>2. Star(m, "where") = z
    BY <2>1, StarIs
  <2>3. stmt = SelectWith(a, z, b, w)
    BY <1>4, <1>6, <2>1, SelectSoFarIs, Zenon
  <2>4. SelectSoFar(ts, h, c + 1, "where", m, 2) = SelectWith(Append(a, x), z, b, w)
    BY <1>4, <1>5, <1>6, <2>1, <2>2, SelectSoFarIs, Zenon
  <2>5. PICK y : y = Append(a, x)
    OBVIOUS
  <2>6. WithTable(stmt, y) = SelectWith(y, z, b, w) /\ stmt.table = a
    BY <2>3, SelectFilled
  <2> QED BY <2>1, <2>4, <2>5, <2>6, Zenon DEF WithTable
<1>8. 2 \in Nat
  OBVIOUS
<1> QED BY <1>3, <1>7, <1>8, Zenon DEF Builds

LEMMA SelectAll ==
  ASSUME NEW ts, NEW h \in Nat, NEW c \in Nat, NEW m \in Nat, NEW q \in Nat,
         SelectRead(ts, h, c, "selection", m, q),
         ts[c].type = "*", NEW stmt, stmt = SelectSoFar(ts, h, c, "selection", m, q)
  PROVE  Builds(ts, h, c + 1, "from", [stmt EXCEPT !.selectAll = TRUE])
<1>1. SelectTo(ts, h, c, "selection", m, q) /\ m = 0
  BY DEF SelectRead, SelectTo
<1>2. SelectTo(ts, h, c + 1, "from", m, q)
  BY <1>1, SelectGoesOn
<1>3. SelectRead(ts, h, c + 1, "from", m, q)
  BY <1>1, <1>2 DEF SelectRead, SelectAhead
<1>4. PICK from \in Nat : from = FromAt(h, m)
  BY FromIs
<1>5. /\ WhereSoFar(ts, from + 2 * q, c) = NoWhere
      /\ WhereSoFar(ts, from + 2 * q, c + 1) = NoWhere
  <2>1. c + 1 \in Nat
    OBVIOUS
  <2> QED BY <1>1, <1>2, <1>4, <2>1, BeforeWhere
<1>6. [stmt EXCEPT !.selectAll = TRUE] = SelectSoFar(ts, h, c + 1, "from", m, q)
  <2>1. PICK a, b, w : a = Items(ts, from, q) /\ b = Items(ts, h, m) /\ w = NoWhere
    OBVIOUS
  <2>2. stmt = SelectWith(a, Star(m, "selection"), b, w)
    BY <1>4, <1>5, <2>1, SelectSoFarIs, Zenon
  <2>3. SelectSoFar(ts, h, c + 1, "from", m, q) = SelectWith(a, TRUE, b, w)
    BY <1>1, <1>4, <1>5, <2>1, StarIs, SelectSoFarIs, Zenon
  <2>4. WithAll(stmt) = SelectWith(a, TRUE, b, w)
    <3>1. WithAll(SelectWith(a, Star(m, "selection"), b, w)) = SelectWith(a, TRUE, b, w)
      BY AllFilled, Zenon
    <3> HIDE DEF SelectWith
    <3> QED BY <2>2, <3>1
  <2> QED BY <2>3, <2>4, Zenon DEF WithAll
<1> QED BY <1>3, <1>6, Zenon DEF Builds

LEMMA SelectColumn ==
  ASSUME NEW ts, NEW h \in Nat, NEW c \in Nat, NEW r \in {"selection", "columns"},
         NEW m \in Nat, NEW q \in Nat, SelectRead(ts, h, c, r, m, q),
         ts[c].type \in Names, NEW stmt, stmt = SelectSoFar(ts, h, c, r, m, q)
  PROVE  LET next == [stmt EXCEPT !.columns = Append(@, ts[c].lexeme)]
         IN  IF ts[c + 1].type = Separator THEN Builds(ts, h, c + 2, "columns", next)
             ELSE Builds(ts, h, c + 1, "from", next)
<1>1. SelectTo(ts, h, c, r, m, q) /\ c = h + 1 + 2 * m /\ q = 0
      /\ (r = "selection" => m = 0) /\ (r = "columns" => m > 0)
  BY DEF SelectRead, SelectTo
<1>2. SelectTo(ts, h, c + 1, "from", m + 1, q)
      /\ (ts[c + 1].type = Separator => SelectTo(ts, h, c + 2, "columns", m + 1, q))
  BY <1>1, SelectGoesOn
<1>3. /\ ts[c + 1].type = Separator => SelectRead(ts, h, c + 2, "columns", m + 1, q)
      /\ ts[c + 1].type # Separator => SelectRead(ts, h, c + 1, "from", m + 1, q)
  BY <1>2 DEF SelectRead, SelectAhead
<1>4. Items(ts, h, m + 1) = Append(Items(ts, h, m), ts[c].lexeme)
  <2>1. h + 2 * m + 1 = c
    BY <1>1
  <2> QED BY <2>1, ItemsGrow
<1>5. /\ WhereSoFar(ts, FromAt(h, m) + 2 * q, c) = NoWhere
      /\ WhereSoFar(ts, FromAt(h, m + 1) + 2 * q, c + 1) = NoWhere
      /\ ts[c + 1].type = Separator => WhereSoFar(ts, FromAt(h, m + 1) + 2 * q, c + 2) = NoWhere
  <2>1. c + 1 \in Nat /\ c + 2 \in Nat /\ m + 1 \in Nat
    OBVIOUS
  <2>2. PICK i, d, g : i = m + 1 /\ d = c + 1 /\ g = c + 2
    OBVIOUS
  <2>3. WhereSoFar(ts, FromAt(h, m) + 2 * q, c) = NoWhere
    BY <1>1, BeforeWhere
  <2>4. WhereSoFar(ts, FromAt(h, i) + 2 * q, d) = NoWhere
    BY <1>2, <2>1, <2>2, BeforeWhere
  <2>5. ts[c + 1].type = Separator => WhereSoFar(ts, FromAt(h, i) + 2 * q, g) = NoWhere
    BY <1>2, <2>1, <2>2, BeforeWhere
  <2> QED BY <2>2, <2>3, <2>4, <2>5
<1>6. \A k, l : Items(ts, k, q) = Items(ts, l, q)
  BY <1>1, NoItems
<1>7. PICK next : next = [stmt EXCEPT !.columns = Append(@, ts[c].lexeme)]
  OBVIOUS
<1>8. /\ next = SelectSoFar(ts, h, c + 1, "from", m + 1, q)
      /\ ts[c + 1].type = Separator => next = SelectSoFar(ts, h, c + 2, "columns", m + 1, q)
  <2>1. PICK x, a, z, b, w : /\ x = ts[c].lexeme /\ a = Items(ts, FromAt(h, m), q)
                             /\ z = Star(m, r) /\ b = Items(ts, h, m) /\ w = NoWhere
    OBVIOUS
  <2>2. Star(m + 1, "from") = z /\ Star(m + 1, "columns") = z
    <3>1. z = FALSE
      <4>1. CASE r = "selection"
        BY <1>1, <2>1, <4>1, StarIs, Zenon
      <4>2. CASE r # "selection"
        <5>1. m # 0
          BY <1>1, <4>2
        <5>2. ~Star(m, r) /\ Star(m, r) \in BOOLEAN
          BY <5>1, Zenon DEF Star
        <5> QED BY <2>1, <5>2, Zenon
      <4> QED BY <4>1, <4>2
    <3> QED BY <3>1, StarIs
  <2>3. stmt = SelectWith(a, z, b, w)
    BY <1>5, <2>1, SelectSoFarIs, Zenon
  <2>4. SelectSoFar(ts, h, c + 1, "from", m + 1, q) = SelectWith(a, z, Append(b, x), w)
    BY <1>4, <1>5, <1>6, <2>1, <2>2, SelectSoFarIs, Zenon
  <2>5. ts[c + 1].type = Separator
          => SelectSoFar(ts, h, c + 2, "columns", m + 1, q) = SelectWith(a, z, Append(b, x), w)
    BY <1>4, <1>5, <1>6, <2>1, <2>2, SelectSoFarIs, Zenon
  <2>6. PICK y : y = Append(b, x)
    OBVIOUS
  <2>7. WithColumns(stmt, y) = SelectWith(a, z, y, w) /\ stmt.columns = b
    BY <2>3, SelectFilled
  <2>8. next = WithColumns(stmt, y)
    BY <1>7, <2>1, <2>6, <2>7, Zenon DEF WithColumns
  <2> QED BY <2>4, <2>5, <2>6, <2>7, <2>8, Zenon
<1>9. m + 1 \in Nat
  OBVIOUS
<1> QED BY <1>3, <1>7, <1>8, <1>9, Zenon DEF Builds


LEMMA SelectWhere ==
  ASSUME NEW ts, NEW h \in Nat, NEW c \in Nat, NEW m \in Nat, NEW q \in Nat,
         SelectRead(ts, h, c, "where", m, q), NEW stmt, stmt = SelectSoFar(ts, h, c, "where", m, q)
  PROVE  IF ts[c].type = "WHERE" THEN Builds(ts, h, c + 1, "whereColumn", stmt)
         ELSE Builds(ts, h, c, "end", stmt)
<1>1. SelectTo(ts, h, c, "where", m, q) /\ c = FromAt(h, m) + 2 * q /\ (q = 1 => ts[c].type # ".")
  BY DEF SelectRead, SelectTo, SelectAhead
<1>2. (ts[c].type = "WHERE" => SelectTo(ts, h, c + 1, "whereColumn", m, q))
      /\ SelectTo(ts, h, c, "end", m, q)
  <2>1. c + 0 = c
    OBVIOUS
  <2> QED BY <1>1, <2>1, SelectGoesOn
<1>3. /\ ts[c].type = "WHERE" => SelectRead(ts, h, c + 1, "whereColumn", m, q)
      /\ ts[c].type # "WHERE" => SelectRead(ts, h, c, "end", m, q)
  BY <1>1, <1>2 DEF SelectRead, SelectAhead
<1>4. PICK where : where = FromAt(h, m) + 2 * q
  OBVIOUS
<1>5. WhereSoFar(ts, where, c) = NoWhere
  BY <1>1, <1>4, BeforeWhere
<1>6. ts[c].type = "WHERE" => WhereSoFar(ts, where, c + 1) = NoWhere
  <2>1. c + 1 \in Nat
    OBVIOUS
  <2> QED BY <1>2, <1>4, <2>1, BeforeWhere
<1>7. Star(m, "whereColumn") = Star(m, "where") /\ Star(m, "end") = Star(m, "where")
  BY StarIs
<1>8. /\ ts[c].type = "WHERE" => stmt = SelectSoFar(ts, h, c + 1, "whereColumn", m, q)
      /\ stmt = SelectSoFar(ts, h, c, "end", m, q)
  BY <1>4, <1>5, <1>6, <1>7, SelectSoFarIs, Zenon
<1> QED BY <1>3, <1>8, Zenon DEF Builds

LEMMA SelectWhereColumn ==
  ASSUME NEW ts, NEW h \in Nat, NEW c \in Nat, NEW m \in Nat, NEW q \in Nat,
         SelectRead(ts, h, c, "whereColumn", m, q), ts[c].type \in Names,
         NEW stmt, stmt = SelectSoFar(ts, h, c, "whereColumn", m, q)
  PROVE  Builds(ts, h, c + 1, "equal",
                [stmt EXCEPT !.where.enabled = TRUE, !.where.column = ts[c].lexeme])
<1>1. SelectTo(ts, h, c, "whereColumn", m, q)
  BY DEF SelectRead
<1>2. SelectTo(ts, h, c + 1, "equal", m, q)
  BY <1>1, SelectGoesOn
<1>3. SelectRead(ts, h, c + 1, "equal", m, q)
  BY <1>2 DEF SelectRead, SelectAhead
<1>4. PICK where \in Nat : where = FromAt(h, m) + 2 * q
  <2>1. PICK from \in Nat : from = FromAt(h, m)
    BY FromIs
  <2>2. PICK where \in Nat : where = from + 2 * q
    OBVIOUS
  <2> QED BY <2>1, <2>2
<1>5. c = where + 1
  BY <1>1, <1>4 DEF SelectTo
<1>6. WhereSoFar(ts, where, c) = NoWhere
  BY <1>1, <1>4, BeforeWhere
<1>7. WhereSoFar(ts, where, c + 1) = HalfWhere(ts, where)
  <2>1. PICK d \in Nat : d = c + 1
    OBVIOUS
  <2>2. d \in {where + 2, where + 3}
    BY <1>5, <2>1
  <2>3. WhereSoFar(ts, where, d) = HalfWhere(ts, where)
    BY <2>2, WhereIs
  <2> QED BY <2>1, <2>3
<1>8. [stmt EXCEPT !.where.enabled = TRUE, !.where.column = ts[c].lexeme]
        = SelectSoFar(ts, h, c + 1, "equal", m, q)
  <2>1. PICK x, a, z, b, t, f, y : /\ x = ts[c].lexeme /\ a = Items(ts, FromAt(h, m), q)
                                   /\ z = Star(m, "whereColumn") /\ b = Items(ts, h, m)
                                   /\ t = TRUE /\ f = FALSE /\ y = <<>>
    OBVIOUS
  <2>2. Star(m, "equal") = z
    BY <2>1, StarIs
  <2>3. stmt = SelectWith(a, z, b, NoWhere)
    BY <1>4, <1>6, <2>1, SelectSoFarIs, Zenon
  <2>4. SelectSoFar(ts, h, c + 1, "equal", m, q) = SelectWith(a, z, b, HalfWhere(ts, where))
    BY <1>4, <1>7, <2>1, <2>2, SelectSoFarIs, Zenon
  <2>5. WithColumn(SelectWith(a, z, b, NoWhere), t, x) = SelectWith(a, z, b, HalfWhere(ts, where))
    <3>1. x = ts[where + 1].lexeme
      BY <1>5, <2>1
    <3>2. f = FALSE /\ y = <<>>
      BY <2>1
    <3>3. NoWhere = WhereWith(f, y, y)
      BY <3>2, Zenon DEF NoWhere, WhereWith
    <3>4. HalfWhere(ts, where) = WhereWith(t, x, y)
      BY <2>1, <3>1, <3>2, Zenon DEF HalfWhere, WhereWith
    <3>5. WithColumn(SelectWith(a, z, b, WhereWith(f, y, y)), t, x) = SelectWith(a, z, b, WhereWith(t, x, y))
      BY WhereFilled
    <3> QED BY <3>3, <3>4, <3>5, Zenon
  <2> QED BY <2>1, <2>3, <2>4, <2>5, Zenon DEF WithColumn
<1> QED BY <1>3, <1>8, Zenon DEF Builds

LEMMA SelectWhereValue ==
  ASSUME NEW ts, NEW h \in Nat, NEW c \in Nat, NEW m \in Nat, NEW q \in Nat,
         SelectRead(ts, h, c, "whereValue", m, q), ts[c].type \in Literals,
         NEW stmt, stmt = SelectSoFar(ts, h, c, "whereValue", m, q)
  PROVE  Builds(ts, h, c + 1, "end", [stmt EXCEPT !.where.value = ts[c].lexeme])
<1>1. SelectTo(ts, h, c, "whereValue", m, q)
  BY DEF SelectRead
<1>2. SelectTo(ts, h, c + 1, "end", m, q)
  BY <1>1, SelectGoesOn
<1>4. PICK where \in Nat : where = FromAt(h, m) + 2 * q
  <2>1. PICK from \in Nat : from = FromAt(h, m)
    BY FromIs
  <2>2. PICK where \in Nat : where = from + 2 * q
    OBVIOUS
  <2> QED BY <2>1, <2>2
<1>5. c = where + 3
  BY <1>1, <1>4 DEF SelectTo
<1>3. SelectRead(ts, h, c + 1, "end", m, q)
  BY <1>2, <1>4, <1>5 DEF SelectRead, SelectAhead
<1>6. WhereSoFar(ts, where, c) = HalfWhere(ts, where)
  <2>1. c \in {where + 2, where + 3}
    BY <1>5
  <2> QED BY <2>1, WhereIs
<1>7. WhereSoFar(ts, where, c + 1) = WholeWhere(ts, where)
  <2>1. PICK d \in Nat : d = c + 1
    OBVIOUS
  <2>2. d = where + 4
    BY <1>5, <2>1
  <2>3. WhereSoFar(ts, where, d) = WholeWhere(ts, where)
    BY <2>2, WhereIs
  <2> QED BY <2>1, <2>3
<1>8. [stmt EXCEPT !.where.value = ts[c].lexeme] = SelectSoFar(ts, h, c + 1, "end", m, q)
  <2>1. PICK x, a, z, b : /\ x = ts[c].lexeme /\ a = Items(ts, FromAt(h, m), q)
                          /\ z = Star(m, "whereValue") /\ b = Items(ts, h, m)
    OBVIOUS
  <2>2. Star(m, "end") = z
    BY <2>1, StarIs
  <2>3. stmt = SelectWith(a, z, b, HalfWhere(ts, where))
    BY <1>4, <1>6, <2>1, SelectSoFarIs, Zenon
  <2>4. SelectSoFar(ts, h, c + 1, "end", m, q) = SelectWith(a, z, b, WholeWhere(ts, where))
    BY <1>4, <1>7, <2>1, <2>2, SelectSoFarIs, Zenon
  <2>5. WithLiteral(SelectWith(a, z, b, HalfWhere(ts, where)), x)
          = SelectWith(a, z, b, WholeWhere(ts, where))
    <3>1. x = ts[where + 3].lexeme
      BY <1>5, <2>1
    <3>2. PICK t, f, y : t = TRUE /\ f = ts[where + 1].lexeme /\ y = <<>>
      OBVIOUS
    <3>3. HalfWhere(ts, where) = WhereWith(t, f, y)
      BY <3>2, Zenon DEF HalfWhere, WhereWith
    <3>4. WholeWhere(ts, where) = WhereWith(t, f, x)
      BY <3>1, <3>2, Zenon DEF WholeWhere, WhereWith
    <3>5. WithLiteral(SelectWith(a, z, b, WhereWith(t, f, y)), x) = SelectWith(a, z, b, WhereWith(t, f, x))
      BY WhereFilled
    <3> QED BY <3>3, <3>4, <3>5, Zenon
  <2> QED BY <2>1, <2>3, <2>4, <2>5, Zenon DEF WithLiteral
<1> QED BY <1>3, <1>8, Zenon DEF Builds

\* At its end the statement under construction is the one that the grammar means.
LEMMA BuiltIs ==
  ASSUME NEW ts, NEW h \in Nat, NEW c \in Nat \ {0}, NEW stmt, Builds(ts, h, c, "end", stmt)
  PROVE  StatementsAt(ts, h, c - 1) = {stmt}
<1>1. PICK e \in Nat : e = c - 1 /\ e + 1 = c
  OBVIOUS
<1>2. CASE \E q, m, v \in Nat : InsertRead(ts, h, c, "end", q, m, v) /\ stmt = InsertOf(ts, h, q, m, v)
  <2>1. PICK q \in Nat, m \in Nat, v \in Nat :
          InsertRead(ts, h, c, "end", q, m, v) /\ stmt = InsertOf(ts, h, q, m, v)
    BY <1>2
  <2>2. IsInsert(ts, h, e, q, m, v)
    BY <1>1, <2>1, InsertIs DEF InsertRead
  <2> QED BY <1>1, <2>1, <2>2, MeansInsert
<1>3. CASE \E m, q \in Nat : SelectRead(ts, h, c, "end", m, q)
                               /\ stmt = SelectSoFar(ts, h, c, "end", m, q)
  <2>1. PICK m \in Nat, q \in Nat :
          SelectRead(ts, h, c, "end", m, q) /\ stmt = SelectSoFar(ts, h, c, "end", m, q)
    BY <1>3
  <2>2. IsSelect(ts, h, e, m, q)
    BY <1>1, <2>1, SelectIs DEF SelectRead
  <2>3. PICK where \in Nat : where = FromAt(h, m) + 2 * q
    BY FromIs, SMTT(20)
  <2>4. c = where \/ c = where + 4
    BY <2>1, <2>3 DEF SelectRead, SelectTo
  <2>5. stmt = SelectOf(ts, h, e, m, q)
    <3>1. Star(m, "end") = (m = 0)
      BY Zenon DEF Star
    <3>2. CASE c = where
      <4>1. c <= where + 1 /\ ~(e > where)
        BY <1>1, <3>2
      <4>2. WhereSoFar(ts, where, c) = NoWhere
        BY <4>1, WhereIs
      <4> QED BY <2>1, <2>3, <3>1, <4>1, <4>2, Zenon DEF SelectOf, SelectSoFar, NoWhere
    <3>3. CASE c = where + 4
      <4>1. WhereSoFar(ts, where, c) = WholeWhere(ts, where) /\ e > where
        BY <1>1, <3>3, WhereIs
      <4> QED BY <2>1, <2>3, <3>1, <4>1, Zenon DEF SelectOf, SelectSoFar, WholeWhere
    <3> QED BY <2>4, <3>2, <3>3
  <2> QED BY <1>1, <2>2, <2>5, MeansSelect
<1> QED BY <1>2, <1>3 DEF Builds



-----------------------------------------------------------------------------
(* What the elements of the parser do to what has been read.               *)

LEMMA BuildsIs ==
  ASSUME NEW ts, NEW h, NEW c, NEW r, NEW stmt, Builds(ts, h, c, r, stmt)
  PROVE  \/ \E q, m, v \in Nat : InsertRead(ts, h, c, r, q, m, v) /\ stmt = InsertOf(ts, h, q, m, v)
                                 /\ stmt.type = "INSERT"
         \/ \E m, q \in Nat : SelectRead(ts, h, c, r, m, q) /\ stmt = SelectSoFar(ts, h, c, r, m, q)
                              /\ stmt.type # "INSERT"
<1>1. \A q, m, v : InsertOf(ts, h, q, m, v).type = "INSERT"
  BY DEF InsertOf
<1>2. \A m, q : SelectSoFar(ts, h, c, r, m, q).type # "INSERT"
  <2> SUFFICES ASSUME NEW m, NEW q PROVE SelectSoFar(ts, h, c, r, m, q).type # "INSERT"
    OBVIOUS
  <2>1. PICK a, b, d, e : SelectSoFar(ts, h, c, r, m, q) = [type |-> "SELECT", table |-> a,
                            selectAll |-> b, columns |-> d, where |-> e]
    BY Zenon DEF SelectSoFar
  <2> QED BY <2>1
<1> QED BY <1>1, <1>2, Zenon DEF Builds

LEMMA BuildsRead ==
  ASSUME NEW ts, NEW h, NEW c, NEW r, NEW stmt, Builds(ts, h, c, r, stmt)
  PROVE  HasRead(ts, h, c, r)
  BY Zenon DEF Builds, HasRead

LEMMA BuildsConsumed ==
  ASSUME NEW ts, NEW h \in Nat, NEW c \in Nat, NEW r, NEW stmt, Builds(ts, h, c, r, stmt),
         r \in DOMAIN After, ts[c].type \in Accepts[r]
  PROVE  Builds(ts, h, c + 1, After[r], stmt)
<1>1. ASSUME NEW q \in Nat, NEW m \in Nat, NEW v \in Nat,
             InsertRead(ts, h, c, r, q, m, v), stmt = InsertOf(ts, h, q, m, v)
      PROVE  Builds(ts, h, c + 1, After[r], stmt)
  <2>1. InsertRead(ts, h, c + 1, After[r], q, m, v)
    BY <1>1, InsertConsumes
  <2> QED BY <1>1, <2>1, Zenon DEF Builds
<1>2. ASSUME NEW m \in Nat, NEW q \in Nat,
             SelectRead(ts, h, c, r, m, q), stmt = SelectSoFar(ts, h, c, r, m, q)
      PROVE  Builds(ts, h, c + 1, After[r], stmt)
  <2>1. /\ SelectRead(ts, h, c + 1, After[r], m, q)
        /\ SelectSoFar(ts, h, c + 1, After[r], m, q) = SelectSoFar(ts, h, c, r, m, q)
    BY <1>2, SelectConsumes
  <2> QED BY <1>2, <2>1, Zenon DEF Builds
<1> QED BY <1>1, <1>2, Zenon DEF Builds

LEMMA BuildsTable ==
  ASSUME NEW ts, NEW h \in Nat, NEW c \in Nat, NEW stmt, Builds(ts, h, c, "table", stmt),
         ts[c].type \in Names
  PROVE  LET next == [stmt EXCEPT !.table = <<ts[c].lexeme>>]
         IN  IF ts[c + 1].type = "." THEN Builds(ts, h, c + 2, "qualified", next)
             ELSE Builds(ts, h, c + 1, IF stmt.type = "INSERT" THEN "openColumns" ELSE "where", next)
<1>1. ASSUME NEW q \in Nat, NEW m \in Nat, NEW v \in Nat, stmt.type = "INSERT",
             InsertRead(ts, h, c, "table", q, m, v), stmt = InsertOf(ts, h, q, m, v)
      PROVE  LET next == [stmt EXCEPT !.table = <<ts[c].lexeme>>]
             IN  IF ts[c + 1].type = "." THEN Builds(ts, h, c + 2, "qualified", next)
                 ELSE Builds(ts, h, c + 1, "openColumns", next)
  BY <1>1, InsertTableRead
<1>2. ASSUME NEW m \in Nat, NEW q \in Nat, stmt.type # "INSERT",
             SelectRead(ts, h, c, "table", m, q), stmt = SelectSoFar(ts, h, c, "table", m, q)
      PROVE  LET next == [stmt EXCEPT !.table = <<ts[c].lexeme>>]
             IN  IF ts[c + 1].type = "." THEN Builds(ts, h, c + 2, "qualified", next)
                 ELSE Builds(ts, h, c + 1, "where", next)
  BY <1>2, SelectTableRead
<1>3. CASE stmt.type = "INSERT"
  <2>1. PICK q \in Nat, m \in Nat, v \in Nat :
          InsertRead(ts, h, c, "table", q, m, v) /\ stmt = InsertOf(ts, h, q, m, v)
    BY <1>3, BuildsIs
  <2> QED BY <1>1, <1>3, <2>1, Zenon
<1>4. CASE stmt.type # "INSERT"
  <2>1. PICK m \in Nat, q \in Nat :
          SelectRead(ts, h, c, "table", m, q) /\ stmt = SelectSoFar(ts, h, c, "table", m, q)
    BY <1>4, BuildsIs
  <2> QED BY <1>2, <1>4, <2>1, Zenon
<1> QED BY <1>3, <1>4

LEMMA BuildsQualified ==
  ASSUME NEW ts, NEW h \in Nat, NEW c \in Nat, NEW stmt, Builds(ts, h, c, "qualified", stmt),
         ts[c].type \in Names
  PROVE  Builds(ts, h, c + 1, IF stmt.type = "INSERT" THEN "openColumns" ELSE "where",
                [stmt EXCEPT !.table = Append(@, ts[c].lexeme)])
<1>1. ASSUME NEW q \in Nat, NEW m \in Nat, NEW v \in Nat, stmt.type = "INSERT",
             InsertRead(ts, h, c, "qualified", q, m, v), stmt = InsertOf(ts, h, q, m, v)
      PROVE  Builds(ts, h, c + 1, "openColumns", [stmt EXCEPT !.table = Append(@, ts[c].lexeme)])
  BY <1>1, InsertQualified
<1>2. ASSUME NEW m \in Nat, NEW q \in Nat, stmt.type # "INSERT",
             SelectRead(ts, h, c, "qualified", m, q), stmt = SelectSoFar(ts, h, c, "qualified", m, q)
      PROVE  Builds(ts, h, c + 1, "where", [stmt EXCEPT !.table = Append(@, ts[c].lexeme)])
  BY <1>2, SelectQualified
<1>3. CASE stmt.type = "INSERT"
  <2>1. PICK q \in Nat, m \in Nat, v \in Nat :
          InsertRead(ts, h, c, "qualified", q, m, v) /\ stmt = InsertOf(ts, h, q, m, v)
    BY <1>3, BuildsIs
  <2> QED BY <1>1, <1>3, <2>1, Zenon
<1>4. CASE stmt.type # "INSERT"
  <2>1. PICK m \in Nat, q \in Nat :
          SelectRead(ts, h, c, "qualified", m, q) /\ stmt = SelectSoFar(ts, h, c, "qualified", m, q)
    BY <1>4, BuildsIs
  <2> QED BY <1>2, <1>4, <2>1, Zenon
<1> QED BY <1>3, <1>4

LEMMA OnlyInsert ==
  ASSUME NEW ts, NEW h, NEW c, NEW r \in {"literals", "openColumns"}, NEW stmt, Builds(ts, h, c, r, stmt)
  PROVE  \E q, m, v \in Nat : InsertRead(ts, h, c, r, q, m, v) /\ stmt = InsertOf(ts, h, q, m, v)
<1>1. \A m, q : ~SelectRead(ts, h, c, r, m, q)
  BY DEF SelectRead, SelectTo
<1> QED BY <1>1, Zenon DEF Builds

LEMMA OnlySelect ==
  ASSUME NEW ts, NEW h, NEW c, NEW r \in {"selection", "where", "whereColumn", "whereValue"},
         NEW stmt, Builds(ts, h, c, r, stmt)
  PROVE  \E m, q \in Nat : SelectRead(ts, h, c, r, m, q) /\ stmt = SelectSoFar(ts, h, c, r, m, q)
<1>1. \A q, m, v : ~InsertRead(ts, h, c, r, q, m, v)
  BY DEF InsertRead, InsertTo
<1> QED BY <1>1, Zenon DEF Builds

LEMMA BuildsColumn ==
  ASSUME NEW ts, NEW h \in Nat, NEW c \in Nat, NEW r \in {"selection", "columns"}, NEW stmt,
         Builds(ts, h, c, r, stmt), ts[c].type \in Names
  PROVE  LET next == [stmt EXCEPT !.columns = Append(@, ts[c].lexeme)]
         IN  IF ts[c + 1].type = Separator THEN Builds(ts, h, c + 2, "columns", next)
             ELSE Builds(ts, h, c + 1, IF stmt.type = "INSERT" THEN "closeColumns" ELSE "from", next)
<1>1. ASSUME NEW q \in Nat, NEW m \in Nat, NEW v \in Nat, stmt.type = "INSERT",
             InsertRead(ts, h, c, r, q, m, v), stmt = InsertOf(ts, h, q, m, v)
      PROVE  LET next == [stmt EXCEPT !.columns = Append(@, ts[c].lexeme)]
             IN  IF ts[c + 1].type = Separator THEN Builds(ts, h, c + 2, "columns", next)
                 ELSE Builds(ts, h, c + 1, "closeColumns", next)
  <2>1. r = "columns"
    BY <1>1 DEF InsertRead, InsertTo
  <2>2. InsertRead(ts, h, c, "columns", q, m, v)
    BY <1>1, <2>1
  <2> QED BY <1>1, <2>2, InsertColumn
<1>2. ASSUME NEW m \in Nat, NEW q \in Nat, stmt.type # "INSERT",
             SelectRead(ts, h, c, r, m, q), stmt = SelectSoFar(ts, h, c, r, m, q)
      PROVE  LET next == [stmt EXCEPT !.columns = Append(@, ts[c].lexeme)]
             IN  IF ts[c + 1].type = Separator THEN Builds(ts, h, c + 2, "columns", next)
                 ELSE Builds(ts, h, c + 1, "from", next)
  BY <1>2, SelectColumn
<1>3. CASE stmt.type = "INSERT"
  <2>1. PICK q \in Nat, m \in Nat, v \in Nat :
          InsertRead(ts, h, c, r, q, m, v) /\ stmt = InsertOf(ts, h, q, m, v)
    BY <1>3, BuildsIs
  <2> QED BY <1>1, <1>3, <2>1, Zenon
<1>4. CASE stmt.type # "INSERT"
  <2>1. PICK m \in Nat, q \in Nat :
          SelectRead(ts, h, c, r, m, q) /\ stmt = SelectSoFar(ts, h, c, r, m, q)
    BY <1>4, BuildsIs
  <2> QED BY <1>2, <1>4, <2>1, Zenon
<1> QED BY <1>3, <1>4

LEMMA BuildsValue ==
  ASSUME NEW ts, NEW h \in Nat, NEW c \in Nat, NEW stmt, Builds(ts, h, c, "literals", stmt),
         ts[c].type \in Literals
  PROVE  LET next == [stmt EXCEPT !.values = Append(@, ts[c].lexeme)]
         IN  IF ts[c + 1].type = Separator THEN Builds(ts, h, c + 2, "literals", next)
             ELSE Builds(ts, h, c + 1, "closeValues", next)
<1>1. PICK q \in Nat, m \in Nat, v \in Nat :
        InsertRead(ts, h, c, "literals", q, m, v) /\ stmt = InsertOf(ts, h, q, m, v)
  BY OnlyInsert
<1> QED BY <1>1, InsertValue

LEMMA BuildsSelection ==
  ASSUME NEW ts, NEW h \in Nat, NEW c \in Nat, NEW r, NEW stmt, Builds(ts, h, c, r, stmt)
  PROVE  /\ r = "selection" /\ ts[c].type = "*"
              => Builds(ts, h, c + 1, "from", [stmt EXCEPT !.selectAll = TRUE])
         /\ r = "where"
              => IF ts[c].type = "WHERE" THEN Builds(ts, h, c + 1, "whereColumn", stmt)
                 ELSE Builds(ts, h, c, "end", stmt)
         /\ r = "whereColumn" /\ ts[c].type \in Names
              => Builds(ts, h, c + 1, "equal",
                        [stmt EXCEPT !.where.enabled = TRUE, !.where.column = ts[c].lexeme])
         /\ r = "whereValue" /\ ts[c].type \in Literals
              => Builds(ts, h, c + 1, "end", [stmt EXCEPT !.where.value = ts[c].lexeme])
<1>1. ASSUME r \in {"selection", "where", "whereColumn", "whereValue"}
      PROVE  \E m, q \in Nat : SelectRead(ts, h, c, r, m, q) /\ stmt = SelectSoFar(ts, h, c, r, m, q)
  BY <1>1, OnlySelect
<1>2. ASSUME r = "selection", ts[c].type = "*"
      PROVE  Builds(ts, h, c + 1, "from", [stmt EXCEPT !.selectAll = TRUE])
  <2>1. PICK m \in Nat, q \in Nat : SelectRead(ts, h, c, "selection", m, q)
                                    /\ stmt = SelectSoFar(ts, h, c, "selection", m, q)
    BY <1>1, <1>2
  <2> QED BY <1>2, <2>1, SelectAll, Zenon
<1>3. ASSUME r = "where"
      PROVE  IF ts[c].type = "WHERE" THEN Builds(ts, h, c + 1, "whereColumn", stmt)
             ELSE Builds(ts, h, c, "end", stmt)
  <2>1. PICK m \in Nat, q \in Nat : SelectRead(ts, h, c, "where", m, q)
                                    /\ stmt = SelectSoFar(ts, h, c, "where", m, q)
    BY <1>1, <1>3
  <2> QED BY <2>1, SelectWhere, Zenon
<1>4. ASSUME r = "whereColumn", ts[c].type \in Names
      PROVE  Builds(ts, h, c + 1, "equal",
                    [stmt EXCEPT !.where.enabled = TRUE, !.where.column = ts[c].lexeme])
  <2>1. PICK m \in Nat, q \in Nat : SelectRead(ts, h, c, "whereColumn", m, q)
                                    /\ stmt = SelectSoFar(ts, h, c, "whereColumn", m, q)
    BY <1>1, <1>4
  <2> QED BY <1>4, <2>1, SelectWhereColumn, Zenon
<1>5. ASSUME r = "whereValue", ts[c].type \in Literals
      PROVE  Builds(ts, h, c + 1, "end", [stmt EXCEPT !.where.value = ts[c].lexeme])
  <2>1. PICK m \in Nat, q \in Nat : SelectRead(ts, h, c, "whereValue", m, q)
                                    /\ stmt = SelectSoFar(ts, h, c, "whereValue", m, q)
    BY <1>1, <1>5
  <2> QED BY <1>5, <2>1, SelectWhereValue, Zenon
<1> QED BY <1>2, <1>3, <1>4, <1>5, Zenon



-----------------------------------------------------------------------------
(* The steps of the parser.                                                *)

\* Inside a statement no rule accepts what would end it.
LEMMA NoBoundaryAccepted ==
  /\ \A r \in DOMAIN Accepts \ {"statement"} : \A t \in Accepts[r] : t \notin Boundaries
  /\ "." \notin Boundaries /\ "WHERE" \notin Boundaries /\ Separator \notin Boundaries
<1>1. /\ "INTO" \notin Boundaries /\ "IDENTIFIER" \notin Boundaries /\ "(" \notin Boundaries
      /\ ")" \notin Boundaries /\ "VALUES" \notin Boundaries /\ "FROM" \notin Boundaries
      /\ "WHERE" \notin Boundaries /\ "=" \notin Boundaries /\ "*" \notin Boundaries
      /\ "." \notin Boundaries /\ "STRING" \notin Boundaries /\ "NUMBER" \notin Boundaries
  BY Zenon DEF Boundaries, Verbs
<1>2. Separator \notin Boundaries
  BY Zenon DEF Boundaries, Verbs, Separator
<1>3. ASSUME NEW r \in DOMAIN Accepts \ {"statement"}, NEW t \in Accepts[r] PROVE t \notin Boundaries
  <2>1. r \in {"table", "qualified", "columns", "into", "openColumns", "closeColumns",
               "values", "openValues", "literals", "closeValues", "selection", "from",
               "whereColumn", "equal", "whereValue"}
    BY <1>3, RulesOfParser DEF InsertRules, SelectRules
  <2>2. Accepts[r] \in {Names, {"INTO"}, {"("}, {")"}, {"VALUES"}, {"FROM"}, {"="},
                        {"*"} \cup Names, Literals}
    BY <2>1, AcceptsIs
  <2>3. t \in {"IDENTIFIER", "INTO", "(", ")", "VALUES", "FROM", "=", "*", "STRING", "NUMBER"}
    BY <1>3, <2>2 DEF Names, Literals
  <2> QED BY <1>1, <2>3
<1> QED BY <1>1, <1>2, <1>3

LEMMA InsideGoesOn ==
  ASSUME NEW ts, NEW h \in Nat, NEW c \in Nat, NEW d \in Nat, NEW r, NEW stmt, NEW list,
         Inside(ts, h, c, r, stmt, list), c <= d,
         \A x \in c .. d - 1 : ts[x].type \notin Boundaries,
         NEW s, NEW next, Builds(ts, h, d, s, next)
  PROVE  Inside(ts, h, d, s, next, list)
<1>1. Goes(ts, h, c - 1) /\ IsScript(ts, h - 1) /\ list = ScriptOf(ts, h - 1)
  BY Zenon DEF Inside
<1>2. Goes(ts, h, d - 1)
  <2>1. h \in 1 .. d - 1 /\ ts[h].type \in Verbs /\ h <= d - 1
    BY <1>1 DEF Goes
  <2>2. ASSUME NEW x \in h + 1 .. d - 1 PROVE ts[x].type \notin Boundaries
    <3>1. x \in h + 1 .. c - 1 \/ x \in c .. d - 1
      OBVIOUS
    <3> QED BY <1>1, <3>1 DEF Goes, Within
  <2> QED BY <2>1, <2>2 DEF Goes, Within
<1> QED BY <1>1, <1>2, Zenon DEF Inside

LEMMA ReadInside ==
  ASSUME ReadOK, phase = "parse", rule # "statement"
  PROVE  \E h \in Nat : Inside(tokens, h, current, rule, statement, script)
  BY DEF ReadOK

\* A step inside a statement, over tokens that do not end it.
LEMMA Proceeds ==
  ASSUME ParserInv, ReadOK, phase = "parse", rule # "statement", UNCHANGED tvars, UNCHANGED script,
         NEW n \in Nat, NEW next, next # "statement", Advance(n, next),
         \A x \in current .. current + n - 1 : tokens[x].type \notin Boundaries,
         \A h \in Nat : Builds(tokens, h, current, rule, statement)
                          => Builds(tokens, h, current + n, next, statement')
  PROVE  ReadOK'
<1>1. current \in Nat /\ current \in 1 .. Len(tokens)
  BY DEF ParserInv, CursorOK, TokenizerTypeOK
<1>2. PICK h \in Nat : Inside(tokens, h, current, rule, statement, script)
  BY ReadInside
<1>3. PICK d \in Nat : d = current + n
  BY <1>1
<1>4. Builds(tokens, h, d, next, statement')
  BY <1>2, <1>3, Zenon DEF Inside
<1>5. Inside(tokens, h, d, next, statement', script)
  <2>1. current <= d /\ \A x \in current .. d - 1 : tokens[x].type \notin Boundaries
    BY <1>1, <1>3
  <2>2. PICK stmt, to : stmt = statement /\ to = statement'
    OBVIOUS
  <2>3. Inside(tokens, h, current, rule, stmt, script) /\ Builds(tokens, h, d, next, to)
    BY <1>2, <1>4, <2>2
  <2>4. Inside(tokens, h, d, next, to, script)
    BY <1>1, <2>1, <2>3, InsideGoesOn
  <2> QED BY <2>2, <2>4
<1>6. current' = d /\ rule' = next /\ script' = script /\ tokens' = tokens
  BY <1>3 DEF Advance, tvars
<1>7. Inside(tokens, h, current, rule, statement, script)'
  BY <1>5, <1>6
<1> QED BY <1>6, <1>7, Zenon DEF ReadOK

LEMMA AtOneToken ==
  ASSUME ParserInv, NEW rules, rules \subseteq DOMAIN Accepts \ {"statement"}, Parsing(rules)
  PROVE  /\ phase = "parse" /\ rule # "statement" /\ rule \in rules /\ UNCHANGED tvars
         /\ current \in Nat /\ tokens[current].type \in Accepts[rule]
         /\ \A x \in current .. current + 1 - 1 : tokens[x].type \notin Boundaries
         /\ tokens[current + 1].type \notin Boundaries
              => \A x \in current .. current + 2 - 1 : tokens[x].type \notin Boundaries
<1>1. /\ phase = "parse" /\ rule \in rules /\ UNCHANGED tvars /\ current \in Nat
      /\ tokens[current].type \in Accepts[rule] /\ rule \in DOMAIN Accepts \ {"statement"}
  BY NotEnd DEF Parsing, Peek
<1>2. tokens[current].type \notin Boundaries
  BY <1>1, NoBoundaryAccepted
<1>3. /\ \A x \in current .. current + 1 - 1 : x = current
      /\ \A x \in current .. current + 2 - 1 : x = current \/ x = current + 1
  BY <1>1
<1> QED BY <1>1, <1>2, <1>3

LEMMA ConsumeReads ==
  ASSUME ParserInv, ReadOK, Consume
  PROVE  ReadOK'
<1>1. Parsing(DOMAIN After) /\ Advance(1, After[rule]) /\ UNCHANGED <<statement, script>>
  BY DEF Consume
<1>2. DOMAIN After \subseteq DOMAIN Accepts \ {"statement"}
  BY DEF After, Accepts
<1>3. /\ phase = "parse" /\ rule # "statement" /\ rule \in DOMAIN After /\ UNCHANGED tvars
      /\ current \in Nat /\ tokens[current].type \in Accepts[rule]
      /\ \A x \in current .. current + 1 - 1 : tokens[x].type \notin Boundaries
  BY <1>1, <1>2, AtOneToken
<1>4. PICK next : next = After[rule]
  OBVIOUS
<1>5. next # "statement"
  BY <1>3, <1>4 DEF After
<1>6. \A h \in Nat : Builds(tokens, h, current, rule, statement)
                       => Builds(tokens, h, current + 1, next, statement')
  <2> SUFFICES ASSUME NEW h \in Nat, Builds(tokens, h, current, rule, statement)
               PROVE  Builds(tokens, h, current + 1, next, statement)
    BY <1>1
  <2> QED BY <1>3, <1>4, BuildsConsumed
<1>7. Advance(1, next) /\ UNCHANGED script
  BY <1>1, <1>4
<1> QED BY <1>3, <1>5, <1>6, <1>7, Proceeds

LEMMA TableNameReads ==
  ASSUME ParserInv, ReadOK, TableName
  PROVE  ReadOK'
<1>1. /\ Parsing({"table"}) /\ UNCHANGED script
      /\ statement' = [statement EXCEPT !.table = <<tokens[current].lexeme>>]
      /\ IF tokens[current + 1].type = "." THEN Advance(2, "qualified") ELSE Advance(1, AfterTable)
  BY DEF TableName, Peek
<1>2. {"table"} \subseteq DOMAIN Accepts \ {"statement"}
  BY DEF Accepts
<1>3. /\ phase = "parse" /\ rule # "statement" /\ rule \in {"table"} /\ UNCHANGED tvars
      /\ current \in Nat /\ tokens[current].type \in Accepts[rule]
      /\ \A x \in current .. current + 1 - 1 : tokens[x].type \notin Boundaries
      /\ tokens[current + 1].type \notin Boundaries
              => \A x \in current .. current + 2 - 1 : tokens[x].type \notin Boundaries
  BY <1>1, <1>2, AtOneToken
<1>4. rule = "table" /\ tokens[current].type \in Names
  BY <1>3, AcceptsIs
<1>5. \A h \in Nat : Builds(tokens, h, current, rule, statement)
        => IF tokens[current + 1].type = "." THEN Builds(tokens, h, current + 2, "qualified", statement')
           ELSE Builds(tokens, h, current + 1, AfterTable, statement')
  <2> SUFFICES ASSUME NEW h \in Nat, Builds(tokens, h, current, "table", statement)
               PROVE  IF tokens[current + 1].type = "."
                      THEN Builds(tokens, h, current + 2, "qualified", statement')
                      ELSE Builds(tokens, h, current + 1, AfterTable, statement')
    BY <1>4
  <2>1. PICK stmt : stmt = statement
    OBVIOUS
  <2>2. Builds(tokens, h, current, "table", stmt)
    BY <2>1
  <2>3. LET next == [stmt EXCEPT !.table = <<tokens[current].lexeme>>]
        IN  IF tokens[current + 1].type = "." THEN Builds(tokens, h, current + 2, "qualified", next)
            ELSE Builds(tokens, h, current + 1,
                        IF stmt.type = "INSERT" THEN "openColumns" ELSE "where", next)
    BY <1>3, <1>4, <2>2, BuildsTable
  <2> QED BY <1>1, <2>1, <2>3, Zenon DEF AfterTable
<1>6. CASE tokens[current + 1].type = "."
  <2>1. PICK n \in Nat : n = 2
    OBVIOUS
  <2>2. \A x \in current .. current + n - 1 : tokens[x].type \notin Boundaries
    BY <1>3, <1>6, <2>1, NoBoundaryAccepted
  <2>3. \A h \in Nat : Builds(tokens, h, current, rule, statement)
                         => Builds(tokens, h, current + n, "qualified", statement')
    BY <1>5, <1>6, <2>1
  <2>4. Advance(n, "qualified")
    BY <1>1, <1>6, <2>1
  <2> QED BY <1>1, <1>3, <2>2, <2>3, <2>4, Proceeds
<1>7. CASE tokens[current + 1].type # "."
  <2>1. PICK next : next = AfterTable /\ next # "statement"
    BY DEF AfterTable
  <2>2. \A h \in Nat : Builds(tokens, h, current, rule, statement)
                         => Builds(tokens, h, current + 1, next, statement')
    BY <1>5, <1>7, <2>1
  <2>3. Advance(1, next)
    BY <1>1, <1>7, <2>1
  <2> QED BY <1>1, <1>3, <2>1, <2>2, <2>3, Proceeds
<1> QED BY <1>6, <1>7


LEMMA QualifiedNameReads ==
  ASSUME ParserInv, ReadOK, QualifiedName
  PROVE  ReadOK'
<1>1. /\ Parsing({"qualified"}) /\ UNCHANGED script
      /\ statement' = [statement EXCEPT !.table = Append(@, tokens[current].lexeme)]
      /\ Advance(1, AfterTable)
  BY DEF QualifiedName, Peek
<1>2. {"qualified"} \subseteq DOMAIN Accepts \ {"statement"}
  BY DEF Accepts
<1>3. /\ phase = "parse" /\ rule # "statement" /\ rule \in {"qualified"} /\ UNCHANGED tvars
      /\ current \in Nat /\ tokens[current].type \in Accepts[rule]
      /\ \A x \in current .. current + 1 - 1 : tokens[x].type \notin Boundaries
  BY <1>1, <1>2, AtOneToken
<1>4. rule = "qualified" /\ tokens[current].type \in Names
  BY <1>3, AcceptsIs
<1>5. PICK next : next = AfterTable /\ next # "statement"
  BY DEF AfterTable
<1>6. \A h \in Nat : Builds(tokens, h, current, rule, statement)
                       => Builds(tokens, h, current + 1, next, statement')
  <2> SUFFICES ASSUME NEW h \in Nat, Builds(tokens, h, current, "qualified", statement)
               PROVE  Builds(tokens, h, current + 1, AfterTable, statement')
    BY <1>4, <1>5
  <2>1. PICK stmt : stmt = statement
    OBVIOUS
  <2>2. Builds(tokens, h, current, "qualified", stmt)
    BY <2>1
  <2>3. Builds(tokens, h, current + 1, IF stmt.type = "INSERT" THEN "openColumns" ELSE "where",
               [stmt EXCEPT !.table = Append(@, tokens[current].lexeme)])
    BY <1>3, <1>4, <2>2, BuildsQualified
  <2> QED BY <1>1, <2>1, <2>3, Zenon DEF AfterTable
<1>7. Advance(1, next)
  BY <1>1, <1>5
<1> QED BY <1>1, <1>3, <1>5, <1>6, <1>7, Proceeds

LEMMA NextItemIs ==
  \A next : NextItem(next)
    => IF tokens[current + 1].type = Separator
       THEN Advance(2, IF rule = "selection" THEN "columns" ELSE rule)
       ELSE Advance(1, next)
  BY Zenon DEF NextItem, Comma, Separator

\* An item of a list, with the comma behind it.
LEMMA ItemReads ==
  ASSUME ParserInv, ReadOK, NEW rules, rules \subseteq DOMAIN Accepts \ {"statement"}, Parsing(rules),
         UNCHANGED script, NEW again, again # "statement", NEW next, next # "statement",
         IF tokens[current + 1].type = Separator THEN Advance(2, again) ELSE Advance(1, next),
         \A h \in Nat : Builds(tokens, h, current, rule, statement)
           => IF tokens[current + 1].type = Separator
              THEN Builds(tokens, h, current + 2, again, statement')
              ELSE Builds(tokens, h, current + 1, next, statement')
  PROVE  ReadOK'
<1>1. /\ phase = "parse" /\ rule # "statement" /\ UNCHANGED tvars /\ current \in Nat
      /\ \A x \in current .. current + 1 - 1 : tokens[x].type \notin Boundaries
      /\ tokens[current + 1].type \notin Boundaries
              => \A x \in current .. current + 2 - 1 : tokens[x].type \notin Boundaries
  BY AtOneToken
<1>2. CASE tokens[current + 1].type = Separator
  <2>1. PICK n \in Nat : n = 2
    OBVIOUS
  <2>2. \A x \in current .. current + n - 1 : tokens[x].type \notin Boundaries
    BY <1>1, <1>2, <2>1, NoBoundaryAccepted
  <2>3. \A h \in Nat : Builds(tokens, h, current, rule, statement)
                         => Builds(tokens, h, current + n, again, statement')
    BY <1>2, <2>1
  <2>4. Advance(n, again)
    BY <1>2, <2>1
  <2> QED BY <1>1, <2>2, <2>3, <2>4, Proceeds
<1>3. CASE tokens[current + 1].type # Separator
  <2>1. \A h \in Nat : Builds(tokens, h, current, rule, statement)
                         => Builds(tokens, h, current + 1, next, statement')
    BY <1>3
  <2>2. Advance(1, next)
    BY <1>3
  <2> QED BY <1>1, <2>1, <2>2, Proceeds
<1> QED BY <1>2, <1>3

LEMMA ColumnNameReads ==
  ASSUME ParserInv, ReadOK, ColumnName
  PROVE  ReadOK'
<1>1. /\ Parsing({"selection", "columns"}) /\ UNCHANGED script /\ tokens[current].type \in Names
      /\ statement' = [statement EXCEPT !.columns = Append(@, tokens[current].lexeme)]
      /\ NextItem(AfterColumns)
  BY DEF ColumnName, Peek, Names
<1>2. {"selection", "columns"} \subseteq DOMAIN Accepts \ {"statement"}
  BY DEF Accepts
<1>3. current \in Nat /\ rule \in {"selection", "columns"}
  BY <1>1, <1>2, AtOneToken
<1>4. PICK next : next = AfterColumns /\ next # "statement"
  BY DEF AfterColumns
<1>5. (IF rule = "selection" THEN "columns" ELSE rule) = "columns"
  BY <1>3
<1>6. IF tokens[current + 1].type = Separator THEN Advance(2, "columns") ELSE Advance(1, next)
  BY <1>1, <1>4, <1>5, NextItemIs, Zenon
<1>7. \A h \in Nat : Builds(tokens, h, current, rule, statement)
        => IF tokens[current + 1].type = Separator
           THEN Builds(tokens, h, current + 2, "columns", statement')
           ELSE Builds(tokens, h, current + 1, next, statement')
  <2> SUFFICES ASSUME NEW h \in Nat, Builds(tokens, h, current, rule, statement)
               PROVE  IF tokens[current + 1].type = Separator
                      THEN Builds(tokens, h, current + 2, "columns", statement')
                      ELSE Builds(tokens, h, current + 1, next, statement')
    OBVIOUS
  <2>1. PICK stmt : stmt = statement
    OBVIOUS
  <2>2. Builds(tokens, h, current, rule, stmt)
    BY <2>1
  <2>3. LET to == [stmt EXCEPT !.columns = Append(@, tokens[current].lexeme)]
        IN  IF tokens[current + 1].type = Separator THEN Builds(tokens, h, current + 2, "columns", to)
            ELSE Builds(tokens, h, current + 1,
                        IF stmt.type = "INSERT" THEN "closeColumns" ELSE "from", to)
    BY <1>1, <1>3, <2>2, BuildsColumn
  <2> QED BY <1>1, <1>4, <2>1, <2>3, Zenon DEF AfterColumns
<1> QED BY <1>1, <1>2, <1>4, <1>6, <1>7, ItemReads

LEMMA ValueReads ==
  ASSUME ParserInv, ReadOK, Value
  PROVE  ReadOK'
<1>1. /\ Parsing({"literals"}) /\ UNCHANGED script
      /\ statement' = [statement EXCEPT !.values = Append(@, tokens[current].lexeme)]
      /\ NextItem("closeValues")
  BY DEF Value, Peek
<1>2. {"literals"} \subseteq DOMAIN Accepts \ {"statement"}
  BY DEF Accepts
<1>3. current \in Nat /\ rule = "literals" /\ tokens[current].type \in Literals
  <2>1. current \in Nat /\ rule \in {"literals"} /\ tokens[current].type \in Accepts[rule]
    BY <1>1, <1>2, AtOneToken
  <2> QED BY <2>1, AcceptsIs
<1>4. (IF rule = "selection" THEN "columns" ELSE rule) = "literals"
  BY <1>3
<1>5. IF tokens[current + 1].type = Separator THEN Advance(2, "literals") ELSE Advance(1, "closeValues")
  BY <1>1, <1>4, NextItemIs, Zenon
<1>6. \A h \in Nat : Builds(tokens, h, current, rule, statement)
        => IF tokens[current + 1].type = Separator
           THEN Builds(tokens, h, current + 2, "literals", statement')
           ELSE Builds(tokens, h, current + 1, "closeValues", statement')
  <2> SUFFICES ASSUME NEW h \in Nat, Builds(tokens, h, current, "literals", statement)
               PROVE  IF tokens[current + 1].type = Separator
                      THEN Builds(tokens, h, current + 2, "literals", statement')
                      ELSE Builds(tokens, h, current + 1, "closeValues", statement')
    BY <1>3
  <2>1. PICK stmt : stmt = statement
    OBVIOUS
  <2>2. Builds(tokens, h, current, "literals", stmt)
    BY <2>1
  <2>3. LET to == [stmt EXCEPT !.values = Append(@, tokens[current].lexeme)]
        IN  IF tokens[current + 1].type = Separator THEN Builds(tokens, h, current + 2, "literals", to)
            ELSE Builds(tokens, h, current + 1, "closeValues", to)
    BY <1>3, <2>2, BuildsValue
  <2> QED BY <1>1, <2>1, <2>3, Zenon
<1>7. PICK again, next : /\ again = "literals" /\ next = "closeValues"
                         /\ again # "statement" /\ next # "statement"
  OBVIOUS
<1>8. /\ IF tokens[current + 1].type = Separator THEN Advance(2, again) ELSE Advance(1, next)
      /\ \A h \in Nat : Builds(tokens, h, current, rule, statement)
           => IF tokens[current + 1].type = Separator
              THEN Builds(tokens, h, current + 2, again, statement')
              ELSE Builds(tokens, h, current + 1, next, statement')
      /\ again # "statement" /\ next # "statement"
  BY <1>5, <1>6, <1>7
<1> QED BY <1>1, <1>2, <1>8, ItemReads

\* The elements of parse_select that are one token.
LEMMA SelectionReads ==
  ASSUME ParserInv, ReadOK, AllColumns \/ WhereColumn \/ WhereValue
  PROVE  ReadOK'
<1> DEFINE one == {"selection", "whereColumn", "whereValue"}
<1>1. one \subseteq DOMAIN Accepts \ {"statement"}
  BY DEF Accepts
<1>2. Parsing(one) /\ UNCHANGED script
  BY DEF AllColumns, WhereColumn, WhereValue, Parsing
<1> HIDE DEF one
<1>3. /\ phase = "parse" /\ rule # "statement" /\ UNCHANGED tvars
      /\ current \in Nat /\ tokens[current].type \in Accepts[rule]
      /\ \A x \in current .. current + 1 - 1 : tokens[x].type \notin Boundaries
  BY <1>1, <1>2, AtOneToken
<1>4. PICK stmt : stmt = statement
  OBVIOUS
<1>5. CASE AllColumns
  <2>1. /\ rule = "selection" /\ tokens[current].type = "*" /\ Advance(1, "from")
        /\ statement' = [stmt EXCEPT !.selectAll = TRUE]
    BY <1>4, <1>5, Zenon DEF AllColumns, Parsing, Peek
  <2>2. ASSUME NEW h \in Nat, Builds(tokens, h, current, rule, statement)
        PROVE  Builds(tokens, h, current + 1, "from", statement')
    <3>1. Builds(tokens, h, current, "selection", stmt) /\ tokens[current].type = "*"
      BY <1>4, <2>1, <2>2, Zenon
    <3>2. Builds(tokens, h, current + 1, "from", [stmt EXCEPT !.selectAll = TRUE])
      BY <1>3, <3>1, BuildsSelection, Zenon
    <3> QED BY <2>1, <3>2, Zenon
  <2> QED BY <1>2, <1>3, <2>1, <2>2, Proceeds
<1>6. CASE WhereColumn
  <2>1. /\ rule = "whereColumn" /\ Advance(1, "equal")
        /\ statement' = [stmt EXCEPT !.where.enabled = TRUE, !.where.column = tokens[current].lexeme]
    BY <1>4, <1>6, Zenon DEF WhereColumn, Parsing, Peek
  <2>2. tokens[current].type \in Names
    BY <1>3, <2>1, AcceptsIs
  <2>3. ASSUME NEW h \in Nat, Builds(tokens, h, current, rule, statement)
        PROVE  Builds(tokens, h, current + 1, "equal", statement')
    <3>1. Builds(tokens, h, current, "whereColumn", stmt)
      BY <1>4, <2>1, <2>3, Zenon
    <3>2. Builds(tokens, h, current + 1, "equal",
                 [stmt EXCEPT !.where.enabled = TRUE, !.where.column = tokens[current].lexeme])
      BY <1>3, <2>2, <3>1, BuildsSelection, Zenon
    <3> QED BY <2>1, <3>2, Zenon
  <2> QED BY <1>2, <1>3, <2>1, <2>3, Proceeds
<1>7. CASE WhereValue
  <2>1. /\ rule = "whereValue" /\ Advance(1, "end")
        /\ statement' = [stmt EXCEPT !.where.value = tokens[current].lexeme]
    BY <1>4, <1>7, Zenon DEF WhereValue, Parsing, Peek
  <2>2. tokens[current].type \in Literals
    BY <1>3, <2>1, AcceptsIs
  <2>3. ASSUME NEW h \in Nat, Builds(tokens, h, current, rule, statement)
        PROVE  Builds(tokens, h, current + 1, "end", statement')
    <3>1. Builds(tokens, h, current, "whereValue", stmt)
      BY <1>4, <2>1, <2>3, Zenon
    <3>2. Builds(tokens, h, current + 1, "end", [stmt EXCEPT !.where.value = tokens[current].lexeme])
      BY <1>3, <2>2, <3>1, BuildsSelection, Zenon
    <3> QED BY <2>1, <3>2, Zenon
  <2> QED BY <1>2, <1>3, <2>1, <2>3, Proceeds
<1> QED BY <1>5, <1>6, <1>7

LEMMA WhereReads ==
  ASSUME ParserInv, ReadOK, Where
  PROVE  ReadOK'
<1>1. /\ phase = "parse" /\ rule = "where" /\ UNCHANGED tvars /\ UNCHANGED script
      /\ statement' = statement
      /\ IF tokens[current].type = "WHERE" THEN Advance(1, "whereColumn") ELSE Advance(0, "end")
  BY DEF Where, Peek
<1>2. current \in Nat /\ rule # "statement"
  BY <1>1 DEF ParserInv, CursorOK, TokenizerTypeOK
<1>3. ASSUME NEW h \in Nat, Builds(tokens, h, current, rule, statement)
      PROVE  IF tokens[current].type = "WHERE" THEN Builds(tokens, h, current + 1, "whereColumn", statement')
             ELSE Builds(tokens, h, current, "end", statement')
  <2>1. PICK stmt : stmt = statement
    OBVIOUS
  <2>2. Builds(tokens, h, current, "where", stmt)
    BY <1>1, <1>3, <2>1, Zenon
  <2>3. IF tokens[current].type = "WHERE" THEN Builds(tokens, h, current + 1, "whereColumn", stmt)
        ELSE Builds(tokens, h, current, "end", stmt)
    BY <1>2, <2>2, BuildsSelection, Zenon
  <2> QED BY <1>1, <2>1, <2>3, Zenon
<1>4. CASE tokens[current].type = "WHERE"
  <2>1. \A x \in current .. current + 1 - 1 : tokens[x].type \notin Boundaries
    <3>1. \A x \in current .. current + 1 - 1 : x = current
      BY <1>2
    <3> QED BY <1>4, <3>1, NoBoundaryAccepted
  <2> QED BY <1>1, <1>2, <1>3, <1>4, <2>1, Proceeds
<1>5. CASE tokens[current].type # "WHERE"
  <2>1. PICK n \in Nat : n = 0
    OBVIOUS
  <2>2. \A x \in current .. current + n - 1 : tokens[x].type \notin Boundaries
    BY <1>2, <2>1
  <2>3. current + n = current
    BY <1>2, <2>1
  <2>4. Advance(n, "end")
    BY <1>1, <1>5, <2>1
  <2>5. \A h \in Nat : Builds(tokens, h, current, rule, statement)
                         => Builds(tokens, h, current + n, "end", statement')
    BY <1>3, <1>5, <2>3
  <2>6. UNCHANGED tvars /\ UNCHANGED script /\ phase = "parse" /\ rule # "statement"
    BY <1>1, <1>2
  <2> QED BY <2>2, <2>4, <2>5, <2>6, Proceeds
<1> QED BY <1>4, <1>5


-----------------------------------------------------------------------------
(* The steps of the parser between statements.                             *)

LEMMA BeginStatement ==
  ASSUME ParserInv, ReadOK, BeginInsert \/ BeginSelect
  PROVE  ReadOK'
<1>1. /\ phase = "parse" /\ rule = "statement" /\ tokens[current].type \in Verbs
      /\ UNCHANGED tvars /\ UNCHANGED script
  BY DEF BeginInsert, BeginSelect, Parsing, Peek, Verbs
<1>2. current \in Nat \ {0} /\ current - 1 \in Nat
  BY <1>1 DEF ParserInv, CursorOK, TokenizerTypeOK
<1>3. IsScript(tokens, current - 1) /\ script = ScriptOf(tokens, current - 1)
  BY <1>1, Zenon DEF ReadOK, Between
<1>4. PICK h \in Nat, c \in Nat : h = current /\ c = current + 1 /\ c - 1 = h
  BY <1>2
<1>5. Goes(tokens, h, c - 1)
  BY <1>1, <1>2, <1>4 DEF Goes, Within
<1>6. CASE BeginInsert
  <2>1. /\ current' = c /\ rule' = "into" /\ tokens[h].type = "INSERT"
        /\ statement' = [type |-> "INSERT", table |-> <<>>, columns |-> <<>>, values |-> <<>>]
    BY <1>4, <1>6 DEF BeginInsert, Advance, Peek
  <2>2. PICK q \in Nat : q = 0
    OBVIOUS
  <2>3. InsertTo(tokens, h, c, "into", q, q, q)
    BY <1>2, <1>4, <2>1, <2>2 DEF InsertTo
  <2>4. InsertRead(tokens, h, c, "into", q, q, q)
    BY <2>3 DEF InsertRead, InsertAhead
  <2>5. statement' = InsertOf(tokens, h, q, q, q)
    BY <2>1, <2>2, NoItems, Zenon DEF InsertOf
  <2>6. Builds(tokens, h, c, "into", statement')
    BY <2>4, <2>5, Zenon DEF Builds
  <2>7. Inside(tokens, h, c, "into", statement', script)
    BY <1>3, <1>4, <1>5, <2>6, Zenon DEF Inside
  <2>8. Inside(tokens, h, current, rule, statement, script)'
    BY <1>1, <2>1, <2>7 DEF tvars
  <2>9. rule' # "statement"
    BY <2>1
  <2> QED BY <2>8, <2>9, Zenon DEF ReadOK
<1>7. CASE BeginSelect
  <2>1. /\ current' = c /\ rule' = "selection" /\ tokens[h].type = "SELECT"
        /\ statement' = [type |-> "SELECT", table |-> <<>>, selectAll |-> FALSE,
                         columns |-> <<>>, where |-> NoWhere]
    BY <1>4, <1>7, Zenon DEF BeginSelect, Advance, Peek
  <2>2. PICK q \in Nat : q = 0
    OBVIOUS
  <2>3. SelectTo(tokens, h, c, "selection", q, q)
    BY <1>2, <1>4, <2>1, <2>2 DEF SelectTo
  <2>4. SelectRead(tokens, h, c, "selection", q, q)
    <3>1. PICK from \in Nat : from = FromAt(h, q)
      BY FromIs
    <3> QED BY <2>3, <3>1 DEF SelectRead, SelectAhead
  <2>5. WhereSoFar(tokens, FromAt(h, q) + 2 * q, c) = NoWhere
    BY <2>3, BeforeWhere
  <2>6. statement' = SelectSoFar(tokens, h, c, "selection", q, q)
    BY <2>1, <2>2, <2>5, NoItems, StarIs, Zenon DEF SelectSoFar
  <2>7. Builds(tokens, h, c, "selection", statement')
    BY <2>4, <2>6, Zenon DEF Builds
  <2>8. Inside(tokens, h, c, "selection", statement', script)
    BY <1>3, <1>4, <1>5, <2>7, Zenon DEF Inside
  <2>9. Inside(tokens, h, current, rule, statement, script)'
    BY <1>1, <2>1, <2>8 DEF tvars
  <2>10. rule' # "statement"
    BY <2>1
  <2> QED BY <2>9, <2>10, Zenon DEF ReadOK
<1> QED BY <1>6, <1>7

LEMMA SkipSemicolonReads ==
  ASSUME ParserInv, ReadOK, SkipSemicolon
  PROVE  ReadOK'
<1>1. /\ phase = "parse" /\ rule = "statement" /\ tokens[current].type = Semicolon
      /\ Advance(1, "statement") /\ UNCHANGED tvars /\ UNCHANGED script
  BY Zenon DEF SkipSemicolon, Parsing, Peek, Semicolon
<1>2. PICK n \in Nat : n = current - 1 /\ current = n + 1 /\ (current + 1) - 1 = current
  <2>1. current - 1 \in Nat /\ current = (current - 1) + 1 /\ (current + 1) - 1 = current
    BY <1>1 DEF ParserInv, CursorOK, TokenizerTypeOK
  <2> QED BY <2>1
<1>3. IsScript(tokens, n) /\ script = ScriptOf(tokens, n)
  BY <1>1, <1>2, Zenon DEF ReadOK, Between
<1>4. IsScript(tokens, n + 1) /\ ScriptOf(tokens, n + 1) = ScriptOf(tokens, n)
  BY <1>1, <1>2, <1>3, ScriptSemicolon
<1>5. Rested(tokens, current + 1)
  BY <1>1, <1>2 DEF Rested
<1>6. Between(tokens, current + 1, script)
  <2>1. IsScript(tokens, (current + 1) - 1) /\ script = ScriptOf(tokens, (current + 1) - 1)
    BY <1>2, <1>3, <1>4
  <2> QED BY <1>5, <2>1, Zenon DEF Between
<1>7. current' = current + 1 /\ rule' = "statement" /\ tokens' = tokens /\ script' = script
  BY <1>1 DEF Advance, tvars
<1>8. Between(tokens, current, script)'
  BY <1>6, <1>7
<1> QED BY <1>7, <1>8, Zenon DEF ReadOK

LEMMA EndStatementReads ==
  ASSUME ParserInv, ReadOK, EndStatement
  PROVE  ReadOK'
<1>1. /\ phase = "parse" /\ rule = "end" /\ script' = Append(script, statement) /\ UNCHANGED tvars
      /\ IF tokens[current].type = Semicolon THEN Advance(1, "statement") ELSE Advance(0, "statement")
  <2>1. /\ phase = "parse" /\ rule = "end" /\ script' = Append(script, statement) /\ UNCHANGED tvars
        /\ Advance(IF tokens[current].type = Semicolon THEN 1 ELSE 0, "statement")
    BY Zenon DEF EndStatement, Peek, Semicolon
  <2> QED BY <2>1
<1>2. PICK n : n \in Nat /\ n = current - 1 /\ current = n + 1 /\ (current + 1) - 1 = current
               /\ current \in Nat \ {0}
  <2>1. current - 1 \in Nat /\ current = (current - 1) + 1 /\ (current + 1) - 1 = current
        /\ current \in Nat \ {0}
    BY <1>1 DEF ParserInv, CursorOK, TokenizerTypeOK
  <2> QED BY <2>1
<1>3. PICK h \in Nat : Inside(tokens, h, current, rule, statement, script)
  <2>1. rule # "statement"
    BY <1>1
  <2> QED BY <1>1, <2>1, ReadInside
<1>4. /\ IsScript(tokens, h - 1) /\ script = ScriptOf(tokens, h - 1) /\ h \in Nat
      /\ Goes(tokens, h, n) /\ Builds(tokens, h, current, "end", statement)
  BY <1>1, <1>2, <1>3, Zenon DEF Inside
<1>5. PICK stmt : stmt = statement
  OBVIOUS
<1>6. StatementsAt(tokens, h, n) = {stmt}
  <2>1. Builds(tokens, h, current, "end", stmt)
    BY <1>4, <1>5
  <2>2. StatementsAt(tokens, h, current - 1) = {stmt}
    BY <1>2, <2>1, BuiltIs
  <2> QED BY <1>2, <2>2
<1>7. IsScript(tokens, n) /\ ScriptOf(tokens, n) = OneMore(ScriptOf(tokens, h - 1), stmt)
  <2>1. /\ h \in Nat /\ n \in Nat /\ Goes(tokens, h, n) /\ IsScript(tokens, h - 1)
        /\ StatementsAt(tokens, h, n) = {stmt}
    BY <1>2, <1>4, <1>6
  <2> QED BY <2>1, ScriptGrows
<1>8. script' = ScriptOf(tokens, n)
  BY <1>1, <1>4, <1>5, <1>7, Zenon DEF OneMore
<1>9. CASE tokens[current].type = Semicolon
  <2>1. IsScript(tokens, n + 1) /\ ScriptOf(tokens, n + 1) = ScriptOf(tokens, n)
    BY <1>2, <1>7, <1>9, ScriptSemicolon
  <2>2. Rested(tokens, current + 1)
    BY <1>2, <1>9 DEF Rested
  <2>3. Between(tokens, current + 1, script')
    <3>1. IsScript(tokens, (current + 1) - 1) /\ script' = ScriptOf(tokens, (current + 1) - 1)
      BY <1>2, <1>8, <2>1
    <3> QED BY <2>2, <3>1, Zenon DEF Between
  <2>4. current' = current + 1 /\ rule' = "statement" /\ tokens' = tokens
    BY <1>1, <1>9 DEF Advance, tvars
  <2>5. Between(tokens, current, script)'
    BY <2>3, <2>4
  <2> QED BY <2>4, <2>5, Zenon DEF ReadOK
<1>10. CASE tokens[current].type # Semicolon
  <2>1. HasRead(tokens, h, current, "end")
    BY <1>4, BuildsRead
  <2>2. Rested(tokens, current)
    BY <1>2, <1>4, <2>1, Zenon DEF Rested
  <2>3. Between(tokens, current, script')
    BY <1>2, <1>7, <1>8, <2>2, Zenon DEF Between
  <2>4. current' = current /\ rule' = "statement" /\ tokens' = tokens
    BY <1>1, <1>2, <1>10 DEF Advance, tvars
  <2>5. Between(tokens, current, script)'
    BY <2>3, <2>4
  <2> QED BY <2>4, <2>5, Zenon DEF ReadOK
<1> QED BY <1>9, <1>10


-----------------------------------------------------------------------------
(* The ends of the parser.                                                 *)

LEMMA StuckBegins ==
  ASSUME NEW T, NEW ts \in Seq(T), NEW c \in 1 .. Len(ts), Stuck(ts, c)
  PROVE  ~IsBeginning(ts, c)
<1> SUFFICES ASSUME NEW end \in Completions, IsScript(SubSeq(ts, 1, c) \o end, c + Len(end))
             PROVE  FALSE
  BY Zenon DEF IsBeginning
<1>1. PICK S : InsertExample \in Seq(S) /\ SelectExample \in Seq(S)
  <2>1. PICK S : S = {"INSERT", "INTO", "IDENTIFIER", "(", ")", "VALUES", "SELECT", "FROM", "WHERE", "="}
    OBVIOUS
  <2>2. InsertExample \in Seq(S) /\ SelectExample \in Seq(S)
    BY <2>1 DEF InsertExample, SelectExample
  <2> QED BY <2>2
<1>2. PICK e, i : /\ e \in {InsertExample, SelectExample} /\ i \in 1 .. Len(e) + 1
                  /\ end = Example(SubSeq(e, i, Len(e)))
  BY Zenon DEF Completions
<1>3. e \in Seq(S) /\ Len(e) \in Nat
  BY <1>1, <1>2
<1>4. PICK rest : rest = SubSeq(e, i, Len(e))
  OBVIOUS
<1>5. rest \in Seq(S)
  <2>1. Len(e) \in i - 1 .. Len(e)
    BY <1>2, <1>3
  <2> QED BY <1>2, <1>3, <1>4, <2>1, StretchIs
<1>6. PICK V : V = T \cup {[type |-> t, lexeme |-> <<>>] : t \in S}
  OBVIOUS
<1>7. PICK n \in Nat : n = Len(rest) /\ DOMAIN rest = 1 .. n /\ \A k \in 1 .. n : rest[k] \in S
  BY <1>5
<1>8. end \in Seq(V) /\ Len(end) = n
  <2>1. end = [k \in 1 .. n |-> [type |-> rest[k], lexeme |-> <<>>]]
    BY <1>2, <1>4, <1>7, Zenon DEF Example
  <2>2. \A k \in 1 .. n : end[k] \in V
    BY <1>6, <1>7, <2>1
  <2>3. end = [k \in 1 .. n |-> end[k]]
    BY <2>1
  <2> QED BY <2>2, <2>3, IsSequence
<1>9. PICK begin : begin = SubSeq(ts, 1, c)
  OBVIOUS
<1>10. begin \in Seq(T) /\ Len(begin) = c /\ \A k \in 1 .. c : begin[k] = ts[k]
  <2>1. 1 \in 1 .. Len(ts) + 1 /\ c \in 1 - 1 .. Len(ts) /\ c - 1 + 1 = c
        /\ \A k \in 1 .. c : 1 + k - 1 = k
    OBVIOUS
  <2>2. /\ begin \in Seq(T) /\ Len(begin) = c - 1 + 1
        /\ \A k \in 1 .. c - 1 + 1 : begin[k] = ts[1 + k - 1]
    BY <1>9, <2>1, StretchIs
  <2> QED BY <2>1, <2>2
<1>11. PICK us : us = begin \o end
  OBVIOUS
<1>12. \A k \in 1 .. c : ts[k] = us[k]
  <2>1. begin \in Seq(V)
    BY <1>6, <1>10
  <2>2. \A k \in 1 .. Len(begin) : us[k] = begin[k]
    BY <1>8, <1>11, <2>1, ConcatIs
  <2> QED BY <1>10, <2>2
<1>13. PICK m \in Nat : m = c + Len(end) /\ c <= m
  BY <1>8
<1>14. IsScript(us, m)
  BY <1>9, <1>11, <1>13, Zenon
<1> QED BY <1>12, <1>13, <1>14, Zenon DEF Stuck

\* The rules at which an element is missing inside a statement.
LEMMA RulesInside ==
  DOMAIN Accepts \ {"statement"} = DOMAIN InsertLeft \cup DOMAIN SelectLeft
  BY DEF Accepts, InsertLeft, SelectLeft

\* A token that the rule does not accept is the first one that cannot be right.
LEMMA FirstWrong ==
  ASSUME ParserInv, ReadOK, OneEnd, phase = "parse", rule \in DOMAIN Accepts,
         tokens[current].type \notin Accepts[rule]
  PROVE  /\ ~IsScript(tokens, Len(tokens) - 1)
         /\ IsBeginning(tokens, current - 1)
         /\ current <= Len(tokens) - 1 => Stuck(tokens, current)
<1>1. /\ tokens \in Seq(Token) /\ Len(tokens) \in Nat /\ current \in 1 .. Len(tokens)
      /\ tokens[Len(tokens)].type = "END" /\ current \in Nat \ {0}
  BY DEF ParserInv, CursorOK, TokenizerTypeOK
<1>2. PICK n \in Nat : n = Len(tokens) - 1 /\ current - 1 <= n
  <2>1. Len(tokens) - 1 \in Nat /\ current - 1 <= Len(tokens) - 1
    BY <1>1
  <2> QED BY <2>1
<1>3. CASE rule = "statement"
  <2>1. Between(tokens, current, script)
    BY <1>3, Zenon DEF ReadOK
  <2>2. IsScript(tokens, current - 1) /\ Rested(tokens, current)
    BY <2>1, Zenon DEF Between
  <2>3. tokens[current].type \notin Boundaries /\ tokens[current].type # "END"
    <3>1. Accepts["statement"] = {";", "INSERT", "SELECT", "END"}
      BY Zenon DEF Accepts
    <3> QED BY <1>3, <3>1, Zenon DEF Boundaries, Verbs
  <2>4. current <= n
    BY <1>1, <1>2, <2>3
  <2>5. IsBeginning(tokens, current - 1)
    BY <1>1, <2>2, BeginsBetween
  <2>6. Stuck(tokens, current)
    <3> SUFFICES ASSUME NEW us, NEW m \in Nat, current <= m, \A x \in 1 .. current : tokens[x] = us[x]
                 PROVE  ~IsScript(us, m)
      BY Zenon DEF Stuck
    <3> QED BY <1>1, <2>2, <2>3, StuckBetween
  <2>7. ~IsScript(tokens, n)
    BY <2>4, <2>6, Zenon DEF Stuck
  <2> QED BY <1>2, <2>5, <2>6, <2>7
<1>4. CASE rule # "statement"
  <2>1. PICK h \in Nat : Inside(tokens, h, current, rule, statement, script)
    BY <1>4, ReadInside
  <2>2. /\ IsScript(tokens, h - 1) /\ Goes(tokens, h, current - 1)
        /\ HasRead(tokens, h, current, rule)
    BY <2>1, BuildsRead, Zenon DEF Inside
  <2>3. rule \notin {"where", "end"} /\ rule \in DOMAIN InsertLeft \cup DOMAIN SelectLeft
    <3>1. rule \notin {"where", "end"}
      BY DEF Accepts
    <3> QED BY <1>4, <3>1, RulesInside
  <2>4. ASSUME NEW us, NEW m \in Nat, current - 1 <= m, \A x \in 1 .. current : tokens[x] = us[x]
        PROVE  ~IsScript(us, m)
    BY <1>1, <2>2, <2>3, <2>4, StuckInside
  <2>5. IsBeginning(tokens, current - 1)
    BY <1>1, <2>2, <2>3, BeginsInside
  <2>6. Stuck(tokens, current)
    <3> SUFFICES ASSUME NEW us, NEW m \in Nat, current <= m, \A x \in 1 .. current : tokens[x] = us[x]
                 PROVE  ~IsScript(us, m)
      BY Zenon DEF Stuck
    <3>1. current - 1 <= m
      BY <1>1
    <3> QED BY <2>4, <3>1
  <2>7. ~IsScript(tokens, n)
    BY <1>2, <2>4
  <2> QED BY <1>2, <2>5, <2>6, <2>7
<1> QED BY <1>3, <1>4


LEMMA SyntaxErrorReads ==
  ASSUME ParserInv, GrammarInv, SyntaxError
  PROVE  GrammarInv'
<1>1. /\ phase = "parse" /\ rule \in DOMAIN Accepts /\ tokens[current].type \notin Accepts[rule]
      /\ phase' = "failed" /\ script' = <<>> /\ tokens' = tokens
      /\ error' = <<tokens[current].line, tokens[current].column>>
  BY DEF SyntaxError, Peek
<1>2. ReadOK /\ OneEnd
  BY Zenon DEF GrammarInv
<1>3. /\ ~IsScript(tokens, Len(tokens) - 1)
      /\ IsBeginning(tokens, current - 1)
      /\ current <= Len(tokens) - 1 => Stuck(tokens, current)
  BY <1>1, <1>2, FirstWrong
<1>4. current \in DOMAIN tokens
  BY <1>1 DEF ParserInv, CursorOK, TokenizerTypeOK
<1>5. phase' # "tokenize" /\ phase' # "parse" /\ phase' # "done"
  BY <1>1
<1>6. ReadOK'
  BY <1>5, Zenon DEF ReadOK
<1>7. OneEnd'
  <2>1. phase # "tokenize"
    BY <1>1
  <2> QED BY <1>1, <1>2, <2>1, Zenon DEF OneEnd
<1>8. AcceptsTheGrammar'
  BY <1>1, <1>3, <1>5, Zenon DEF AcceptsTheGrammar, Written
<1>9. FirstErrorFinal'
  <2>1. \E bad \in DOMAIN tokens : /\ error' = <<tokens[bad].line, tokens[bad].column>>
                                   /\ IsBeginning(tokens, bad - 1)
                                   /\ bad <= Len(tokens) - 1 => Stuck(tokens, bad)
    BY <1>1, <1>3, <1>4, Zenon
  <2> QED BY <1>1, <2>1, Zenon DEF FirstErrorFinal, Written
<1> QED BY <1>5, <1>6, <1>7, <1>8, <1>9, Zenon DEF GrammarInv

LEMMA EndOfScriptReads ==
  ASSUME ParserInv, GrammarInv, EndOfScript
  PROVE  GrammarInv'
<1>1. /\ phase = "parse" /\ rule = "statement" /\ tokens[current].type = "END"
      /\ phase' = "done" /\ script' = script /\ tokens' = tokens
  BY DEF EndOfScript, Peek, parsing
<1>2. ReadOK /\ OneEnd
  BY Zenon DEF GrammarInv
<1>3. Between(tokens, current, script)
  BY <1>1, <1>2, Zenon DEF ReadOK
<1>4. current = Len(tokens)
  <2>1. current \in 1 .. Len(tokens) /\ Len(tokens) \in Nat
    BY <1>1 DEF ParserInv, CursorOK, TokenizerTypeOK
  <2>2. current \notin 1 .. Len(tokens) - 1
    <3>1. phase # "tokenize"
      BY <1>1
    <3> QED BY <1>1, <1>2, <3>1, Zenon DEF OneEnd
  <2> QED BY <2>1, <2>2
<1>5. IsScript(tokens, Len(tokens) - 1) /\ script = ScriptOf(tokens, Len(tokens) - 1)
  BY <1>3, <1>4, Zenon DEF Between
<1>6. phase' # "tokenize" /\ phase' # "parse" /\ phase' # "failed"
  BY <1>1
<1>7. ReadOK'
  BY <1>6, Zenon DEF ReadOK
<1>8. OneEnd'
  <2>1. phase # "tokenize"
    BY <1>1
  <2> QED BY <1>1, <1>2, <2>1, Zenon DEF OneEnd
<1>9. AcceptsTheGrammar'
  BY <1>1, <1>5, <1>6, Zenon DEF AcceptsTheGrammar, Written
<1>10. FirstErrorFinal'
  BY <1>6, Zenon DEF FirstErrorFinal
<1> QED BY <1>6, <1>7, <1>8, <1>9, <1>10, Zenon DEF GrammarInv

LEMMA ParseAgrees ==
  ASSUME ParserInv, GrammarInv, Parse
  PROVE  GrammarInv'
<1>1. ReadOK /\ OneEnd
  BY Zenon DEF GrammarInv
<1>2. ASSUME ReadOK', phase = "parse", UNCHANGED tvars
      PROVE  GrammarInv'
  <2>1. phase' = "parse" /\ tokens' = tokens
    BY <1>2 DEF tvars
  <2>2. phase # "tokenize" /\ phase' # "tokenize"
    BY <1>2, <2>1
  <2>3. OneEnd'
    BY <1>1, <2>1, <2>2, Zenon DEF OneEnd
  <2>4. AcceptsTheGrammar' /\ FirstErrorFinal'
    <3>1. phase' # "done" /\ phase' # "failed"
      BY <2>1
    <3> QED BY <3>1, Zenon DEF AcceptsTheGrammar, FirstErrorFinal
  <2> QED BY <1>2, <2>2, <2>3, <2>4, Zenon DEF GrammarInv
<1>3. CASE SkipSemicolon
  BY <1>1, <1>2, <1>3, SkipSemicolonReads DEF SkipSemicolon, Parsing
<1>4. CASE BeginInsert \/ BeginSelect
  BY <1>1, <1>2, <1>4, BeginStatement DEF BeginInsert, BeginSelect, Parsing
<1>5. CASE EndStatement
  BY <1>1, <1>2, <1>5, EndStatementReads DEF EndStatement
<1>6. CASE EndOfScript
  BY <1>6, EndOfScriptReads
<1>7. CASE SyntaxError
  BY <1>7, SyntaxErrorReads
<1>8. CASE Consume
  BY <1>1, <1>2, <1>8, ConsumeReads DEF Consume, Parsing
<1>9. CASE TableName
  BY <1>1, <1>2, <1>9, TableNameReads DEF TableName, Parsing
<1>10. CASE QualifiedName
  BY <1>1, <1>2, <1>10, QualifiedNameReads DEF QualifiedName, Parsing
<1>11. CASE ColumnName
  BY <1>1, <1>2, <1>11, ColumnNameReads DEF ColumnName, Parsing
<1>12. CASE Value
  BY <1>1, <1>2, <1>12, ValueReads DEF Value, Parsing
<1>13. CASE AllColumns \/ WhereColumn \/ WhereValue
  BY <1>1, <1>2, <1>13, SelectionReads DEF AllColumns, WhereColumn, WhereValue, Parsing
<1>14. CASE Where
  BY <1>1, <1>2, <1>14, WhereReads DEF Where
<1> QED BY <1>3, <1>4, <1>5, <1>6, <1>7, <1>8, <1>9, <1>10, <1>11, <1>12, <1>13, <1>14 DEF Parse


-----------------------------------------------------------------------------
(* The tokenizer, and the theorems.                                        *)

LEMMA NoScript ==
  ASSUME NEW ts
  PROVE  IsScript(ts, 0) /\ ScriptOf(ts, 0) = <<>>
<1>1. PICK n \in Nat : n = 0 /\ 1 .. n = {}
  OBVIOUS
<1>2. Heads(ts, n) = {}
  BY <1>1 DEF Heads
<1>3. IsScript(ts, n)
  BY <1>1, <1>2, ScriptIs
<1>4. PICK list : list = InOrder(Heads(ts, n), n)
  OBVIOUS
<1>5. list = <<>>
  <2>1. PICK S : S = Heads(ts, n)
    OBVIOUS
  <2>2. InOrder(S, 0) = <<>>
    BY InOrderNext
  <2> QED BY <1>1, <1>4, <2>1, <2>2
<1>6. ScriptOf(ts, n) = [k \in DOMAIN list |-> StatementFrom(ts, n, list[k])]
  BY <1>4, ScriptAt
<1>7. ScriptOf(ts, n) = <<>>
  BY <1>5, <1>6
<1> QED BY <1>1, <1>3, <1>7

LEMMA TokenizeAgrees ==
  ASSUME ParserInv, ReadInv, GrammarInv, Tokenize, UNCHANGED parsing
  PROVE  GrammarInv'
<1>1. /\ phase = "tokenize"
      /\ \/ phase' = "tokenize"
         \/ phase' = "failed" /\ tokens' = tokens
         \/ EndOfInput
  BY DEF Tokenize, SkipNewline, SkipBlank, LineComment, BlockComment, UnterminatedComment, Word,
         Number, StringLiteral, UnterminatedString, SymbolToken, UnexpectedCharacter, EndOfInput,
         Tokenizing, MoveTo, TokenizerFails
<1>2. /\ rule' = "statement" /\ script' = <<>> /\ current' = 1
      /\ \A k \in DOMAIN tokens : tokens[k].type # "END"
  BY <1>1 DEF GrammarInv, parsing, ParserInv, ReadInv, ReadSoFar
<1>3. tokens \in Seq(Token) /\ Len(tokens) \in Nat
  BY DEF ParserInv, TokenizerTypeOK
<1>4. CASE phase' = "tokenize"
  <2>1. phase' # "parse" /\ phase' # "done" /\ phase' # "failed"
    BY <1>4
  <2> QED BY <1>2, <1>4, <2>1, Zenon DEF GrammarInv, ReadOK, OneEnd, AcceptsTheGrammar, FirstErrorFinal
<1>5. CASE phase' = "failed" /\ tokens' = tokens
  <2>1. phase' # "parse" /\ phase' # "done" /\ phase' # "tokenize"
    BY <1>5
  <2>2. ~Tokenized'
    <3>1. tokens # <<>> => Last(tokens).type # "END"
      BY <1>2, <1>3 DEF Last
    <3> QED BY <1>5, <3>1, Zenon DEF Tokenized
  <2>3. OneEnd'
    <3>1. \A k \in 1 .. Len(tokens) - 1 : k \in DOMAIN tokens
      BY <1>3
    <3> QED BY <1>2, <1>5, <3>1, Zenon DEF OneEnd
  <2> QED BY <1>2, <2>1, <2>2, <2>3, Zenon DEF GrammarInv, ReadOK, AcceptsTheGrammar, FirstErrorFinal
<1>6. CASE EndOfInput
  <2>1. phase' = "parse" /\ phase' # "tokenize" /\ phase' # "done" /\ phase' # "failed"
    BY <1>6 DEF EndOfInput
  <2>2. \A k \in 1 .. Len(tokens') - 1 : tokens'[k].type # "END"
    <3>1. PICK x : tokens' = Append(tokens, x)
      BY <1>6, Zenon DEF EndOfInput, AddToken
    <3>2. \A k \in 1 .. Len(tokens') - 1 : k \in DOMAIN tokens /\ tokens'[k] = tokens[k]
      BY <1>3, <3>1
    <3> QED BY <1>2, <3>2
  <2>3. OneEnd'
    BY <2>1, <2>2, Zenon DEF OneEnd
  <2>4. PICK ts : ts = tokens'
    OBVIOUS
  <2>5. IsScript(ts, 1 - 1) /\ ScriptOf(ts, 1 - 1) = <<>> /\ Rested(ts, 1)
    <3>1. 1 - 1 = 0
      OBVIOUS
    <3> QED BY <3>1, NoScript DEF Rested
  <2>6. Between(ts, 1, <<>>)
    BY <2>5, Zenon DEF Between
  <2>7. Between(tokens, current, script)'
    BY <1>2, <2>4, <2>6, Zenon
  <2>8. ReadOK'
    BY <1>2, <2>7, Zenon DEF ReadOK
  <2> QED BY <1>2, <2>1, <2>3, <2>8, Zenon DEF GrammarInv, AcceptsTheGrammar, FirstErrorFinal
<1> QED BY <1>1, <1>4, <1>5, <1>6

LEMMA GrammarStarts == ParserInit => ParserInv /\ ReadInv /\ GrammarInv
<1> SUFFICES ASSUME ParserInit PROVE ParserInv /\ ReadInv /\ GrammarInv
  OBVIOUS
<1>1. ParserInv
  BY ParserStarts
<1>2. ReadInv
  BY ReadStarts
<1>3. phase = "tokenize" /\ rule = "statement" /\ script = <<>>
  BY DEF ParserInit, TokenizerInit
<1>4. phase # "parse" /\ phase # "done" /\ phase # "failed"
  BY <1>3
<1>5. GrammarInv
  BY <1>3, <1>4, Zenon DEF GrammarInv, ReadOK, OneEnd, AcceptsTheGrammar, FirstErrorFinal
<1> QED BY <1>1, <1>2, <1>5

LEMMA GrammarGoesOn ==
  ParserInv /\ ReadInv /\ GrammarInv /\ [ParserNext]_pvars => (ParserInv /\ ReadInv /\ GrammarInv)'
<1> SUFFICES ASSUME ParserInv, ReadInv, GrammarInv, [ParserNext]_pvars
             PROVE  (ParserInv /\ ReadInv /\ GrammarInv)'
  OBVIOUS
<1>1. ParserInv'
  BY ParserGoesOn
<1>2. ReadInv'
  BY ReadGoesOn
<1>3. CASE UNCHANGED pvars
  <2>1. UNCHANGED <<tokens, phase, error, current, rule, statement, script>>
    BY <1>3 DEF pvars, tvars, parsing
  <2>2. ReadOK' <=> ReadOK
    BY <2>1, Zenon DEF ReadOK
  <2>3. OneEnd' <=> OneEnd
    BY <2>1, Zenon DEF OneEnd
  <2>4. AcceptsTheGrammar' <=> AcceptsTheGrammar
    BY <2>1, Zenon DEF AcceptsTheGrammar, Written, Tokenized
  <2>5. FirstErrorFinal' <=> FirstErrorFinal
    BY <2>1, Zenon DEF FirstErrorFinal, Written, Tokenized
  <2> QED BY <1>1, <1>2, <2>1, <2>2, <2>3, <2>4, <2>5, Zenon DEF GrammarInv
<1>4. CASE ParserNext
  <2>1. CASE Tokenize /\ UNCHANGED parsing
    BY <1>1, <1>2, <2>1, TokenizeAgrees
  <2>2. CASE Parse
    BY <1>1, <1>2, <2>2, ParseAgrees
  <2> QED BY <1>4, <2>1, <2>2 DEF ParserNext
<1> QED BY <1>3, <1>4

\* The error that FirstErrorFinal finds is the one FirstErrorReported asks for.
LEMMA FinalIsReported == ParserInv /\ FirstErrorFinal => FirstErrorReported
<1> SUFFICES ASSUME ParserInv, FirstErrorFinal, phase = "failed", Tokenized
             PROVE  \E bad \in DOMAIN tokens : /\ error = <<tokens[bad].line, tokens[bad].column>>
                                               /\ IsBeginning(tokens, bad - 1)
                                               /\ bad <= Written => ~IsBeginning(tokens, bad)
  BY Zenon DEF FirstErrorReported
<1>1. PICK bad \in DOMAIN tokens : /\ error = <<tokens[bad].line, tokens[bad].column>>
                                   /\ IsBeginning(tokens, bad - 1)
                                   /\ bad <= Written => Stuck(tokens, bad)
  BY Zenon DEF FirstErrorFinal
<1>2. tokens \in Seq(Token)
  BY DEF ParserInv, TokenizerTypeOK
<1>3. bad \in 1 .. Len(tokens)
  BY <1>2
<1>4. Stuck(tokens, bad) => ~IsBeginning(tokens, bad)
  BY <1>2, <1>3, StuckBegins
<1> QED BY <1>1, <1>4, Zenon

\* parse_sql_script succeeds on the scripts of the grammar and on no others, with
\* the statements that the grammar finds in them, and returns nothing of a script
\* with an error: for texts of every length (parser.c:444-762).
THEOREM ParsesTheGrammar == ParserSpec => []AcceptsTheGrammar
<1>1. ParserInit => ParserInv /\ ReadInv /\ GrammarInv
  BY GrammarStarts
<1>2. ParserInv /\ ReadInv /\ GrammarInv /\ [ParserNext]_pvars => (ParserInv /\ ReadInv /\ GrammarInv)'
  BY GrammarGoesOn
<1>3. GrammarInv => AcceptsTheGrammar
  BY DEF GrammarInv
<1> QED BY <1>1, <1>2, <1>3, PTL DEF ParserSpec

\* Every error message of the parser points at a token that no legal script has
\* there, whatever follows, while what is before it begins a legal script: the
\* two completions that IsBeginning tries are as good as all others.
THEOREM NothingMendsIt == ParserSpec => []FirstErrorFinal
<1>1. ParserInit => ParserInv /\ ReadInv /\ GrammarInv
  BY GrammarStarts
<1>2. ParserInv /\ ReadInv /\ GrammarInv /\ [ParserNext]_pvars => (ParserInv /\ ReadInv /\ GrammarInv)'
  BY GrammarGoesOn
<1>3. GrammarInv => FirstErrorFinal
  BY DEF GrammarInv
<1> QED BY <1>1, <1>2, <1>3, PTL DEF ParserSpec

\* The token that an error message of the parser points at is the first one at
\* which the script can no longer become a legal one (consume, the lists, the
\* names and the literals of parse_insert and parse_select, and the choice of the
\* statement in parse_sql_script).
THEOREM PointsAtTheFirstError == ParserSpec => []FirstErrorReported
<1>1. ParserInit => ParserInv /\ ReadInv /\ GrammarInv
  BY GrammarStarts
<1>2. ParserInv /\ ReadInv /\ GrammarInv /\ [ParserNext]_pvars => (ParserInv /\ ReadInv /\ GrammarInv)'
  BY GrammarGoesOn
<1>3. ParserInv /\ GrammarInv => FirstErrorReported
  BY FinalIsReported DEF GrammarInv
<1> QED BY <1>1, <1>2, <1>3, PTL DEF ParserSpec
=============================================================================
