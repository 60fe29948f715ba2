------------------------------ MODULE Grammar ------------------------------
(***************************************************************************)
(* The SQL that the program accepts, as a grammar over token sequences:    *)
(*                                                                         *)
(*   script ::= ;* (statement ;* )*                                        *)
(*   insert ::= INSERT INTO table ( names ) VALUES ( literals )            *)
(*   select ::= SELECT (STAR | names) FROM table [WHERE name = literal]    *)
(*   table  ::= name | name . name                                         *)
(*                                                                         *)
(* Nothing here reads from left to right: a statement is a stretch of      *)
(* tokens for which there are lengths of its lists that make every token   *)
(* what the grammar asks for at its place.                                 *)
(***************************************************************************)
EXTENDS Naturals, SequencesExt, Ordered

Names    == {"IDENTIFIER"}
Literals == {"STRING", "NUMBER", "IDENTIFIER"}

\* After the i-th token there are m items, with separators in between.
IsList(ts, i, m, types, separator) ==
  \A k \in 1 .. m : /\ ts[i + 2 * k - 1].type \in types
                    /\ k < m => ts[i + 2 * k].type = separator

IsTable(ts, i, q)            == q \in 1 .. 2 /\ IsList(ts, i, q, Names, ".")
IsCommaList(ts, i, m, types) == m > 0 /\ IsList(ts, i, m, types, ",")

Items(ts, i, m) == [k \in 1 .. m |-> ts[i + 2 * k - 1].lexeme]

-----------------------------------------------------------------------------
(* Statements that take up the tokens from the h-th to the e-th.           *)

\* The table has q names; there are m columns and v values.
IsInsert(ts, h, e, q, m, v) ==
  LET open  == h + 1 + 2 * q
      close == open + 2 * m
  IN  /\ e = close + 2 + 2 * v
      /\ ts[h].type = "INSERT" /\ ts[h + 1].type = "INTO"
      /\ IsTable(ts, h + 1, q)
      /\ ts[open].type = "("
      /\ IsCommaList(ts, open, m, Names)
      /\ ts[close].type = ")" /\ ts[close + 1].type = "VALUES" /\ ts[close + 2].type = "("
      /\ IsCommaList(ts, close + 2, v, Literals)
      /\ ts[e].type = ")"

InsertOf(ts, h, q, m, v) ==
  [type |-> "INSERT", table |-> Items(ts, h + 1, q), columns |-> Items(ts, h + 1 + 2 * q, m),
   values |-> Items(ts, h + 3 + 2 * q + 2 * m, v)]

\* Where FROM is, after * (m is 0) or m columns.
FromAt(h, m) == h + (IF m = 0 THEN 2 ELSE 2 * m)

IsSelect(ts, h, e, m, q) ==
  LET from  == FromAt(h, m)
      where == from + 2 * q
  IN  /\ e \in {where - 1, where + 3}
      /\ ts[h].type = "SELECT"
      /\ IF m = 0 THEN ts[h + 1].type = "*" ELSE IsCommaList(ts, h, m, Names)
      /\ ts[from].type = "FROM"
      /\ IsTable(ts, from, q)
      /\ e > where => /\ ts[where].type = "WHERE" /\ ts[where + 1].type \in Names
                      /\ ts[where + 2].type = "=" /\ ts[where + 3].type \in Literals

SelectOf(ts, h, e, m, q) ==
  LET where == FromAt(h, m) + 2 * q
  IN  [type |-> "SELECT", table |-> Items(ts, FromAt(h, m), q), selectAll |-> m = 0,
       columns |-> Items(ts, h, m),
       where |-> IF e > where THEN [enabled |-> TRUE, column |-> ts[where + 1].lexeme,
                                    value |-> ts[where + 3].lexeme]
                 ELSE [enabled |-> FALSE, column |-> <<>>, value |-> <<>>]]

StatementsAt(ts, h, e) ==
  {InsertOf(ts, h, p[1], p[2], p[3]) :
     p \in {c \in (1 .. 2) \X (1 .. e - h) \X (1 .. e - h) : IsInsert(ts, h, e, c[1], c[2], c[3])}}
  \cup {SelectOf(ts, h, e, p[1], p[2]) :
          p \in {c \in (0 .. e - h) \X (1 .. 2) : IsSelect(ts, h, e, c[1], c[2])}}

-----------------------------------------------------------------------------
(* Scripts: the first n of the tokens.  INSERT and SELECT are reserved, so *)
(* each of them begins a statement, which goes up to a semicolon or to the *)
(* next of them.                                                           *)

Verbs      == {"INSERT", "SELECT"}
Boundaries == Verbs \cup {";"}

Heads(ts, n)     == {h \in 1 .. n : ts[h].type \in Verbs}
Within(ts, h, k) == h <= k /\ \A x \in h + 1 .. k : ts[x].type \notin Boundaries
EndOf(ts, n, h)  == Max({k \in h .. n : Within(ts, h, k)})

IsScript(ts, n) ==
  /\ \A k \in 1 .. n : ts[k].type = ";" \/ \E h \in Heads(ts, n) : Within(ts, h, k)
  /\ \A h \in Heads(ts, n) : StatementsAt(ts, h, EndOf(ts, n, h)) # {}

ScriptOf(ts, n) ==
  LET heads == InOrder(Heads(ts, n), n)
  IN  [k \in DOMAIN heads |->
         CHOOSE s \in StatementsAt(ts, heads[k], EndOf(ts, n, heads[k])) : TRUE]

-----------------------------------------------------------------------------
(* The beginnings of scripts.  Whatever a legal script begins with can be  *)
(* completed by the end of one of these two statements.                    *)

Example(types) == [i \in DOMAIN types |-> [type |-> types[i], lexeme |-> <<>>]]
InsertExample  == <<"INSERT", "INTO", "IDENTIFIER", "(", "IDENTIFIER", ")",
                    "VALUES", "(", "IDENTIFIER", ")">>
SelectExample  == <<"SELECT", "IDENTIFIER", "FROM", "IDENTIFIER", "WHERE",
                    "IDENTIFIER", "=", "IDENTIFIER">>
Completions ==
  UNION {{Example(SubSeq(e, i, Len(e))) : i \in 1 .. Len(e) + 1} :
           e \in {InsertExample, SelectExample}}

IsBeginning(ts, n) ==
  \E end \in Completions : IsScript(SubSeq(ts, 1, n) \o end, n + Len(end))
=============================================================================
