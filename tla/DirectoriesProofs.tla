------------------------- MODULE DirectoriesProofs -------------------------
(***************************************************************************)
(* The directories that any number of processes make for any paths, unless *)
(* the program and the operating system disagree on what a path says: all  *)
(* three invariants of Directories.                                        *)
(*                                                                         *)
(* Reading goes through a path from left to right, so that what it has     *)
(* read before a slash is a prefix of what it reads in the end; and the    *)
(* prefix that was made last is a directory or the name of a file.         *)
(***************************************************************************)
EXTENDS Directories, SeqLemmas

-----------------------------------------------------------------------------
(* Readings.                                                               *)

ReadingBody(p, f, n) == IF n = 0 THEN <<>> ELSE Extended(f[n - 1], p, n)
IsReading(p, N, f) == f = [n \in 0 .. N |-> ReadingBody(p, f, n)]

\* The function that Reading is defined by.
Upto(p) ==
  CHOOSE names : names = [n \in 0 .. Len(p) |-> IF n = 0 THEN <<>> ELSE Extended(names[n - 1], p, n)]

\* There is such a function.
LEMMA ReadingExists ==
  ASSUME NEW N \in Nat, NEW p
  PROVE  \E f : IsReading(p, N, f)
<1> DEFINE Good(m) == \E f : f = [n \in 0 .. m |-> ReadingBody(p, f, n)]
           G == {m \in Nat : Good(m)}
<1>1. Good(0)
  <2> DEFINE f == [n \in 0 .. 0 |-> <<>>]
  <2>1. f = [n \in 0 .. 0 |-> ReadingBody(p, f, n)]
    BY DEF ReadingBody
  <2> QED BY <2>1
<1>2. ASSUME NEW m \in Nat, Good(m) PROVE Good(m + 1)
  <2>1. PICK f : f = [n \in 0 .. m |-> ReadingBody(p, f, n)]
    BY <1>2
  <2> DEFINE g == [n \in 0 .. m + 1 |-> IF n = m + 1 THEN ReadingBody(p, f, n) ELSE f[n]]
  <2>2. ASSUME NEW n \in 0 .. m + 1 PROVE g[n] = ReadingBody(p, g, n)
    <3>1. n # 0 => n - 1 \in 0 .. m + 1 /\ n - 1 # m + 1
      OBVIOUS
    <3>2. n # 0 => g[n - 1] = f[n - 1]
      BY <3>1
    <3>3. ReadingBody(p, g, n) = ReadingBody(p, f, n)
      BY <3>2 DEF ReadingBody
    <3>4. n # m + 1 => n \in 0 .. m
      OBVIOUS
    <3>5. n # m + 1 => f[n] = ReadingBody(p, f, n)
      BY <2>1, <3>4
    <3> QED BY <3>3, <3>5
  <2>3. g = [n \in 0 .. m + 1 |-> g[n]]
    OBVIOUS
  <2> HIDE DEF g
  <2>4. g = [n \in 0 .. m + 1 |-> ReadingBody(p, g, n)]
    BY <2>2, <2>3
  <2> QED BY <2>4
<1> HIDE DEF Good
<1>3. Nat \subseteq G
  <2>1. 0 \in G /\ \A m \in Nat : m \in G => m + 1 \in G
    BY <1>1, <1>2
  <2> HIDE DEF G
  <2> QED BY <2>1, SetInduction
<1> QED BY <1>3 DEF Good, IsReading

\* What a text reads as, one character after the other.
LEMMA ReadingIs ==
  ASSUME NEW p, Len(p) \in Nat
  PROVE  /\ Reading(p) = Upto(p)[Len(p)]
         /\ Upto(p)[0] = <<>>
         /\ \A n \in 1 .. Len(p) : Upto(p)[n] = Extended(Upto(p)[n - 1], p, n)
<1>1. PICK N \in Nat : N = Len(p)
  OBVIOUS
<1>2. Reading(p) = Upto(p)[N]
  BY <1>1 DEF Reading, Upto
<1>3. \E f : f = [n \in 0 .. N |-> IF n = 0 THEN <<>> ELSE Extended(f[n - 1], p, n)]
  BY ReadingExists DEF IsReading, ReadingBody
<1>4. Upto(p) = [n \in 0 .. N |-> IF n = 0 THEN <<>> ELSE Extended(Upto(p)[n - 1], p, n)]
  BY <1>1, <1>3 DEF Upto
<1>5. PICK f : f = Upto(p)
  OBVIOUS
<1>6. f = [n \in 0 .. N |-> IF n = 0 THEN <<>> ELSE Extended(f[n - 1], p, n)]
  BY <1>4, <1>5
<1>7. f[0] = <<>> /\ \A n \in 1 .. N : f[n] = Extended(f[n - 1], p, n)
  <2>1. 0 \in 0 .. N /\ \A n \in 1 .. N : n \in 0 .. N /\ n # 0
    OBVIOUS
  <2> QED BY <1>6, <2>1
<1> QED BY <1>1, <1>2, <1>5, <1>7

\* What a prefix of a text reads as.
LEMMA ReadingOfPrefix ==
  ASSUME NEW C, NEW p \in Seq(C), NEW j \in 0 .. Len(p)
  PROVE  Reading(SubSeq(p, 1, j)) = Upto(p)[j]
<1>1. PICK u : u = SubSeq(p, 1, j)
  OBVIOUS
<1>2. Len(u) = j /\ j \in Nat /\ Len(p) \in Nat /\ \A i \in 1 .. j : u[i] = p[i]
  BY <1>1
<1> DEFINE f == Upto(u)
           g == Upto(p)
           G == {n \in Nat : n <= j => f[n] = g[n]}
<1>3. /\ Reading(u) = f[j] /\ f[0] = <<>> /\ g[0] = <<>>
      /\ \A n \in 1 .. j : f[n] = Extended(f[n - 1], u, n)
      /\ \A n \in 1 .. Len(p) : g[n] = Extended(g[n - 1], p, n)
  BY <1>2, ReadingIs
<1> HIDE DEF f, g
<1>4. ASSUME NEW n \in Nat, n \in G PROVE n + 1 \in G
  <2> SUFFICES ASSUME n + 1 <= j PROVE f[n + 1] = g[n + 1]
    OBVIOUS
  <2>1. /\ n + 1 \in 1 .. j /\ n + 1 \in 1 .. Len(p) /\ (n + 1) - 1 = n /\ n <= j
    BY <1>2
  <2>2. f[n + 1] = Extended(f[n], u, n + 1) /\ g[n + 1] = Extended(g[n], p, n + 1)
    BY <1>3, <2>1
  <2>3. f[n] = g[n]
    BY <1>4, <2>1
  <2>4. u[n + 1] = p[n + 1] /\ (n + 1 # 1 => u[n] = p[n])
    <3>1. n + 1 # 1 => n \in 1 .. j
      BY <2>1
    <3> QED BY <1>2, <2>1, <3>1
  <2>5. Extended(g[n], u, n + 1) = Extended(g[n], p, n + 1)
    BY <2>1, <2>4 DEF Extended
  <2> QED BY <2>2, <2>3, <2>5
<1>5. j \in G
  <2>1. 0 \in G
    BY <1>3
  <2> HIDE DEF G
  <2> QED BY <1>2, <1>4, <2>1, SetInduction
<1>6. f[j] = g[j]
  BY <1>2, <1>5
<1> QED BY <1>1, <1>3, <1>6 DEF f, g

\* Names are texts.
LEMMA ReadingType ==
  ASSUME NEW C, "/" \in C, NEW p \in Seq(C)
  PROVE  \A n \in 0 .. Len(p) : Upto(p)[n] \in Seq(Seq(C))
<1> DEFINE f == Upto(p)
           G == {n \in Nat : n <= Len(p) => f[n] \in Seq(Seq(C))}
<1>1. /\ f[0] = <<>> /\ Len(p) \in Nat
      /\ \A n \in 1 .. Len(p) : f[n] = Extended(f[n - 1], p, n)
  BY ReadingIs
<1> HIDE DEF f
<1>2. ASSUME NEW n \in Nat, n \in G PROVE n + 1 \in G
  <2> SUFFICES ASSUME n + 1 <= Len(p) PROVE f[n + 1] \in Seq(Seq(C))
    OBVIOUS
  <2>1. n + 1 \in 1 .. Len(p) /\ (n + 1) - 1 = n /\ n <= Len(p)
    BY <1>1
  <2>2. f[n + 1] = Extended(f[n], p, n + 1) /\ p[n + 1] \in C
    BY <1>1, <2>1
  <2>3. PICK names, c : names = f[n] /\ c = p[n + 1]
    OBVIOUS
  <2>4. names \in Seq(Seq(C)) /\ c \in C /\ Len(names) \in Nat
    BY <1>2, <2>1, <2>2, <2>3
  <2>5. <<c>> \in Seq(C) /\ <<"/">> \in Seq(C)
    BY <2>4
  <2>6. <<<<"/">>>> \in Seq(Seq(C)) /\ Append(names, <<c>>) \in Seq(Seq(C))
    BY <2>4, <2>5
  <2>7. [names EXCEPT ![Len(names)] = Append(@, c)] \in Seq(Seq(C))
    <3>1. CASE Len(names) = 0
      <4>1. [names EXCEPT ![Len(names)] = Append(@, c)] = names
        BY <2>4, <3>1
      <4> QED BY <2>4, <4>1
    <3>2. CASE Len(names) # 0
      <4>1. Len(names) \in 1 .. Len(names)
        BY <2>4, <3>2
      <4>2. names[Len(names)] \in Seq(C)
        BY <2>4, <4>1
      <4>3. Append(names[Len(names)], c) \in Seq(C)
        BY <2>4, <4>2
      <4> QED BY <2>4, <4>1, <4>3
    <3> QED BY <3>1, <3>2
  <2>8. Extended(names, p, n + 1) \in Seq(Seq(C))
    BY <2>3, <2>4, <2>6, <2>7 DEF Extended
  <2> QED BY <2>2, <2>3, <2>8
<1>3. ASSUME NEW n \in 0 .. Len(p) PROVE f[n] \in Seq(Seq(C))
  <2>1. 0 \in G
    <3>1. <<>> \in Seq(Seq(C))
      OBVIOUS
    <3> QED BY <1>1, <3>1
  <2>2. Nat \subseteq G
    <3> HIDE DEF G
    <3> QED BY <1>2, <2>1, SetInduction
  <2> QED BY <1>1, <2>2
<1> QED BY <1>3 DEF f

\* What is read up to a slash is a prefix of what is read up to n, a proper one
\* once a name has begun, and shorter by one while that name goes on.
LeadsOn(p, s, n) ==
  LET before == Upto(p)[s]
      after  == Upto(p)[n]
  IN  /\ Len(before) <= Len(after)
      /\ \A k \in 1 .. Len(before) : after[k] = before[k]
      /\ n > s /\ p[n] # "/" => Len(before) < Len(after)
      /\ n > s /\ (\A k \in s + 1 .. n : p[k] # "/") => Len(after) = Len(before) + 1

LEMMA NamesLeadOn ==
  ASSUME NEW C, "/" \in C, NEW p \in Seq(C), NEW s \in 0 .. Len(p), s = 0 \/ p[s] = "/"
  PROVE  \A n \in s .. Len(p) : LeadsOn(p, s, n)
<1> DEFINE f == Upto(p)
           G == {n \in Nat : n \in s .. Len(p) => LeadsOn(p, s, n)}
<1>1. /\ f[0] = <<>> /\ Len(p) \in Nat /\ s \in Nat
      /\ \A n \in 1 .. Len(p) : f[n] = Extended(f[n - 1], p, n)
      /\ \A n \in 0 .. Len(p) : f[n] \in Seq(Seq(C)) /\ Len(f[n]) \in Nat
  <2>1. \A n \in 0 .. Len(p) : f[n] \in Seq(Seq(C))
    BY ReadingType
  <2>2. \A n \in 0 .. Len(p) : Len(f[n]) \in Nat
    BY <2>1
  <2> QED BY <2>1, <2>2, ReadingIs
<1>2. \A n : LeadsOn(p, s, n) <=>
        /\ Len(f[s]) <= Len(f[n])
        /\ \A k \in 1 .. Len(f[s]) : f[n][k] = f[s][k]
        /\ n > s /\ p[n] # "/" => Len(f[s]) < Len(f[n])
        /\ n > s /\ (\A k \in s + 1 .. n : p[k] # "/") => Len(f[n]) = Len(f[s]) + 1
  BY DEF LeadsOn
<1> HIDE DEF f
<1>3. ASSUME NEW n \in Nat, n \in G PROVE n + 1 \in G
  <2> SUFFICES ASSUME n + 1 \in s .. Len(p) PROVE LeadsOn(p, s, n + 1)
    OBVIOUS
  <2>1. CASE n + 1 = s
    <3>1. Len(f[s]) \in Nat
      BY <1>1
    <3>2. ~(n + 1 > s)
      BY <2>1, <1>1
    <3> QED BY <1>2, <2>1, <3>1, <3>2
  <2>2. CASE n + 1 # s
    <3>1. /\ n \in s .. Len(p) /\ n + 1 \in 1 .. Len(p) /\ (n + 1) - 1 = n /\ n + 1 > s
          /\ n \in 0 .. Len(p) /\ n + 1 \in 0 .. Len(p) /\ s \in 0 .. Len(p) /\ n >= s
          /\ n + 1 \in s + 1 .. n + 1
      BY <1>1, <2>2
    <3>2. PICK old, new, start, c, L, M :
             /\ old = f[n] /\ new = f[n + 1] /\ start = f[s] /\ c = p[n + 1]
             /\ L = Len(start) /\ M = Len(old)
      OBVIOUS
    <3>3. /\ new = Extended(old, p, n + 1) /\ old \in Seq(Seq(C)) /\ M \in Nat /\ M = Len(old)
          /\ L \in Nat /\ L <= M /\ \A k \in 1 .. L : old[k] = start[k]
          /\ n > s /\ p[n] # "/" => L < M
          /\ n > s /\ (\A k \in s + 1 .. n : p[k] # "/") => M = L + 1
      BY <1>1, <1>2, <1>3, <3>1, <3>2
    <3>4. /\ c # "/" /\ (n + 1 = 1 \/ p[n] = "/") => new = Append(old, <<c>>)
          /\ c # "/" /\ ~(n + 1 = 1 \/ p[n] = "/") => new = [old EXCEPT ![M] = Append(@, c)]
          /\ c = "/" /\ n + 1 # 1 => new = old
          /\ c = "/" /\ n + 1 = 1 => new = <<<<"/">>>>
      BY <3>1, <3>2, <3>3 DEF Extended
    <3>5. (\A k \in s + 1 .. n + 1 : p[k] # "/") => c # "/" /\ \A k \in s + 1 .. n : p[k] # "/"
      BY <1>1, <3>1, <3>2
    <3>6. CASE c # "/" /\ (n + 1 = 1 \/ p[n] = "/")
      <4>1. new = Append(old, <<c>>)
        BY <3>4, <3>6
      <4>2. Len(new) = M + 1 /\ \A k \in 1 .. M : new[k] = old[k]
        <5>1. PICK name : name = <<c>>
          OBVIOUS
        <5>2. name \in Seq(C)
          BY <3>1, <3>2, <5>1
        <5>3. PICK D : D = Seq(C)
          OBVIOUS
        <5>4. old \in Seq(D) /\ name \in D /\ new = Append(old, name) /\ M = Len(old)
          BY <3>3, <4>1, <5>1, <5>2, <5>3
        <5> QED BY <5>4
      <4>3. \A k \in 1 .. L : new[k] = start[k] /\ k \in 1 .. M
        BY <3>3, <4>2
      <4>4. ASSUME \A k \in s + 1 .. n + 1 : p[k] # "/" PROVE Len(new) = L + 1
        <5>1. CASE n > s
          <6>1. n \in s + 1 .. n + 1 /\ n # 0
            BY <1>1, <5>1
          <6> QED BY <3>6, <4>4, <6>1
        <5>2. CASE ~(n > s)
          <6>1. n = s
            BY <1>1, <3>1, <5>2
          <6>2. M = L
            BY <3>2, <6>1
          <6> QED BY <4>2, <6>2
        <5> QED BY <5>1, <5>2
      <4>5. L <= Len(new) /\ L < Len(new)
        BY <3>3, <4>2
      <4> QED BY <1>2, <3>2, <4>3, <4>4, <4>5
    <3>7. CASE c # "/" /\ ~(n + 1 = 1 \/ p[n] = "/")
      <4>1. n > s
        BY <1>1, <3>1, <3>7
      <4>2. L < M
        BY <3>3, <3>7, <4>1
      <4>3. new = [old EXCEPT ![M] = Append(@, c)]
        BY <3>4, <3>7
      <4>4. Len(new) = M /\ \A k \in 1 .. M : k # M => new[k] = old[k]
        BY <3>3, <4>3, SMTT(20)
      <4>5. \A k \in 1 .. L : new[k] = start[k]
        <5>1. \A k \in 1 .. L : k \in 1 .. M /\ k # M
          BY <3>3, <4>2
        <5> QED BY <3>3, <4>4, <5>1
      <4>6. (\A k \in s + 1 .. n + 1 : p[k] # "/") => Len(new) = L + 1
        BY <3>3, <3>5, <4>1, <4>4
      <4>7. L <= Len(new) /\ L < Len(new)
        BY <3>3, <4>2, <4>4
      <4> QED BY <1>2, <3>2, <4>5, <4>6, <4>7
    <3>8. CASE c = "/"
      <4>1. L <= Len(new) /\ \A k \in 1 .. L : new[k] = start[k]
        <5>1. CASE n + 1 # 1
          BY <3>3, <3>4, <3>8, <5>1
        <5>2. CASE n + 1 = 1
          <6>1. n = 0 /\ s = 0
            BY <1>1, <3>1, <5>2
          <6>2. L = 0
            <7>1. start = <<>>
              BY <1>1, <3>2, <6>1
            <7> QED BY <3>2, <7>1
          <6>3. Len(new) = 1
            BY <3>4, <3>8, <5>2
          <6> QED BY <6>2, <6>3
        <5> QED BY <5>1, <5>2
      <4> QED BY <1>2, <3>2, <3>5, <3>8, <4>1
    <3> QED BY <3>6, <3>7, <3>8
  <2> QED BY <2>1, <2>2
<1>4. Nat \subseteq G
  <2>1. 0 \in G
    <3> SUFFICES ASSUME 0 \in s .. Len(p) PROVE LeadsOn(p, s, 0)
      OBVIOUS
    <3>1. s = 0 /\ Len(f[s]) \in Nat
      BY <1>1
    <3>2. ~(0 > s)
      BY <3>1
    <3> QED BY <1>2, <3>1, <3>2
  <2> HIDE DEF G
  <2> QED BY <1>3, <2>1, SetInduction
<1> QED BY <1>1, <1>4

-----------------------------------------------------------------------------
(* The paths.                                                              *)

Character == {"/"} \cup UNION {Range(p) : p \in Path}

\* A sequence that another one begins with.
LEMMA BeginsWith ==
  ASSUME NEW S, NEW x \in Seq(S), NEW y \in Seq(S), Len(x) <= Len(y),
         \A k \in 1 .. Len(x) : y[k] = x[k]
  PROVE  /\ SubSeq(y, 1, Len(x)) = x
         /\ Len(y) = Len(x) + 1 => Front(y) = x
<1>1. PICK n \in Nat : n = Len(x)
  OBVIOUS
<1>2. SubSeq(y, 1, n) \in Seq(S) /\ Len(SubSeq(y, 1, n)) = n
      /\ \A k \in 1 .. n : SubSeq(y, 1, n)[k] = y[k]
  BY <1>1
<1>3. SubSeq(y, 1, n) = x
  BY <1>1, <1>2, SeqEqual
<1>4. Len(y) = n + 1 => Len(y) - 1 = n
  BY <1>1
<1> QED BY <1>1, <1>3, <1>4 DEF Front

\* A path is a text that does not end with a slash.
LEMMA PathIs ==
  ASSUME PlainPaths, NEW t \in Path
  PROVE  /\ t \in Seq(Character) /\ Len(t) \in Nat \ {0} /\ t[Len(t)] # "/" /\ "/" \in Character
         /\ \A n \in 0 .. Len(t) : Upto(t)[n] \in Seq(Seq(Character)) /\ Len(Upto(t)[n]) \in Nat
         /\ Upto(t)[0] = <<>>
         /\ \A n \in 1 .. Len(t) : Upto(t)[n] = Extended(Upto(t)[n - 1], t, n)
         /\ Names(t) = Upto(t)[Len(t)]
<1>1. t \in Seq(Range(t)) /\ Range(t) \subseteq Character /\ t # <<>>
  BY PathAssumption DEF Character, PlainPaths
<1>2. t \in Seq(Character) /\ Len(t) \in Nat \ {0}
  BY <1>1
<1>3. "/" \in Character
  BY DEF Character
<1>4. \A n \in 0 .. Len(t) : Upto(t)[n] \in Seq(Seq(Character)) /\ Len(Upto(t)[n]) \in Nat
  <2>1. \A n \in 0 .. Len(t) : Upto(t)[n] \in Seq(Seq(Character))
    BY <1>2, <1>3, ReadingType
  <2> QED BY <2>1
<1>5. Names(t) = Upto(t)[Len(t)]
  <2>1. Names(t) = Reading(t)
    BY DEF Names, Readings
  <2> QED BY <1>2, <2>1, ReadingIs
<1>6. t[Len(t)] # "/"
  BY DEF PlainPaths
<1> QED BY <1>2, <1>3, <1>4, <1>5, <1>6, ReadingIs

\* The last separator of a path is a slash, and every slash but the first
\* character ends a prefix that is made.
ParentAt(t, m) ==
  /\ m + 1 \in 1 .. Len(t) - 1 /\ t[m + 1] = "/"
  /\ \A k \in m + 2 .. Len(t) : t[k] # "/"
  /\ Buffer(t) = SubSeq(t, 1, m)
  /\ Cuts(t) = {i \in 1 .. m : t[i + 1] = "/"}

LEMMA ParentIs ==
  ASSUME PlainPaths, NEW t \in Path, HasParent(t)
  PROVE  \E m \in Nat : ParentAt(t, m)
<1> DEFINE S == {i \in DOMAIN t : t[i] \in Separators}
<1>1. /\ t \in Seq(Character) /\ Len(t) \in Nat \ {0} /\ DOMAIN t = 1 .. Len(t)
      /\ t[Len(t)] # "/"
  BY PathIs
<1>2. \A i \in 1 .. Len(t) : t[i] # "\\"
  BY <1>1 DEF PlainPaths
<1>3. S = {i \in 1 .. Len(t) : t[i] = "/"} /\ S # {} /\ S \subseteq 0 .. Len(t)
  BY <1>1, <1>2 DEF HasParent, Separators
<1>4. PICK last : last \in S /\ \A i \in S : i <= last
  <2> HIDE DEF S
  <2>1. S # {} /\ S \subseteq 0 .. Len(t) /\ Len(t) \in Nat
    BY <1>1, <1>3, Zenon
  <2>2. \A m \in Nat : S \subseteq 0 .. m => \E g \in S : \A i \in S : i <= g
    BY <2>1, GreatestNat, Zenon
  <2> QED BY <2>1, <2>2, Zenon
<1>5. last \in 1 .. Len(t) - 1 /\ t[last] = "/" /\ \A k \in last + 1 .. Len(t) : t[k] # "/"
  <2>0. PICK N \in Nat \ {0} : N = Len(t)
    BY <1>1
  <2>1. last \in 1 .. N /\ t[last] = "/" /\ last # N
    BY <1>1, <1>3, <1>4, <2>0
  <2> HIDE DEF S
  <2>2. ASSUME NEW k \in last + 1 .. N PROVE t[k] # "/"
    <3>1. k \in 1 .. N /\ ~(k <= last)
      BY <2>1
    <3> QED BY <1>3, <1>4, <2>0, <3>1
  <2>3. last \in 1 .. N - 1
    BY <2>1
  <2> QED BY <2>0, <2>1, <2>2, <2>3, SMTT(30)
<1>6. PICK m \in Nat : m = last - 1 /\ last = m + 1 /\ m < Len(t)
  BY <1>1, <1>5
<1>7. Max(S) = last
  <2>1. \A i \in S : last >= i
    BY <1>1, <1>3, <1>4
  <2>2. ASSUME NEW x \in S, \A y \in S : x >= y PROVE x = last
    <3>1. x \in Nat /\ last \in Nat
      BY <1>3, <1>4
    <3>2. x >= last /\ last >= x
      BY <1>4, <2>1, <2>2
    <3> QED BY <3>1, <3>2
  <2> HIDE DEF S
  <2> QED BY <1>4, <2>1, <2>2 DEF Max
<1>8. ParentOf(t) = SubSeq(t, 1, m)
  BY <1>6, <1>7 DEF ParentOf
<1>9. PICK b : b = SubSeq(t, 1, m)
  OBVIOUS
<1>10. b \in Seq(Character) /\ Len(b) = m /\ DOMAIN b = 1 .. m /\ \A i \in 1 .. m : b[i] = t[i]
  BY <1>1, <1>6, <1>9
<1>11. Buffer(t) = b
  <2>1. Buffer(t) = [i \in 1 .. m |-> IF t[i] = "\\" THEN "/" ELSE t[i]]
    BY <1>8, <1>9, <1>10 DEF Buffer
  <2>2. \A i \in 1 .. m : (IF t[i] = "\\" THEN "/" ELSE t[i]) = b[i]
    <3>1. \A i \in 1 .. m : i \in 1 .. Len(t)
      BY <1>1, <1>6
    <3> QED BY <1>2, <1>10, <3>1
  <2>3. b = [i \in 1 .. m |-> b[i]]
    BY <1>10
  <2> QED BY <2>1, <2>2, <2>3
<1>12. Cuts(t) = {i \in 1 .. m : t[i + 1] = "/"}
  <2>1. Cuts(t) = {i \in 1 .. m : (i = m \/ b[i + 1] = "/") /\ ~(i = 2 /\ b[2] = ":")}
    BY <1>10, <1>11 DEF Cuts
  <2>2. ASSUME NEW i \in 1 .. m
        PROVE  (i = m \/ b[i + 1] = "/") /\ ~(i = 2 /\ b[2] = ":") <=> t[i + 1] = "/"
    <3>1. i # m => i + 1 \in 1 .. m
      OBVIOUS
    <3>2. i = m \/ b[i + 1] = "/" <=> t[i + 1] = "/"
      BY <1>5, <1>6, <1>10, <3>1
    <3>3. ASSUME i = 2, b[2] = ":", t[i + 1] = "/" PROVE FALSE
      <4>1. t[2] = ":" /\ t[3] = "/" /\ Len(t) > 2
        BY <1>1, <1>6, <1>10, <3>3
      <4> QED BY <4>1 DEF PlainPaths
    <3> QED BY <3>2, <3>3
  <2> QED BY <2>1, <2>2
<1> QED BY <1>5, <1>6, <1>9, <1>11, <1>12 DEF ParentAt

\* The prefixes that are made, as the operating system reads them.
LEMMA CutIs ==
  ASSUME PlainPaths, NEW t \in Path, HasParent(t), NEW i \in Cuts(t)
  PROVE  /\ i \in 1 .. Len(t) - 1 /\ t[i + 1] = "/"
         /\ Names(SubSeq(Buffer(t), 1, i)) = Upto(t)[i]
         /\ Upto(t)[i + 1] = Upto(t)[i]
         /\ Upto(t)[i] = SubSeq(Names(t), 1, Len(Upto(t)[i]))
         /\ Len(Upto(t)[i]) < Len(Names(t))
<1>1. PICK m \in Nat : ParentAt(t, m)
  BY ParentIs
<1>2. /\ t \in Seq(Character) /\ Len(t) \in Nat \ {0} /\ t[Len(t)] # "/" /\ "/" \in Character
      /\ \A n \in 0 .. Len(t) : Upto(t)[n] \in Seq(Seq(Character)) /\ Len(Upto(t)[n]) \in Nat
      /\ \A n \in 1 .. Len(t) : Upto(t)[n] = Extended(Upto(t)[n - 1], t, n)
      /\ Names(t) = Upto(t)[Len(t)]
  BY PathIs
<1>3. PICK N \in Nat : N = Len(t)
  BY <1>2
<1>4. i \in 1 .. m /\ t[i + 1] = "/" /\ m + 1 < N /\ Buffer(t) = SubSeq(t, 1, m)
  BY <1>1, <1>3 DEF ParentAt
<1>5. /\ i \in 1 .. N - 1 /\ i + 1 \in 1 .. N /\ i + 1 \in 0 .. N /\ i \in 0 .. N
      /\ N \in i + 1 .. N /\ N > i + 1 /\ i + 1 # 1 /\ (i + 1) - 1 = i
  BY <1>4
<1>6. Names(SubSeq(Buffer(t), 1, i)) = Upto(t)[i]
  <2>1. SubSeq(Buffer(t), 1, i) = SubSeq(t, 1, i)
    <3>1. PICK b, u, v : b = SubSeq(t, 1, m) /\ u = SubSeq(t, 1, i) /\ v = SubSeq(b, 1, i)
      OBVIOUS
    <3>2. b \in Seq(Character) /\ Len(b) = m /\ \A k \in 1 .. m : b[k] = t[k]
      BY <1>2, <1>3, <1>4, <3>1
    <3>3. u \in Seq(Character) /\ Len(u) = i /\ \A k \in 1 .. i : u[k] = t[k]
      BY <1>2, <1>3, <1>5, <3>1
    <3>4. v \in Seq(Character) /\ Len(v) = i /\ \A k \in 1 .. i : v[k] = b[k]
      BY <1>4, <3>1, <3>2
    <3>5. \A k \in 1 .. i : v[k] = u[k]
      <4>1. \A k \in 1 .. i : k \in 1 .. m
        BY <1>4
      <4> QED BY <3>2, <3>3, <3>4, <4>1
    <3>6. u = v
      BY <3>3, <3>4, <3>5, SeqEqual
    <3> QED BY <1>4, <3>1, <3>6
  <2>2. Names(SubSeq(Buffer(t), 1, i)) = Reading(SubSeq(Buffer(t), 1, i))
    <3> DEFINE Made(p) == {SubSeq(Buffer(p), 1, k) : k \in Cuts(p)}
               All == {Made(p) : p \in {q \in Path : HasParent(q)}}
    <3>1. PICK u : u = SubSeq(Buffer(t), 1, i)
      OBVIOUS
    <3>2. u \in Made(t)
      BY <3>1
    <3>3. Made(t) \in All
      <4> HIDE DEF Made
      <4> QED OBVIOUS
    <3>4. u \in Path \cup UNION All
      <4> HIDE DEF All, Made
      <4> QED BY <3>2, <3>3
    <3>5. Readings = [v \in Path \cup UNION All |-> Reading(v)]
      BY DEF Readings
    <3> HIDE DEF All, Made
    <3> QED BY <3>1, <3>4, <3>5 DEF Names
  <2>3. Reading(SubSeq(t, 1, i)) = Upto(t)[i]
    BY <1>2, <1>3, <1>5, ReadingOfPrefix
  <2> QED BY <2>1, <2>2, <2>3
<1>7. Upto(t)[i + 1] = Upto(t)[i]
  <2>1. Upto(t)[i + 1] = Extended(Upto(t)[i], t, i + 1)
    BY <1>2, <1>3, <1>5
  <2> QED BY <1>4, <1>5, <2>1 DEF Extended
<1>8. LeadsOn(t, i + 1, N)
  BY <1>2, <1>3, <1>4, <1>5, NamesLeadOn
<1>9. PICK x, y : x = Upto(t)[i] /\ y = Names(t)
  OBVIOUS
<1>10. Len(x) < Len(y) /\ Len(x) <= Len(y) /\ \A k \in 1 .. Len(x) : y[k] = x[k]
  BY <1>2, <1>3, <1>5, <1>7, <1>8, <1>9 DEF LeadsOn
<1>11. x \in Seq(Seq(Character)) /\ y \in Seq(Seq(Character))
  <2>1. N \in 0 .. N
    OBVIOUS
  <2> QED BY <1>2, <1>3, <1>5, <1>9, <2>1
<1>12. SubSeq(y, 1, Len(x)) = x
  <2>1. PICK S : S = Seq(Character)
    OBVIOUS
  <2> QED BY <1>10, <1>11, <2>1, BeginsWith
<1> QED BY <1>3, <1>4, <1>5, <1>6, <1>7, <1>9, <1>10, <1>12

\* The directory that a file is put into, and those above it.
LEMMA ParentReads ==
  ASSUME PlainPaths, NEW t \in Path
  PROVE  /\ Above(t) = {SubSeq(Front(Names(t)), 1, n) : n \in 0 .. Len(Front(Names(t)))}
         /\ Front(Names(t)) \in Above(t)
         /\ Front(Names(t)) \in Seq(Seq(Character))
         /\ \/ ~HasParent(t) /\ Front(Names(t)) = <<>>
            \/ HasParent(t) /\ Cuts(t) = {} /\ Front(Names(t)) = <<<<"/">>>>
            \/ HasParent(t) /\ \E m \in Cuts(t) : Front(Names(t)) = Upto(t)[m] /\ \A i \in Cuts(t) : i <= m
<1>2. /\ t \in Seq(Character) /\ Len(t) \in Nat \ {0} /\ t[Len(t)] # "/" /\ "/" \in Character
      /\ \A n \in 0 .. Len(t) : Upto(t)[n] \in Seq(Seq(Character)) /\ Len(Upto(t)[n]) \in Nat
      /\ Upto(t)[0] = <<>>
      /\ \A n \in 1 .. Len(t) : Upto(t)[n] = Extended(Upto(t)[n - 1], t, n)
      /\ Names(t) = Upto(t)[Len(t)]
  BY PathIs
<1>3. PICK N \in Nat \ {0} : N = Len(t)
  BY <1>2
<1>4. PICK s \in 0 .. N - 1 :
        /\ s = 0 \/ t[s] = "/"
        /\ \A k \in s + 1 .. N : t[k] # "/"
        /\ \/ ~HasParent(t) /\ s = 0
           \/ HasParent(t) /\ Cuts(t) = {} /\ s = 1
           \/ HasParent(t) /\ s - 1 \in Cuts(t) /\ \A i \in Cuts(t) : i <= s - 1
  <2>1. CASE ~HasParent(t)
    <3>1. \A k \in 0 + 1 .. N : t[k] # "/"
      BY <1>2, <1>3, <2>1 DEF HasParent, Separators
    <3> QED BY <2>1, <3>1
  <2>2. CASE HasParent(t)
    <3>1. PICK m \in Nat : ParentAt(t, m)
      BY <2>2, ParentIs
    <3>2. m + 1 \in 1 .. N - 1 /\ t[m + 1] = "/" /\ (\A k \in m + 2 .. N : t[k] # "/")
          /\ Cuts(t) = {i \in 1 .. m : t[i + 1] = "/"}
      BY <1>3, <3>1 DEF ParentAt
    <3>3. PICK s \in 0 .. N - 1 : s = m + 1 /\ s - 1 = m /\ s + 1 = m + 2
      BY <3>2
    <3>4. m = 0 => Cuts(t) = {}
      BY <3>2
    <3>5. m # 0 => m \in Cuts(t) /\ \A i \in Cuts(t) : i <= m
      BY <3>2
    <3> QED BY <2>2, <3>2, <3>3, <3>4, <3>5
  <2> QED BY <2>1, <2>2
<1>5. s \in 0 .. N /\ N \in s .. N /\ N > s /\ N \in 0 .. N
  BY <1>3
<1>6. LeadsOn(t, s, N)
  BY <1>2, <1>3, <1>4, <1>5, NamesLeadOn
<1>7. PICK x, y, S : x = Upto(t)[s] /\ y = Names(t) /\ S = Seq(Character)
  OBVIOUS
<1>8. /\ x \in Seq(S) /\ y \in Seq(S) /\ Len(x) \in Nat /\ Len(y) = Len(x) + 1 /\ Len(x) <= Len(y)
      /\ \A k \in 1 .. Len(x) : y[k] = x[k]
  BY <1>2, <1>3, <1>4, <1>5, <1>6, <1>7 DEF LeadsOn
<1>9. Front(y) = x
  BY <1>8, BeginsWith
<1>10. Above(t) = {SubSeq(x, 1, n) : n \in 0 .. Len(x)}
  <2>1. Len(y) - 1 = Len(x)
    BY <1>8
  <2>2. ASSUME NEW n \in 0 .. Len(x) PROVE SubSeq(y, 1, n) = SubSeq(x, 1, n)
    <3>1. PICK u, v : u = SubSeq(y, 1, n) /\ v = SubSeq(x, 1, n)
      OBVIOUS
    <3>2. n \in 0 .. Len(y)
      BY <1>8
    <3>3. u \in Seq(S) /\ Len(u) = n /\ \A k \in 1 .. n : u[k] = y[k]
      BY <1>8, <3>1, <3>2
    <3>4. v \in Seq(S) /\ Len(v) = n /\ \A k \in 1 .. n : v[k] = x[k]
      BY <1>8, <3>1
    <3>5. \A k \in 1 .. n : u[k] = v[k]
      <4>1. \A k \in 1 .. n : k \in 1 .. Len(x)
        BY <1>8
      <4>2. \A k \in 1 .. Len(x) : y[k] = x[k]
        BY <1>8, Zenon
      <4> QED BY <3>3, <3>4, <4>1, <4>2, Zenon
    <3>6. u = v
      BY <3>3, <3>4, <3>5, SeqEqual, SMTT(30)
    <3> QED BY <3>1, <3>6
  <2> QED BY <1>7, <2>1, <2>2 DEF Above
<1>11. x \in Above(t)
  <2>1. Len(x) \in 0 .. Len(x) /\ SubSeq(x, 1, Len(x)) = x
    BY <1>8
  <2> QED BY <1>10, <2>1
<1>12. \/ ~HasParent(t) /\ x = <<>>
       \/ HasParent(t) /\ Cuts(t) = {} /\ x = <<<<"/">>>>
       \/ HasParent(t) /\ \E m \in Cuts(t) : x = Upto(t)[m] /\ \A i \in Cuts(t) : i <= m
  <2>1. CASE ~HasParent(t) /\ s = 0
    BY <1>2, <1>7, <2>1
  <2>2. CASE HasParent(t) /\ Cuts(t) = {} /\ s = 1
    <3>1. Upto(t)[1] = Extended(Upto(t)[1 - 1], t, 1) /\ t[1] = "/"
      BY <1>2, <1>3, <1>4, <2>2
    <3>2. x = <<<<"/">>>>
      BY <1>7, <2>2, <3>1 DEF Extended
    <3> QED BY <2>2, <3>2
  <2>3. CASE HasParent(t) /\ s - 1 \in Cuts(t) /\ \A i \in Cuts(t) : i <= s - 1
    <3>1. PICK m \in Cuts(t) : m = s - 1 /\ s = m + 1
      BY <1>4, <2>3
    <3>2. Upto(t)[m + 1] = Upto(t)[m]
      BY <2>3, CutIs
    <3> QED BY <1>7, <2>3, <3>1, <3>2
  <2> QED BY <1>4, <2>1, <2>2, <2>3
<1> QED BY <1>7, <1>8, <1>9, <1>10, <1>11, <1>12

\* A name that goes on from a slash, or from the beginning.
LEMMA OneMoreName ==
  ASSUME PlainPaths, NEW t \in Path, NEW s \in 0 .. Len(t), s = 0 \/ t[s] = "/",
         NEW n \in s .. Len(t), \A k \in s + 1 .. n : t[k] # "/"
  PROVE  Upto(t)[n] = Upto(t)[s] \/ Front(Upto(t)[n]) = Upto(t)[s]
<1>1. /\ t \in Seq(Character) /\ Len(t) \in Nat \ {0} /\ "/" \in Character
      /\ \A k \in 0 .. Len(t) : Upto(t)[k] \in Seq(Seq(Character)) /\ Len(Upto(t)[k]) \in Nat
  BY PathIs
<1>2. CASE n = s
  BY <1>2
<1>3. CASE n # s
  <2>1. n > s /\ n \in 0 .. Len(t)
    BY <1>1, <1>3
  <2>2. LeadsOn(t, s, n)
    BY <1>1, NamesLeadOn
  <2>3. PICK x, y, S : x = Upto(t)[s] /\ y = Upto(t)[n] /\ S = Seq(Character)
    OBVIOUS
  <2>4. /\ x \in Seq(S) /\ y \in Seq(S) /\ Len(y) = Len(x) + 1 /\ Len(x) <= Len(y)
        /\ \A k \in 1 .. Len(x) : y[k] = x[k]
    BY <1>1, <2>1, <2>2, <2>3 DEF LeadsOn
  <2> QED BY <2>3, <2>4, BeginsWith
<1> QED BY <1>2, <1>3

\* From one prefix that is made to the next, at most one name is added.
LEMMA NextCut ==
  ASSUME PlainPaths, NEW t \in Path, HasParent(t),
         NEW i \in Cuts(t), NEW j \in {0} \cup Cuts(t), j < i,
         \A k \in Cuts(t) : k <= j \/ i <= k
  PROVE  \E base \in {<<>>, <<<<"/">>>>} \cup {Upto(t)[k] : k \in {j} \ {0}} :
           Upto(t)[i] = base \/ Front(Upto(t)[i]) = base
<1>1. PICK m \in Nat : ParentAt(t, m)
  BY ParentIs
<1>2. /\ t \in Seq(Character) /\ Len(t) \in Nat \ {0} /\ Upto(t)[0] = <<>>
      /\ \A n \in 1 .. Len(t) : Upto(t)[n] = Extended(Upto(t)[n - 1], t, n)
  BY PathIs
<1>3. PICK N \in Nat \ {0} : N = Len(t)
  BY <1>2
<1>4. m + 1 \in 1 .. N - 1 /\ Cuts(t) = {k \in 1 .. m : t[k + 1] = "/"}
  BY <1>1, <1>3 DEF ParentAt
<1>5. i \in 1 .. m /\ t[i + 1] = "/" /\ j \in 0 .. m /\ j < i /\ i <= N
  BY <1>4
<1>6. ASSUME NEW k \in j + 2 .. i PROVE t[k] # "/"
  <2>1. PICK h \in 1 .. m : h = k - 1 /\ k = h + 1 /\ j < h /\ h < i
    BY <1>5
  <2>2. h \notin Cuts(t)
    BY <1>5, <2>1
  <2> QED BY <1>4, <2>1, <2>2
<1>7. CASE j = 0 /\ t[1] # "/"
  <2>1. \A k \in 0 + 1 .. i : t[k] # "/"
    <3>1. \A k \in 0 + 1 .. i : k = 1 \/ k \in j + 2 .. i
      BY <1>5, <1>7
    <3> QED BY <1>6, <1>7, <3>1
  <2>2. 0 \in 0 .. N /\ i \in 0 .. N
    BY <1>5
  <2>3. Upto(t)[i] = Upto(t)[0] \/ Front(Upto(t)[i]) = Upto(t)[0]
    BY <1>3, <2>1, <2>2, OneMoreName
  <2> QED BY <1>2, <2>3
<1>8. CASE j = 0 /\ t[1] = "/"
  <2>1. \A k \in 1 + 1 .. i : t[k] # "/"
    BY <1>6, <1>8
  <2>2. 1 \in 0 .. N /\ i \in 1 .. N /\ 1 \in 1 .. N
    BY <1>5
  <2>3. Upto(t)[i] = Upto(t)[1] \/ Front(Upto(t)[i]) = Upto(t)[1]
    BY <1>3, <1>8, <2>1, <2>2, OneMoreName
  <2>4. Upto(t)[1] = <<<<"/">>>>
    <3>1. Upto(t)[1] = Extended(Upto(t)[1 - 1], t, 1)
      BY <1>2, <1>3, <2>2
    <3> QED BY <1>8, <3>1 DEF Extended
  <2> QED BY <2>3, <2>4
<1>9. CASE j # 0
  <2>1. j \in Cuts(t) /\ j \in {j} \ {0}
    BY <1>9
  <2>2. PICK s \in 0 .. N : s = j + 1 /\ s + 1 = j + 2
    BY <1>5
  <2>3. t[s] = "/" /\ Upto(t)[s] = Upto(t)[j]
    BY <2>1, <2>2, CutIs
  <2>4. i \in s .. N /\ \A k \in s + 1 .. i : t[k] # "/"
    BY <1>5, <1>6, <2>2
  <2>5. Upto(t)[i] = Upto(t)[s] \/ Front(Upto(t)[i]) = Upto(t)[s]
    BY <1>3, <2>2, <2>3, <2>4, OneMoreName
  <2> QED BY <2>1, <2>3, <2>5
<1> QED BY <1>7, <1>8, <1>9

\* Above a directory there are only directories.
LEMMA DirectoriesAbove ==
  ASSUME NEW S, NEW D, D \subseteq Seq(S), \A d \in D : d # <<>> => Front(d) \in D,
         NEW x \in D, NEW n \in 0 .. Len(x)
  PROVE  SubSeq(x, 1, n) \in D
<1>1. PICK N \in Nat : N = Len(x) /\ x \in Seq(S)
  OBVIOUS
<1> DEFINE G == {h \in Nat : h <= N => SubSeq(x, 1, N - h) \in D}
<1>2. SubSeq(x, 1, N - 0) = x
  BY <1>1
<1>3. ASSUME NEW h \in Nat, h \in G PROVE h + 1 \in G
  <2> SUFFICES ASSUME h + 1 <= N PROVE SubSeq(x, 1, N - (h + 1)) \in D
    OBVIOUS
  <2>1. PICK k \in 1 .. N : k = N - h /\ N - (h + 1) = k - 1
    BY <1>1
  <2>2. PICK u, v : u = SubSeq(x, 1, k) /\ v = SubSeq(x, 1, k - 1)
    OBVIOUS
  <2>3. u \in D
    BY <1>3, <2>1, <2>2
  <2>4. u \in Seq(S) /\ Len(u) = k /\ \A i \in 1 .. k : u[i] = x[i]
    BY <1>1, <2>1, <2>2
  <2>5. v \in Seq(S) /\ Len(v) = k - 1 /\ \A i \in 1 .. k - 1 : v[i] = x[i]
    BY <1>1, <2>1, <2>2
  <2>6. Len(v) <= Len(u) /\ Len(u) = Len(v) + 1 /\ \A i \in 1 .. Len(v) : u[i] = v[i]
    <3>1. \A i \in 1 .. k - 1 : i \in 1 .. k
      BY <2>1
    <3> QED BY <2>1, <2>4, <2>5, <3>1
  <2>7. Front(u) = v
    BY <2>4, <2>5, <2>6, BeginsWith
  <2>8. u # <<>>
    BY <2>1, <2>4
  <2> QED BY <2>1, <2>2, <2>3, <2>7, <2>8
<1>4. 0 \in G
  BY <1>1, <1>2
<1>5. N - n \in Nat /\ N - n \in G
  <2> HIDE DEF G
  <2>1. Nat \subseteq G
    BY <1>3, <1>4, SetInduction
  <2> QED BY <1>1, <2>1
<1>6. N - (N - n) = n /\ N - n <= N
  BY <1>1
<1> QED BY <1>5, <1>6

\* The next prefix to make is the shortest that is longer than the last one.
LEMMA NextIs ==
  ASSUME PlainPaths, NEW t \in Path, HasParent(t), NEW m \in Nat,
         {i \in Cuts(t) : i > m} # {}
  PROVE  /\ Min({i \in Cuts(t) : i > m}) \in Cuts(t)
         /\ m < Min({i \in Cuts(t) : i > m})
         /\ \A k \in Cuts(t) : k <= m \/ Min({i \in Cuts(t) : i > m}) <= k
<1>1. PICK T : T = {i \in Cuts(t) : i > m}
  OBVIOUS
<1>2. Cuts(t) \subseteq Nat
  BY CutIs
<1>3. T \subseteq Nat /\ T # {}
  BY <1>1, <1>2
<1>4. PICK x \in T : \A y \in T : x <= y
  BY <1>3, LeastNat
<1>5. Min(T) = x
  <2>1. ASSUME NEW z \in T, \A y \in T : y >= z PROVE z = x
    <3>1. x >= z /\ x <= z /\ x \in Nat /\ z \in Nat
      BY <1>3, <1>4, <2>1
    <3> QED BY <3>1
  <2>2. \A y \in T : y >= x
    BY <1>3, <1>4
  <2>3. Min(T) = CHOOSE z \in T : \A y \in T : z <= y
    BY DEF Min
  <2>4. \A z \in T : (\A y \in T : z <= y) => z = x
    <3>1. \A z, y \in T : z <= y => y >= z
      BY <1>3
    <3> QED BY <2>1, <3>1
  <2> QED BY <1>4, <2>3, <2>4
<1>6. \A k \in Cuts(t) : k <= m \/ k \in T
  BY <1>1, <1>2
<1> QED BY <1>1, <1>2, <1>4, <1>5, <1>6

-----------------------------------------------------------------------------
(* The inductive invariant.                                                *)

Steps == {"idle", "making", "opening", "done", "failed"}

Types ==
  /\ pc \in [Proc -> Steps]
  /\ path \in [Proc -> Path \cup {<<>>}]
  /\ made \in [Proc -> Nat]
  /\ dirs \subseteq Seq(Seq(Character))

\* Every directory is in a directory.
Rooted ==
  /\ <<>> \in dirs /\ <<<<"/">>>> \in dirs
  /\ \A d \in dirs : d # <<>> => Front(d) \in dirs

LastMade(p) == Names(SubSeq(Buffer(path[p]), 1, made[p]))

\* What a process has made is there, if not always as a directory; and it opens
\* its file only when it has made the whole parent directory.
Progress(p) ==
  /\ pc[p] = "idle" => made[p] = 0
  /\ pc[p] # "idle" => path[p] \in Path
  /\ pc[p] = "making" => HasParent(path[p])
  /\ made[p] # 0 =>
       pc[p] # "idle" /\ HasParent(path[p]) /\ made[p] \in Cuts(path[p]) /\ LastMade(p) \in dirs \cup files
  /\ pc[p] = "opening" /\ HasParent(path[p]) => \A i \in Cuts(path[p]) : i <= made[p]

DirInv ==
  /\ Types
  /\ Rooted
  /\ \A p \in Proc : Progress(p)
  /\ NobodyInTheWay
  /\ NoStrayDirectories

InTheWay(p) ==
  pc[p] = "failed" /\ ~Faults => Above(path[p]) \cap files # {} \/ Names(path[p]) \in dirs

Own(p) == IF pc[p] # "idle" THEN Above(path[p]) ELSE {}

LEMMA InitDir == Init => DirInv
<1> SUFFICES ASSUME Init PROVE DirInv
  OBVIOUS
<1>1. Types
  <2>1. "/" \in Character
    BY DEF Character
  <2>2. <<"/">> \in Seq(Character)
    BY <2>1
  <2>3. <<<<"/">>>> \in Seq(Seq(Character)) /\ <<>> \in Seq(Seq(Character))
    BY <2>2
  <2> QED BY <2>3 DEF Init, Types, Steps
<1>2. Rooted
  <2>1. Front(<<<<"/">>>>) = <<>>
    <3>1. PICK c : c = <<"/">>
      OBVIOUS
    <3>2. SubSeq(<<c>>, 1, Len(<<c>>) - 1) = <<>>
      OBVIOUS
    <3> QED BY <3>1, <3>2 DEF Front
  <2> QED BY <2>1 DEF Init, Rooted
<1>3. \A p \in Proc : Progress(p)
  BY DEF Init, Progress
<1>4. NobodyInTheWay /\ NoStrayDirectories
  BY DEF Init, NobodyInTheWay, NoStrayDirectories
<1> QED BY <1>1, <1>2, <1>3, <1>4 DEF DirInv

\* What a process does leaves the others where they are.
Keeps(p) ==
  /\ dirs \subseteq dirs' /\ files \subseteq files'
  /\ \A q \in Proc \ {p} : pc'[q] = pc[q] /\ path'[q] = path[q] /\ made'[q] = made[q]
  /\ pc[p] # "idle" => path'[p] = path[p] /\ pc'[p] # "idle"

LEMMA Others ==
  ASSUME DirInv, NEW p \in Proc, Keeps(p), Types', Rooted', Progress(p)', InTheWay(p)',
         dirs' \subseteq dirs \cup Own(p)'
  PROVE  DirInv'
<1>1. ASSUME NEW q \in Proc \ {p} PROVE Progress(q)' /\ InTheWay(q)'
  <2>1. pc'[q] = pc[q] /\ path'[q] = path[q] /\ made'[q] = made[q]
    BY DEF Keeps
  <2>2. LastMade(q)' = LastMade(q)
    BY <2>1 DEF LastMade
  <2>3. Progress(q) /\ InTheWay(q)
    BY DEF DirInv, NobodyInTheWay, InTheWay
  <2>4. Progress(q)'
    BY <2>1, <2>2, <2>3 DEF Progress, Keeps
  <2>5. InTheWay(q)'
    BY <2>1, <2>3 DEF InTheWay, Keeps
  <2> QED BY <2>4, <2>5
<1>2. NobodyInTheWay'
  BY <1>1 DEF NobodyInTheWay, InTheWay
<1>3. NoStrayDirectories'
  <2> DEFINE Roots == {<<>>, <<<<"/">>>>}
  <2> SUFFICES ASSUME NEW d \in dirs', d \notin Roots
               PROVE  \E q \in Proc : pc'[q] # "idle" /\ d \in Above(path'[q])
    BY DEF NoStrayDirectories
  <2>1. CASE d \in dirs
    <3>1. PICK q \in Proc : pc[q] # "idle" /\ d \in Above(path[q])
      BY <2>1 DEF DirInv, NoStrayDirectories
    <3>2. path'[q] = path[q] /\ pc'[q] # "idle"
      BY <3>1 DEF Keeps
    <3> QED BY <3>1, <3>2
  <2>2. CASE d \in Own(p)'
    BY <2>2 DEF Own
  <2> QED BY <2>1, <2>2
<1> QED BY <1>1, <1>2, <1>3 DEF DirInv

\* The prefix that a process makes next is a directory on the way to its file,
\* in a directory or in something that is a file.
LEMMA MakesNext ==
  ASSUME PlainPaths, DirInv, NEW p \in Proc, pc[p] = "making", ToMake(p) # {}
  PROVE  /\ Min(ToMake(p)) \in Cuts(path[p]) /\ Min(ToMake(p)) \in Nat \ {0}
         /\ Names(NextToMake(p)) \in Seq(Seq(Character))
         /\ Names(NextToMake(p)) \in Above(path[p])
         /\ \/ Names(NextToMake(p)) \in dirs \cup files
            \/ Front(Names(NextToMake(p))) \in dirs
            \/ Front(Names(NextToMake(p))) \in files \cap Above(path[p])
<1>1. PICK t, j, i : t = path[p] /\ j = made[p] /\ i = Min(ToMake(p))
  OBVIOUS
<1>2. t \in Path /\ HasParent(t) /\ j \in Nat /\ Progress(p)
  BY <1>1 DEF DirInv, Types, Progress
<1>3. ToMake(p) = {k \in Cuts(t) : k > j}
  BY <1>1 DEF ToMake
<1>4. i \in Cuts(t) /\ j < i /\ \A k \in Cuts(t) : k <= j \/ i <= k
  BY <1>1, <1>2, <1>3, NextIs
<1>5. /\ i \in 1 .. Len(t) - 1 /\ Names(SubSeq(Buffer(t), 1, i)) = Upto(t)[i]
      /\ Upto(t)[i] = SubSeq(Names(t), 1, Len(Upto(t)[i])) /\ Len(Upto(t)[i]) < Len(Names(t))
  BY <1>2, <1>4, CutIs
<1>6. /\ Len(t) \in Nat /\ \A n \in 0 .. Len(t) : Upto(t)[n] \in Seq(Seq(Character)) /\ Len(Upto(t)[n]) \in Nat
      /\ Names(t) = Upto(t)[Len(t)]
  BY <1>2, PathIs
<1>7. \A k \in Cuts(t) : Upto(t)[k] \in Above(t)
  <2> SUFFICES ASSUME NEW k \in Cuts(t) PROVE Upto(t)[k] \in Above(t)
    OBVIOUS
  <2>1. /\ k \in 1 .. Len(t) - 1
        /\ Upto(t)[k] = SubSeq(Names(t), 1, Len(Upto(t)[k])) /\ Len(Upto(t)[k]) < Len(Names(t))
    BY <1>2, CutIs
  <2>2. k \in 0 .. Len(t) /\ Len(t) \in 0 .. Len(t)
    BY <1>6, <2>1
  <2>3. Len(Upto(t)[k]) \in Nat /\ Len(Names(t)) \in Nat
    BY <1>6, <2>2
  <2>4. Len(Upto(t)[k]) \in 0 .. Len(Names(t)) - 1
    BY <2>1, <2>3
  <2> QED BY <2>1, <2>4 DEF Above
<1>8. PICK X : X = Upto(t)[i]
  OBVIOUS
<1>9. Names(NextToMake(p)) = X
  BY <1>1, <1>5, <1>8 DEF NextToMake
<1>10. X \in Seq(Seq(Character)) /\ X \in Above(t)
  <2>1. i \in 0 .. Len(t)
    BY <1>5, <1>6
  <2> QED BY <1>4, <1>6, <1>7, <1>8, <2>1
<1>11. \/ X \in dirs \cup files \/ Front(X) \in dirs \/ Front(X) \in files \cap Above(t)
  <2>1. j \in {0} \cup Cuts(t)
    BY <1>1, <1>2 DEF Progress
  <2>2. PICK base \in {<<>>, <<<<"/">>>>} \cup {Upto(t)[k] : k \in {j} \ {0}} : X = base \/ Front(X) = base
    BY <1>2, <1>4, <1>8, <2>1, NextCut
  <2>3. CASE base \in {<<>>, <<<<"/">>>>}
    BY <2>2, <2>3 DEF DirInv, Rooted
  <2>4. CASE base \notin {<<>>, <<<<"/">>>>}
    <3>1. j # 0 /\ base = Upto(t)[j]
      BY <2>4
    <3>2. LastMade(p) \in dirs \cup files /\ j \in Cuts(t)
      BY <1>1, <1>2, <3>1 DEF Progress
    <3>3. LastMade(p) = base
      BY <1>1, <1>2, <3>1, <3>2, CutIs DEF LastMade
    <3> QED BY <1>7, <2>2, <3>1, <3>2, <3>3
  <2> QED BY <2>3, <2>4
<1> QED BY <1>1, <1>4, <1>5, <1>9, <1>10, <1>11

LEMMA BeginKeeps ==
  ASSUME PlainPaths, DirInv, NEW p \in Proc, Begin(p)
  PROVE  DirInv'
<1>1. PICK new \in Path : /\ path' = [path EXCEPT ![p] = new]
                          /\ pc' = [pc EXCEPT ![p] = IF HasParent(new) THEN "making" ELSE "opening"]
  BY DEF Begin
<1>2. pc[p] = "idle" /\ dirs' = dirs /\ files' = files /\ made' = made /\ made[p] = 0
  BY DEF Begin, DirInv, Progress
<1>3. Types'
  BY <1>1, <1>2 DEF DirInv, Types, Steps
<1>4. path'[p] = new /\ pc'[p] = IF HasParent(new) THEN "making" ELSE "opening"
  BY <1>1 DEF DirInv, Types
<1>5. Keeps(p)
  BY <1>1, <1>2 DEF Keeps, DirInv, Types
<1>6. Rooted'
  BY <1>2 DEF DirInv, Rooted
<1>7. Progress(p)'
  BY <1>2, <1>4 DEF Progress
<1>8. InTheWay(p)' /\ dirs' \subseteq dirs \cup Own(p)'
  BY <1>2, <1>4 DEF InTheWay
<1> QED BY <1>3, <1>5, <1>6, <1>7, <1>8, Others

\* MakeDirectory and DirectoryExists: the next prefix is there afterwards.
LEMMA AdvanceKeeps ==
  ASSUME PlainPaths, DirInv, NEW p \in Proc, pc[p] = "making", ToMake(p) # {}, Advance(p),
         \/ /\ dirs' = dirs \cup {Names(NextToMake(p))} /\ Front(Names(NextToMake(p))) \in dirs
         \/ dirs' = dirs /\ Names(NextToMake(p)) \in dirs \cup files
  PROVE  DirInv'
<1>1. PICK X, i : X = Names(NextToMake(p)) /\ i = Min(ToMake(p))
  OBVIOUS
<1>2. made' = [made EXCEPT ![p] = i] /\ files' = files /\ pc' = pc /\ path' = path
  BY <1>1 DEF Advance
<1>3. i \in Cuts(path[p]) /\ i \in Nat \ {0} /\ X \in Seq(Seq(Character)) /\ X \in Above(path[p])
  BY <1>1, MakesNext
<1>4. /\ dirs \subseteq dirs' /\ dirs' \subseteq dirs \cup {X} /\ X \in dirs' \cup files
      /\ \A d \in dirs' : d \in dirs \/ Front(d) \in dirs
  BY <1>1
<1>5. Types'
  <2>1. PICK S : S = Seq(Seq(Character))
    OBVIOUS
  <2>2. dirs \subseteq S /\ X \in S
    BY <1>3, <2>1 DEF DirInv, Types
  <2>3. dirs' \subseteq Seq(Seq(Character))
    BY <1>4, <2>1, <2>2
  <2> QED BY <1>2, <1>3, <2>3 DEF DirInv, Types
<1>6. made'[p] = i
  BY <1>2 DEF DirInv, Types
<1>7. Keeps(p)
  BY <1>2, <1>4 DEF Keeps, DirInv, Types
<1>8. Rooted'
  BY <1>4 DEF DirInv, Rooted
<1>9. Progress(p)'
  <2>1. LastMade(p)' = X
    BY <1>1, <1>2, <1>6 DEF LastMade, NextToMake
  <2>2. path[p] \in Path /\ HasParent(path[p])
    BY DEF DirInv, Progress
  <2>3. pc'[p] = "making" /\ path'[p] = path[p]
    BY <1>2
  <2>4. X \in dirs' \cup files'
    BY <1>2, <1>4
  <2> QED BY <1>3, <1>6, <2>1, <2>2, <2>3, <2>4 DEF Progress
<1>10. InTheWay(p)' /\ dirs' \subseteq dirs \cup Own(p)'
  <2>1. pc'[p] = "making" /\ path'[p] = path[p]
    BY <1>2
  <2>2. Own(p)' = Above(path[p])
    BY <2>1 DEF Own
  <2>3. dirs' \subseteq dirs \cup Above(path[p])
    BY <1>3, <1>4
  <2> QED BY <2>1, <2>2, <2>3 DEF InTheWay
<1> QED BY <1>5, <1>7, <1>8, <1>9, <1>10, Others

\* MakeFails: what the directory would be in is a file.
LEMMA MakeFailsKeeps ==
  ASSUME PlainPaths, DirInv, NEW p \in Proc, MakeFails(p)
  PROVE  DirInv'
<1>1. PICK X : X = Names(NextToMake(p))
  OBVIOUS
<1>2. /\ pc[p] = "making" /\ ToMake(p) # {} /\ X \notin dirs \cup files /\ (Front(X) \in dirs => Faults)
      /\ pc' = [pc EXCEPT ![p] = "failed"]
      /\ dirs' = dirs /\ files' = files /\ path' = path /\ made' = made
  BY <1>1 DEF MakeFails
<1>3. Types' /\ pc'[p] = "failed"
  BY <1>2 DEF DirInv, Types, Steps
<1>4. Keeps(p)
  BY <1>2 DEF Keeps, DirInv, Types
<1>5. Rooted'
  BY <1>2 DEF DirInv, Rooted
<1>6. Progress(p)'
  <2>1. LastMade(p)' = LastMade(p)
    BY <1>2 DEF LastMade
  <2>2. Progress(p)
    BY DEF DirInv
  <2> QED BY <1>2, <1>3, <2>1, <2>2 DEF Progress
<1>7. InTheWay(p)' /\ dirs' \subseteq dirs \cup Own(p)'
  <2>1. Front(X) \in dirs \/ Front(X) \in files \cap Above(path[p])
    BY <1>1, <1>2, MakesNext
  <2> QED BY <1>2, <2>1 DEF InTheWay
<1> QED BY <1>3, <1>4, <1>5, <1>6, <1>7, Others

LEMMA ReadyKeeps ==
  ASSUME PlainPaths, DirInv, NEW p \in Proc, ParentReady(p)
  PROVE  DirInv'
<1>1. /\ pc[p] = "making" /\ ToMake(p) = {} /\ pc' = [pc EXCEPT ![p] = "opening"]
      /\ dirs' = dirs /\ files' = files /\ path' = path /\ made' = made
  BY DEF ParentReady
<1>2. Types' /\ pc'[p] = "opening"
  BY <1>1 DEF DirInv, Types, Steps
<1>3. Keeps(p)
  BY <1>1 DEF Keeps, DirInv, Types
<1>4. Rooted'
  BY <1>1 DEF DirInv, Rooted
<1>5. Progress(p)'
  <2>1. LastMade(p)' = LastMade(p)
    BY <1>1 DEF LastMade
  <2>2. Progress(p) /\ path[p] \in Path /\ HasParent(path[p]) /\ made[p] \in Nat
    BY <1>1 DEF DirInv, Types, Progress
  <2>3. \A i \in Cuts(path[p]) : i <= made[p]
    <3>1. \A i \in Cuts(path[p]) : i \in Nat /\ ~(i > made[p])
      BY <1>1, <2>2, CutIs DEF ToMake
    <3> QED BY <2>2, <3>1
  <2> QED BY <1>1, <1>2, <2>1, <2>2, <2>3 DEF Progress
<1>6. InTheWay(p)' /\ dirs' \subseteq dirs \cup Own(p)'
  BY <1>1, <1>2 DEF InTheWay
<1> QED BY <1>2, <1>3, <1>4, <1>5, <1>6, Others

\* Before a process opens its file, what the file is put into is there.
LEMMA ParentThere ==
  ASSUME PlainPaths, DirInv, NEW p \in Proc, pc[p] = "opening"
  PROVE  Front(Names(path[p])) \in dirs \cup files
<1>1. PICK t : t = path[p]
  OBVIOUS
<1>2. t \in Path /\ Progress(p)
  BY <1>1 DEF DirInv, Progress
<1>3. CASE Front(Names(t)) \in {<<>>, <<<<"/">>>>}
  BY <1>1, <1>3 DEF DirInv, Rooted
<1>4. CASE HasParent(t) /\ \E m \in Cuts(t) : Front(Names(t)) = Upto(t)[m] /\ \A i \in Cuts(t) : i <= m
  <2>1. PICK m \in Cuts(t) : Front(Names(t)) = Upto(t)[m] /\ \A i \in Cuts(t) : i <= m
    BY <1>4
  <2>2. m \in 1 .. Len(t) - 1 /\ Names(SubSeq(Buffer(t), 1, m)) = Upto(t)[m]
    BY <1>2, <1>4, CutIs
  <2>3. m <= made[p] /\ made[p] \in Nat
    BY <1>1, <1>2, <1>4 DEF Progress, DirInv, Types
  <2>4. made[p] # 0 /\ m \in Nat
    BY <2>2, <2>3
  <2>5. made[p] \in Cuts(t) /\ LastMade(p) \in dirs \cup files
    BY <1>1, <1>2, <2>4 DEF Progress
  <2>6. made[p] = m
    BY <2>1, <2>3, <2>4, <2>5
  <2> QED BY <1>1, <2>1, <2>2, <2>5, <2>6 DEF LastMade
<1> QED BY <1>2, <1>3, <1>4, ParentReads

LEMMA OpenKeeps ==
  ASSUME PlainPaths, DirInv, NEW p \in Proc, pc[p] = "opening",
         \/ files' = files \cup {Names(path[p])} /\ pc' = [pc EXCEPT ![p] = "done"]
         \/ files' = files /\ pc' = [pc EXCEPT ![p] = "failed"] /\ (Openable(p) => Faults),
         dirs' = dirs, path' = path, made' = made
  PROVE  DirInv'
<1>1. Types' /\ pc'[p] \in {"done", "failed"} /\ files \subseteq files'
  BY DEF DirInv, Types, Steps
<1>2. Keeps(p)
  BY <1>1 DEF Keeps, DirInv, Types
<1>3. Rooted'
  BY DEF DirInv, Rooted
<1>4. Progress(p) /\ path[p] \in Path
  BY DEF DirInv, Progress
<1>5. Progress(p)'
  <2>1. LastMade(p)' = LastMade(p)
    BY DEF LastMade
  <2> QED BY <1>1, <1>4, <2>1 DEF Progress
<1>6. InTheWay(p)'
  <2> SUFFICES ASSUME pc'[p] = "failed", ~Faults
               PROVE  Above(path[p]) \cap files' # {} \/ Names(path[p]) \in dirs
    BY DEF InTheWay
  <2>1. ~Openable(p) /\ files' = files
    BY DEF DirInv, Types
  <2>2. Front(Names(path[p])) \in dirs \cup files /\ Front(Names(path[p])) \in Above(path[p])
    BY <1>4, ParentThere, ParentReads
  <2> QED BY <2>1, <2>2 DEF Openable
<1> QED BY <1>1, <1>2, <1>3, <1>5, <1>6, Others

LEMMA NextDir ==
  ASSUME PlainPaths, DirInv, [Next]_vars
  PROVE  DirInv'
<1>1. ASSUME NEW p \in Proc, Begin(p) PROVE DirInv'
  BY <1>1, BeginKeeps
<1>2. ASSUME NEW p \in Proc, MakeDirectory(p) PROVE DirInv'
  BY <1>2, AdvanceKeeps DEF MakeDirectory
<1>3. ASSUME NEW p \in Proc, DirectoryExists(p) PROVE DirInv'
  BY <1>3, AdvanceKeeps DEF DirectoryExists
<1>4. ASSUME NEW p \in Proc, MakeFails(p) PROVE DirInv'
  BY <1>4, MakeFailsKeeps
<1>5. ASSUME NEW p \in Proc, ParentReady(p) PROVE DirInv'
  BY <1>5, ReadyKeeps
<1>6. ASSUME NEW p \in Proc, OpenFile(p) PROVE DirInv'
  BY <1>6, OpenKeeps DEF OpenFile
<1>7. ASSUME NEW p \in Proc, OpenFails(p) PROVE DirInv'
  BY <1>7, OpenKeeps DEF OpenFails
<1>8. CASE UNCHANGED vars
  <2>1. dirs' = dirs /\ files' = files /\ pc' = pc /\ path' = path /\ made' = made
    BY <1>8 DEF vars
  <2>2. \A p \in Proc : LastMade(p)' = LastMade(p)
    BY <2>1 DEF LastMade
  <2> QED BY <2>1, <2>2 DEF DirInv, Types, Rooted, Progress, NobodyInTheWay, NoStrayDirectories
<1> QED BY <1>1, <1>2, <1>3, <1>4, <1>5, <1>6, <1>7, <1>8 DEF Next

LEMMA DirInvEnsures ==
  ASSUME PlainPaths, DirInv
  PROVE  ParentEnsured
<1> SUFFICES ASSUME NEW p \in Proc, pc[p] = "opening"
             PROVE  Above(path[p]) \subseteq dirs \/ Above(path[p]) \cap files # {}
  BY DEF ParentEnsured
<1>1. PICK t, x : t = path[p] /\ x = Front(Names(t))
  OBVIOUS
<1>2. t \in Path
  BY <1>1 DEF DirInv, Progress
<1>3. x \in dirs \cup files
  BY <1>1, ParentThere
<1>4. Above(t) = {SubSeq(x, 1, n) : n \in 0 .. Len(x)} /\ x \in Above(t)
  BY <1>1, <1>2, ParentReads
<1>5. CASE x \in dirs
  <2>1. PICK S : S = Seq(Character)
    OBVIOUS
  <2>2. dirs \subseteq Seq(S) /\ \A d \in dirs : d # <<>> => Front(d) \in dirs
    BY <2>1 DEF DirInv, Types, Rooted
  <2>3. \A n \in 0 .. Len(x) : SubSeq(x, 1, n) \in dirs
    BY <1>5, <2>2, DirectoriesAbove
  <2>4. Above(t) \subseteq dirs
    BY <1>4, <2>3
  <2> QED BY <1>1, <2>4
<1>6. CASE x \in files
  BY <1>1, <1>4, <1>6
<1> QED BY <1>3, <1>5, <1>6

LEMMA DirAlways ==
  ASSUME PlainPaths
  PROVE  Spec => []DirInv
<1>1. Init => DirInv
  BY InitDir
<1>2. DirInv /\ [Next]_vars => DirInv'
  BY NextDir
<1> QED BY <1>1, <1>2, PTL DEF Spec

\* ensure_parent_directory: when a file is opened, every directory on its path
\* has been made, unless a file has the name of one, for any number of processes
\* and any paths that the program and the operating system read alike.
THEOREM ParentsAreEnsured ==
  ASSUME PlainPaths
  PROVE  Spec => []ParentEnsured
<1>1. DirInv => ParentEnsured
  BY DirInvEnsures
<1> QED BY <1>1, DirAlways, PTL

\* ensure_directory_recursive tells a directory that somebody else has made from
\* an error: without a fault, only a name that is taken stops a writer.
THEOREM OnlyNamesInTheWay ==
  ASSUME PlainPaths
  PROVE  Spec => []NobodyInTheWay
<1>1. DirInv => NobodyInTheWay
  BY DEF DirInv
<1> QED BY <1>1, DirAlways, PTL

\* ensure_directory_recursive makes prefixes of the path only, as the operating
\* system reads them.
THEOREM NoOtherDirectories ==
  ASSUME PlainPaths
  PROVE  Spec => []NoStrayDirectories
<1>1. DirInv => NoStrayDirectories
  BY DEF DirInv
<1> QED BY <1>1, DirAlways, PTL
=============================================================================
