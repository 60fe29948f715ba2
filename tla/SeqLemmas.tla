----------------------------- MODULE SeqLemmas -----------------------------
(***************************************************************************)
(* Facts about the naturals and about FlattenSeq that the proofs about the *)
(* row format rest on.  The library's induction theorems take an operator; *)
(* here induction is over a set instead, through its least counterexample. *)
(***************************************************************************)
EXTENDS Ordered, SequencesExt, Integers, SequenceTheorems, WellFoundedInduction, TLAPS

\* Every nonempty set of naturals has a least member.
LEMMA LeastNat ==
  ASSUME NEW T, T \subseteq Nat, T # {}
  PROVE  \E x \in T : \A y \in T : x <= y
<1> DEFINE R == OpToRel(<, Nat)
<1>1. IsWellFoundedOn(R, Nat)
  BY NatLessThanWellFounded
<1>2. ASSUME NEW x \in Nat, NEW y \in Nat, x < y PROVE <<x, y>> \in R
  BY <1>2 DEF OpToRel
<1> HIDE DEF R
<1>3. PICK x \in T : \A y \in T : ~(<<y, x>> \in R)
  BY <1>1, WFMin, Zenon
<1>4. ASSUME NEW y \in T PROVE ~(y < x)
  BY <1>2, <1>3, Zenon
<1>5. ASSUME NEW y \in T PROVE x <= y
  BY <1>4
<1> QED BY <1>5

\* A set of naturals below a bound has a greatest member, if it has any.
LEMMA GreatestNat ==
  ASSUME NEW b \in Nat, NEW T, T \subseteq 0 .. b, T # {}
  PROVE  \E x \in T : \A y \in T : y <= x
<1> DEFINE U == {u \in Nat : \A y \in T : y <= u}
<1>1. PICK u \in U : \A v \in U : u <= v
  <2>1. b \in U
    OBVIOUS
  <2>2. U \subseteq Nat /\ U # {}
    BY <2>1
  <2> HIDE DEF U
  <2> QED BY <2>2, LeastNat
<1>2. CASE u \in T
  BY <1>1, <1>2
<1>3. CASE u \notin T
  <2>1. PICK t \in T : TRUE
    OBVIOUS
  <2>2. t <= u /\ t # u /\ t \in Nat
    BY <1>1, <1>3, <2>1
  <2>3. u - 1 \in Nat
    BY <1>1, <2>2
  <2>4. \A y \in T : y <= u - 1
    <3> SUFFICES ASSUME NEW y \in T PROVE y <= u - 1
      OBVIOUS
    <3>1. y <= u /\ y # u /\ y \in Nat /\ u \in Nat
      BY <1>1, <1>3
    <3> QED BY <3>1
  <2>5. u - 1 \in U
    BY <2>3, <2>4
  <2> QED BY <1>1, <2>5, <2>3
<1> QED BY <1>2, <1>3

\* The greatest member of a set of naturals is what it is said to be.
LEMMA MaxIs ==
  ASSUME NEW T, T \subseteq Nat, NEW m \in T, \A y \in T : y <= m
  PROVE  Max(T) = m
<1>1. PICK x : x = Max(T)
  OBVIOUS
<1>2. x \in T /\ \A y \in T : y <= x
  BY <1>1 DEF Max
<1> QED BY <1>1, <1>2

\* A set that holds 0, and with every natural its successor, holds all of them.
LEMMA SetInduction ==
  ASSUME NEW S, 0 \in S, \A n \in Nat : n \in S => n + 1 \in S
  PROVE  Nat \subseteq S
<1> SUFFICES ASSUME Nat \ S # {} PROVE FALSE
  OBVIOUS
<1>1. PICK x \in Nat \ S : \A y \in Nat \ S : x <= y
  BY LeastNat
<1>2. x # 0
  OBVIOUS
<1>3. x - 1 \in Nat /\ ~(x <= x - 1)
  BY <1>2
<1>4. x - 1 \in S
  BY <1>1, <1>3
<1>5. (x - 1) + 1 \in S
  BY <1>3, <1>4
<1> QED BY <1>5

\* A sequence over a set is one over every larger set.
LEMMA SeqSubset ==
  ASSUME NEW A, NEW B, A \subseteq B, NEW e \in Seq(A)
  PROVE  e \in Seq(B)
  OBVIOUS

\* A set that holds the empty sequence, and with every sequence its extensions
\* by one element, holds all sequences.
LEMMA SnocInduction ==
  ASSUME NEW S, NEW G, <<>> \in G,
         \A s \in Seq(S), x \in S : s \in G => Append(s, x) \in G
  PROVE  Seq(S) \subseteq G
<1> DEFINE H == {n \in Nat : \A s \in Seq(S) : Len(s) = n => s \in G}
<1>1. 0 \in H
  OBVIOUS
<1>2. ASSUME NEW n \in Nat, n \in H PROVE n + 1 \in H
  <2> SUFFICES ASSUME NEW s \in Seq(S), Len(s) = n + 1 PROVE s \in G
    OBVIOUS
  <2> DEFINE front == [i \in 1 .. n |-> s[i]]
  <2>1. front \in Seq(S) /\ Len(front) = n /\ s[n + 1] \in S
    OBVIOUS
  <2>2. s = Append(front, s[n + 1])
    OBVIOUS
  <2>3. front \in G
    BY <1>2, <2>1
  <2> HIDE DEF front
  <2> QED BY <2>1, <2>2, <2>3
<1>3. Nat \subseteq H
  <2> HIDE DEF H
  <2> QED BY <1>1, <1>2, SetInduction
<1> QED BY <1>3

\* Flattening a sequence of sequences over S is well defined: there is a
\* function of what each prefix flattens to, and it has its values in Seq(S).
LEMMA FlattenSeqScan ==
  ASSUME NEW S, NEW ss \in Seq(Seq(S))
  PROVE  \E f : /\ \A n \in 1 .. Len(ss) :
                     /\ f[n] \in Seq(S)
                     /\ f[n] = IF n = 1 THEN ss[n] ELSE f[n - 1] \o ss[n]
               /\ FlattenSeq(ss) = IF Len(ss) = 0 THEN <<>> ELSE f[Len(ss)]
<1> DEFINE Body(f, i) == IF i = 1 THEN ss[i] ELSE f[i - 1] \o ss[i]
           Good(n) == \E f \in [1 .. n -> Seq(S)] : f = [i \in 1 .. n |-> Body(f, i)]
           G == {n \in Nat : n <= Len(ss) => Good(n)}
<1>1. Good(0)
  <2> DEFINE e == [i \in 1 .. 0 |-> <<>>]
  <2>1. e \in [1 .. 0 -> Seq(S)] /\ e = [i \in 1 .. 0 |-> Body(e, i)]
    OBVIOUS
  <2> QED BY <2>1
<1>2. ASSUME NEW n \in Nat, n + 1 <= Len(ss), Good(n) PROVE Good(n + 1)
  <2> HIDE DEF Body
  <2>1. PICK f \in [1 .. n -> Seq(S)] : f = [i \in 1 .. n |-> Body(f, i)]
    BY <1>2
  <2> USE DEF Body
  <2> DEFINE g == [i \in 1 .. n + 1 |-> IF i = n + 1 THEN Body(f, i) ELSE f[i]]
  <2>2. Body(f, n + 1) \in Seq(S)
    <3>1. ss[n + 1] \in Seq(S)
      BY <1>2
    <3>2. CASE n = 0
      BY <3>1, <3>2
    <3>3. CASE n # 0
      <4>1. f[n] \in Seq(S)
        BY <3>3, <2>1
      <4> QED BY <3>1, <3>3, <4>1
    <3> QED BY <3>2, <3>3
  <2>3. g \in [1 .. n + 1 -> Seq(S)]
    <3>1. ASSUME NEW i \in 1 .. n + 1 PROVE g[i] \in Seq(S)
      <4>1. CASE i = n + 1
        BY <2>2, <4>1
      <4>2. CASE i # n + 1
        <5>1. i \in 1 .. n
          BY <4>2
        <5> HIDE DEF Body
        <5> QED BY <5>1, <2>1, <4>2
      <4> QED BY <4>1, <4>2
    <3> HIDE DEF Body
    <3> QED BY <3>1
  <2>4. ASSUME NEW i \in 1 .. n + 1 PROVE g[i] = Body(g, i)
    <3>1. i # 1 => g[i - 1] = f[i - 1]
      OBVIOUS
    <3>2. CASE i = n + 1
      BY <3>1, <3>2
    <3>3. CASE i # n + 1
      <4>1. i \in 1 .. n
        BY <3>3
      <4>2. f[i] = Body(f, i)
        BY <2>1, <4>1
      <4> QED BY <3>1, <4>1, <4>2, <3>3
    <3> QED BY <3>2, <3>3
  <2>5. g = [i \in 1 .. n + 1 |-> Body(g, i)]
    BY <2>3, <2>4
  <2> QED BY <2>3, <2>5
<1> HIDE DEF Good
<1>3. Nat \subseteq G
  <2>1. 0 \in G
    BY <1>1
  <2>2. ASSUME NEW n \in Nat, n \in G PROVE n + 1 \in G
    <3> SUFFICES ASSUME n + 1 <= Len(ss) PROVE Good(n + 1)
      OBVIOUS
    <3>1. n <= Len(ss)
      OBVIOUS
    <3>2. Good(n)
      BY <2>2, <3>1
    <3> QED BY <1>2, <3>2
  <2> HIDE DEF G
  <2> QED BY <2>1, <2>2, SetInduction
<1>4. Good(Len(ss))
  <2>1. Len(ss) \in Nat
    BY LenProperties, Zenon
  <2>2. PICK n \in Nat : n = Len(ss)
    BY <2>1, Zenon
  <2>3. n \in G
    <3> HIDE DEF G
    <3> QED BY <1>3, Zenon
  <2>4. n <= Len(ss) => Good(n)
    BY <2>3, Zenon
  <2>5. n <= Len(ss)
    <3>1. n <= n
      BY SMTT(20)
    <3> QED BY <2>2, <3>1, Zenon
  <2> QED BY <2>2, <2>4, <2>5, Zenon
<1> USE DEF Good
<1> DEFINE flat == CHOOSE f : f = [i \in 1 .. Len(ss) |-> Body(f, i)]
<1>5. flat = [i \in 1 .. Len(ss) |-> Body(flat, i)]
  BY <1>4
<1>6. ASSUME Len(ss) # 0 PROVE FlattenSeq(ss) = flat[Len(ss)]
  BY <1>6 DEF FlattenSeq
<1>7. ASSUME Len(ss) = 0 PROVE FlattenSeq(ss) = <<>>
  BY <1>7 DEF FlattenSeq
<1> HIDE DEF flat
<1> DEFINE H == {n \in Nat : n \in 1 .. Len(ss) => flat[n] \in Seq(S)}
<1>8. ASSUME NEW n \in Nat, n \in H PROVE n + 1 \in H
  <2> SUFFICES ASSUME n + 1 \in 1 .. Len(ss) PROVE flat[n + 1] \in Seq(S)
    OBVIOUS
  <2> HIDE DEF Body
  <2>1. flat[n + 1] = Body(flat, n + 1)
    BY <1>5
  <2> USE DEF Body
  <2>4. ss[n + 1] \in Seq(S) /\ (n + 1) - 1 = n
    OBVIOUS
  <2>2. CASE n = 0
    BY <2>1, <2>2, <2>4
  <2>3. CASE n # 0
    <3>1. flat[n] \in Seq(S)
      BY <1>8, <2>3
    <3>2. n + 1 # 1
      BY <2>3
    <3>3. Body(flat, n + 1) = flat[(n + 1) - 1] \o ss[n + 1]
      BY <3>2, Zenon
    <3>4. flat[n + 1] = flat[n] \o ss[n + 1]
      BY <2>1, <2>4, <3>3, Zenon
    <3> QED BY <2>4, <3>1, <3>4
  <2> QED BY <2>2, <2>3
<1>9. Nat \subseteq H
  <2>1. 0 \in H
    OBVIOUS
  <2> HIDE DEF H
  <2> QED BY <2>1, <1>8, SetInduction
<1>10. ASSUME NEW n \in 1 .. Len(ss)
       PROVE  flat[n] \in Seq(S) /\ flat[n] = IF n = 1 THEN ss[n] ELSE flat[n - 1] \o ss[n]
  <2>1. n \in H
    BY <1>9
  <2>2. flat[n] = Body(flat, n)
    <3> HIDE DEF Body
    <3> QED BY <1>5
  <2> QED BY <2>1, <2>2
<1> QED BY <1>6, <1>7, <1>10

\* Flattening a sequence of sequences over S (the buffers that the writers
\* of a row append to one another) gives a sequence over S.
LEMMA FlattenSeqType ==
  ASSUME NEW S, NEW ss \in Seq(Seq(S))
  PROVE  FlattenSeq(ss) \in Seq(S)
<1>1. Len(ss) # 0 => Len(ss) \in 1 .. Len(ss)
  OBVIOUS
<1> QED BY <1>1, FlattenSeqScan

\* One more sequence at the end is one more piece of text at the end.
LEMMA FlattenSeqAppend ==
  ASSUME NEW S, NEW ss \in Seq(Seq(S)), NEW s \in Seq(S)
  PROVE  FlattenSeq(Append(ss, s)) = FlattenSeq(ss) \o s
<1> DEFINE tt == Append(ss, s)
           n  == Len(ss)
<1>1. /\ tt \in Seq(Seq(S)) /\ n \in Nat /\ Len(tt) = n + 1 /\ tt[n + 1] = s
      /\ \A i \in 1 .. n : tt[i] = ss[i]
  OBVIOUS
<1>2. PICK f : /\ \A i \in 1 .. n :
                     f[i] \in Seq(S) /\ f[i] = IF i = 1 THEN ss[i] ELSE f[i - 1] \o ss[i]
               /\ FlattenSeq(ss) = IF n = 0 THEN <<>> ELSE f[n]
  BY FlattenSeqScan
<1> HIDE DEF tt
<1>3. PICK g : /\ \A i \in 1 .. n + 1 :
                     g[i] \in Seq(S) /\ g[i] = IF i = 1 THEN tt[i] ELSE g[i - 1] \o tt[i]
               /\ FlattenSeq(tt) = g[n + 1]
  <2>1. n + 1 # 0 /\ tt \in Seq(Seq(S)) /\ Len(tt) = n + 1
    BY <1>1
  <2> HIDE DEF n
  <2>2. PICK g : /\ \A i \in 1 .. Len(tt) :
                       g[i] \in Seq(S) /\ g[i] = IF i = 1 THEN tt[i] ELSE g[i - 1] \o tt[i]
                 /\ FlattenSeq(tt) = IF Len(tt) = 0 THEN <<>> ELSE g[Len(tt)]
    BY <2>1, FlattenSeqScan
  <2> QED BY <2>1, <2>2
<1> HIDE DEF n
<1>4. ASSUME NEW i \in Nat, i \in 1 .. n => g[i] = f[i]
      PROVE  i + 1 \in 1 .. n => g[i + 1] = f[i + 1]
  <2> SUFFICES ASSUME i + 1 \in 1 .. n PROVE g[i + 1] = f[i + 1]
    OBVIOUS
  <2>1. (i + 1) - 1 = i /\ i + 1 \in 1 .. n + 1 /\ (i = 0 \/ i \in 1 .. n) /\ (i = 0 <=> i + 1 = 1)
    BY <1>1
  <2>2. g[i + 1] = IF i + 1 = 1 THEN tt[i + 1] ELSE g[i] \o tt[i + 1]
    BY <1>3, <2>1
  <2>3. f[i + 1] = IF i + 1 = 1 THEN ss[i + 1] ELSE f[i] \o ss[i + 1]
    BY <1>2, <2>1
  <2> QED BY <1>1, <1>4, <2>1, <2>2, <2>3
<1>5. \A i \in 1 .. n : g[i] = f[i]
  <2> DEFINE G == {i \in Nat : i \in 1 .. n => g[i] = f[i]}
  <2>1. 0 \in G
    OBVIOUS
  <2>2. ASSUME NEW i \in Nat, i \in G PROVE i + 1 \in G
    BY <1>4, <2>2
  <2>3. Nat \subseteq G
    <3> HIDE DEF G
    <3> QED BY <2>1, <2>2, SetInduction
  <2> QED BY <1>1, <2>3
<1>6. n + 1 \in 1 .. n + 1 /\ (n + 1) - 1 = n /\ (n + 1 = 1 <=> n = 0)
  BY <1>1
<1>7. g[n + 1] = IF n = 0 THEN s ELSE g[n] \o s
  BY <1>1, <1>3, <1>6
<1>8. FlattenSeq(ss) \o s = IF n = 0 THEN s ELSE f[n] \o s
  BY <1>2
<1>9. n # 0 => g[n] = f[n]
  BY <1>1, <1>5
<1> QED BY <1>3, <1>7, <1>8, <1>9 DEF tt

\* A sequence that agrees with another and has one more element.
LEMMA IsAppend ==
  ASSUME NEW T, NEW ss \in Seq(T), NEW y \in T, NEW tt \in Seq(T),
         Len(tt) = Len(ss) + 1, \A i \in 1 .. Len(ss) : tt[i] = ss[i], tt[Len(ss) + 1] = y
  PROVE  tt = Append(ss, y)
<1> DEFINE uu == Append(ss, y)
           n  == Len(ss)
<1>1. /\ n \in Nat /\ uu \in Seq(T) /\ Len(uu) = n + 1 /\ uu[n + 1] = y
      /\ \A i \in 1 .. n : uu[i] = ss[i]
  OBVIOUS
<1>2. /\ \A i \in 1 .. n + 1 : i \in 1 .. n \/ i = n + 1
      /\ \A i \in 1 .. n : tt[i] = ss[i]
      /\ Len(tt) = n + 1 /\ tt[n + 1] = y
  BY <1>1
<1> HIDE DEF uu, n
<1>3. \A i \in 1 .. n + 1 : tt[i] = uu[i]
  BY <1>1, <1>2, Zenon
<1>4. tt = uu
  BY <1>1, <1>2, <1>3, SeqEqual
<1> QED BY <1>4 DEF uu

-----------------------------------------------------------------------------
(* Left-to-right scans of N elements that keep v[n] for every n in K: the  *)
(* form of Ends in MiniSql and of Answer in TableLog.                      *)

ScanBody(K, v, f, n) ==
  IF n = 0 THEN <<>> ELSE IF n \in K THEN Append(f[n - 1], v[n]) ELSE f[n - 1]
IsScan(N, K, v, f) == f = [n \in 0 .. N |-> ScanBody(K, v, f, n)]

\* There is such a scan.
LEMMA ScanExists ==
  ASSUME NEW N \in Nat, NEW K, NEW v
  PROVE  \E f : IsScan(N, K, v, f)
<1> DEFINE Good(m) == \E f : f = [n \in 0 .. m |-> ScanBody(K, v, f, n)]
           G == {m \in Nat : Good(m)}
<1>1. Good(0)
  <2> DEFINE f == [n \in 0 .. 0 |-> <<>>]
  <2>1. f = [n \in 0 .. 0 |-> ScanBody(K, v, f, n)]
    BY DEF ScanBody
  <2> QED BY <2>1
<1>2. ASSUME NEW m \in Nat, Good(m) PROVE Good(m + 1)
  <2>1. PICK f : f = [n \in 0 .. m |-> ScanBody(K, v, f, n)]
    BY <1>2
  <2> DEFINE g == [n \in 0 .. m + 1 |-> IF n = m + 1 THEN ScanBody(K, v, f, n) ELSE f[n]]
  <2>2. ASSUME NEW n \in 0 .. m + 1 PROVE g[n] = ScanBody(K, v, g, n)
    <3>1. n # 0 => n - 1 \in 0 .. m + 1 /\ n - 1 # m + 1
      OBVIOUS
    <3>2. n # 0 => g[n - 1] = f[n - 1]
      BY <3>1
    <3>3. ScanBody(K, v, g, n) = ScanBody(K, v, f, n)
      BY <3>2 DEF ScanBody
    <3>4. n # m + 1 => n \in 0 .. m
      OBVIOUS
    <3>5. n # m + 1 => f[n] = ScanBody(K, v, f, n)
      BY <2>1, <3>4
    <3> QED BY <3>3, <3>5
  <2>3. g = [n \in 0 .. m + 1 |-> g[n]]
    OBVIOUS
  <2> HIDE DEF g
  <2>4. g = [n \in 0 .. m + 1 |-> ScanBody(K, v, g, n)]
    BY <2>2, <2>3
  <2> QED BY <2>4
<1> HIDE DEF Good
<1>3. Nat \subseteq G
  <2>1. 0 \in G /\ \A m \in Nat : m \in G => m + 1 \in G
    BY <1>1, <1>2
  <2> HIDE DEF G
  <2> QED BY <2>1, SetInduction
<1> QED BY <1>3 DEF Good, IsScan

\* A scan that goes on by one element where another one, of the same elements,
\* ends.
LEMMA ScanOneMore ==
  ASSUME NEW N \in Nat, NEW K, NEW v, NEW L, NEW w,
         \A n \in 1 .. N : (n \in K <=> n \in L) /\ v[n] = w[n],
         NEW f, IsScan(N, K, v, f), NEW g, IsScan(N + 1, L, w, g)
  PROVE  g[N + 1] = IF N + 1 \in L THEN Append(f[N], w[N + 1]) ELSE f[N]
<1> DEFINE G == {n \in Nat : n <= N => g[n] = f[n]}
<1>0. /\ \A n \in 0 .. N : f[n] = ScanBody(K, v, f, n)
      /\ \A n \in 0 .. N + 1 : g[n] = ScanBody(L, w, g, n)
  BY DEF IsScan
<1>1. 0 \in G
  <2>1. 0 \in 0 .. N /\ 0 \in 0 .. N + 1
    OBVIOUS
  <2> QED BY <1>0, <2>1 DEF ScanBody
<1>2. ASSUME NEW n \in Nat, n \in G PROVE n + 1 \in G
  <2> SUFFICES ASSUME n + 1 <= N PROVE g[n + 1] = f[n + 1]
    OBVIOUS
  <2>1. /\ n + 1 \in 1 .. N /\ n + 1 \in 0 .. N /\ n + 1 \in 0 .. N + 1
        /\ (n + 1) - 1 = n /\ n + 1 # 0 /\ n <= N
    OBVIOUS
  <2>2. /\ f[n + 1] = IF n + 1 \in K THEN Append(f[n], v[n + 1]) ELSE f[n]
        /\ g[n + 1] = IF n + 1 \in L THEN Append(g[n], w[n + 1]) ELSE g[n]
    BY <1>0, <2>1 DEF ScanBody
  <2> QED BY <1>2, <2>1, <2>2
<1>3. N \in G
  <2> HIDE DEF G
  <2> QED BY <1>1, <1>2, SetInduction
<1>4. g[N] = f[N]
  BY <1>3
<1>5. N + 1 \in 0 .. N + 1 /\ (N + 1) - 1 = N /\ N + 1 # 0
  OBVIOUS
<1>6. g[N + 1] = ScanBody(L, w, g, N + 1)
  BY <1>0, <1>5
<1> HIDE DEF G
<1> QED BY <1>4, <1>5, <1>6 DEF ScanBody

-----------------------------------------------------------------------------
(* InOrder.                                                                *)

\* InOrder, position by position, and what it depends on.
LEMMA InOrderNext ==
  ASSUME NEW S
  PROVE  /\ InOrder(S, 0) = <<>>
         /\ \A T : \A n \in Nat : (\A k \in 1 .. n : k \in S <=> k \in T)
              => InOrder(T, n + 1) = IF n + 1 \in T THEN Append(InOrder(S, n), n + 1) ELSE InOrder(S, n)
<1> DEFINE id == [k \in Nat |-> k]
           scan(T, n) == CHOOSE f : f = [k \in 0 .. n |->
                           IF k = 0 THEN <<>> ELSE IF k \in T THEN Append(f[k - 1], k) ELSE f[k - 1]]
<1>1. ASSUME NEW T, NEW n \in Nat
      PROVE  IsScan(n, T, id, scan(T, n)) /\ InOrder(T, n) = scan(T, n)[n]
  <2>1. ASSUME NEW f
        PROVE  [k \in 0 .. n |-> ScanBody(T, id, f, k)]
                 = [k \in 0 .. n |->
                      IF k = 0 THEN <<>> ELSE IF k \in T THEN Append(f[k - 1], k) ELSE f[k - 1]]
    <3>1. ASSUME NEW k \in 0 .. n
          PROVE  ScanBody(T, id, f, k)
                   = IF k = 0 THEN <<>> ELSE IF k \in T THEN Append(f[k - 1], k) ELSE f[k - 1]
      <4>1. id[k] = k
        OBVIOUS
      <4> HIDE DEF id
      <4> QED BY <4>1 DEF ScanBody
    <3> HIDE DEF id
    <3> QED BY <3>1
  <2> HIDE DEF id
  <2>2. PICK f : IsScan(n, T, id, f)
    BY ScanExists
  <2>3. f = [k \in 0 .. n |->
               IF k = 0 THEN <<>> ELSE IF k \in T THEN Append(f[k - 1], k) ELSE f[k - 1]]
    BY <2>1, <2>2, Zenon DEF IsScan
  <2>4. scan(T, n) = [k \in 0 .. n |->
               IF k = 0 THEN <<>> ELSE IF k \in T THEN Append(scan(T, n)[k - 1], k) ELSE scan(T, n)[k - 1]]
    BY <2>3
  <2>5. InOrder(T, n) = scan(T, n)[n]
    BY DEF InOrder
  <2> HIDE DEF scan
  <2> QED BY <2>1, <2>4, <2>5 DEF IsScan
<1> HIDE DEF scan
<1>2. InOrder(S, 0) = <<>>
  <2>1. scan(S, 0)[0] = ScanBody(S, id, scan(S, 0), 0)
    <3> HIDE DEF id
    <3> QED BY <1>1 DEF IsScan
  <2> QED BY <1>1, <2>1 DEF ScanBody
<1>3. ASSUME NEW n \in Nat, NEW T, \A k \in 1 .. n : k \in S <=> k \in T
      PROVE  InOrder(T, n + 1) = IF n + 1 \in T THEN Append(InOrder(S, n), n + 1) ELSE InOrder(S, n)
  <2>1. PICK f, g : f = scan(S, n) /\ g = scan(T, n + 1)
    OBVIOUS
  <2>2. id[n + 1] = n + 1
    OBVIOUS
  <2> HIDE DEF id
  <2>3. IsScan(n, S, id, f) /\ IsScan(n + 1, T, id, g) /\ InOrder(S, n) = f[n] /\ InOrder(T, n + 1) = g[n + 1]
    BY <1>1, <2>1
  <2>4. \A k \in 1 .. n : (k \in S <=> k \in T) /\ id[k] = id[k]
    BY <1>3
  <2>5. g[n + 1] = IF n + 1 \in T THEN Append(f[n], id[n + 1]) ELSE f[n]
    BY <2>3, <2>4, ScanOneMore
  <2> QED BY <2>2, <2>3, <2>5
<1> QED BY <1>2, <1>3

\* Sets with the same positions are put into the same order.
LEMMA InOrderSame ==
  ASSUME NEW n \in Nat, NEW S, NEW T, \A k \in 1 .. n : k \in S <=> k \in T
  PROVE  InOrder(S, n) = InOrder(T, n)
<1>1. CASE n = 0
  BY <1>1, InOrderNext
<1>2. CASE n # 0
  <2>1. PICK m \in Nat : n = m + 1
    <3>1. n - 1 \in Nat /\ n = (n - 1) + 1
      BY <1>2
    <3> QED BY <3>1
  <2>2. (\A k \in 1 .. m : k \in S <=> k \in T) /\ (m + 1 \in S <=> m + 1 \in T)
    BY <2>1
  <2>3. \A k \in 1 .. m : k \in S <=> k \in S
    OBVIOUS
  <2>4. /\ InOrder(T, m + 1) = IF m + 1 \in T THEN Append(InOrder(S, m), m + 1) ELSE InOrder(S, m)
        /\ InOrder(S, m + 1) = IF m + 1 \in S THEN Append(InOrder(S, m), m + 1) ELSE InOrder(S, m)
    BY <2>2, <2>3, InOrderNext
  <2> QED BY <2>1, <2>2, <2>4
<1> QED BY <1>1, <1>2

\* One position more.
LEMMA InOrderSnoc ==
  ASSUME NEW n \in Nat, NEW S
  PROVE  /\ InOrder(S, 0) = <<>>
         /\ n + 1 \in S => InOrder(S, n + 1) = Append(InOrder(S, n), n + 1)
         /\ n + 1 \notin S => InOrder(S, n + 1) = InOrder(S, n)
<1>1. \A k \in 1 .. n : k \in S <=> k \in S
  OBVIOUS
<1>2. InOrder(S, n + 1) = IF n + 1 \in S THEN Append(InOrder(S, n), n + 1) ELSE InOrder(S, n)
  BY <1>1, InOrderNext
<1> QED BY <1>2, InOrderNext

LEMMA InOrderType ==
  ASSUME NEW n \in Nat, NEW S
  PROVE  InOrder(S, n) \in Seq(S \cap 1 .. n)
<1> DEFINE G == {m \in Nat : InOrder(S, m) \in Seq(S \cap 1 .. m)}
<1>1. 0 \in G
  <2>1. InOrder(S, 0) = <<>>
    BY InOrderSnoc
  <2>2. <<>> \in Seq(S \cap 1 .. 0)
    OBVIOUS
  <2> QED BY <2>1, <2>2
<1>2. ASSUME NEW m \in Nat, m \in G PROVE m + 1 \in G
  <2>1. PICK e : e = InOrder(S, m)
    OBVIOUS
  <2>2. e \in Seq(S \cap 1 .. m + 1)
    <3>1. e \in Seq(S \cap 1 .. m) /\ S \cap 1 .. m \subseteq S \cap 1 .. m + 1
      BY <1>2, <2>1
    <3> QED BY <3>1, SeqSubset
  <2>3. m + 1 \in S => Append(e, m + 1) \in Seq(S \cap 1 .. m + 1)
    <3>1. m + 1 \in S => m + 1 \in S \cap 1 .. m + 1
      OBVIOUS
    <3> QED BY <2>2, <3>1
  <2>4. InOrder(S, m + 1) = IF m + 1 \in S THEN Append(e, m + 1) ELSE e
    BY <2>1, InOrderSnoc
  <2>5. InOrder(S, m + 1) \in Seq(S \cap 1 .. m + 1)
    BY <2>2, <2>3, <2>4, Zenon
  <2>6. m + 1 \in Nat
    OBVIOUS
  <2> QED BY <2>5, <2>6, Zenon
<1>3. Nat \subseteq G
  <2> HIDE DEF G
  <2> QED BY <1>1, <1>2, SetInduction
<1> QED BY <1>3

\* Without members there is nothing to put into order.
LEMMA InOrderNone ==
  ASSUME NEW n \in Nat, NEW S, S \cap 1 .. n = {}
  PROVE  InOrder(S, n) = <<>>
<1>1. InOrder(S, n) \in Seq({})
  BY InOrderType
<1> QED BY <1>1

\* The least member comes first.
LEMMA InOrderCons ==
  ASSUME NEW n \in Nat, NEW S, NEW i \in S, i \in 1 .. n, S \cap 1 .. i - 1 = {}
  PROVE  InOrder(S, n) = <<i>> \o InOrder(S \ {i}, n)
<1> DEFINE T == S \ {i}
           G == {m \in Nat : InOrder(S, i + m) = <<i>> \o InOrder(T, i + m)}
<1>0. i \in Nat /\ i - 1 \in Nat /\ i = (i - 1) + 1
  OBVIOUS
<1>1. 0 \in G
  <2>1. InOrder(S, i - 1) = <<>> /\ InOrder(T, i - 1) = <<>>
    <3>1. T \cap 1 .. i - 1 = {}
      OBVIOUS
    <3> HIDE DEF T
    <3> QED BY <1>0, <3>1, InOrderNone
  <2>2. PICK j \in Nat : j = i - 1 /\ i = j + 1
    BY <1>0
  <2>3. InOrder(S, i) = Append(<<>>, i) /\ InOrder(T, i) = <<>>
    <3>1. j + 1 \in S /\ j + 1 \notin T
      BY <2>2
    <3> HIDE DEF T
    <3>2. InOrder(S, j + 1) = Append(InOrder(S, j), j + 1) /\ InOrder(T, j + 1) = InOrder(T, j)
      BY <3>1, InOrderSnoc
    <3> QED BY <2>1, <2>2, <3>2
  <2>4. i + 0 = i /\ Append(<<>>, i) = <<i>> \o <<>>
    BY <1>0
  <2> HIDE DEF T
  <2> QED BY <2>3, <2>4
<1>2. ASSUME NEW m \in Nat, m \in G PROVE m + 1 \in G
  <2>1. PICK j \in Nat : j = i + m /\ i + (m + 1) = j + 1 /\ j + 1 # i
    BY <1>0
  <2>2. j + 1 \in S <=> j + 1 \in T
    BY <2>1
  <2>3. PICK e : e = InOrder(T, j) /\ e \in Seq(Nat)
    <3> HIDE DEF T
    <3>1. PICK e, A : e = InOrder(T, j) /\ A = T \cap 1 .. j
      OBVIOUS
    <3>2. e \in Seq(A) /\ A \subseteq Nat
      BY <2>1, <3>1, InOrderType
    <3>3. e \in Seq(Nat)
      BY <3>2, SeqSubset
    <3> QED BY <3>1, <3>3
  <2>4. InOrder(S, j) = <<i>> \o e
    BY <1>2, <2>1, <2>3
  <2>5. Append(<<i>> \o e, j + 1) = <<i>> \o Append(e, j + 1)
    BY <1>0, <2>3
  <2> HIDE DEF T
  <2>6. InOrder(S, j + 1) = <<i>> \o InOrder(T, j + 1)
    BY <2>2, <2>3, <2>4, <2>5, InOrderSnoc
  <2> QED BY <2>1, <2>6
<1>3. n - i \in G
  <2>1. Nat \subseteq G
    <3> HIDE DEF G
    <3> QED BY <1>1, <1>2, SetInduction
  <2>2. n - i \in Nat
    BY <1>0
  <2> HIDE DEF G
  <2> QED BY <2>1, <2>2
<1>4. i + (n - i) = n
  BY <1>0
<1> QED BY <1>3, <1>4

\* A function whose domain is that of a sequence is one.
LEMMA IsSequence ==
  ASSUME NEW T, NEW n \in Nat, NEW f, f = [k \in 1 .. n |-> f[k]], \A k \in 1 .. n : f[k] \in T
  PROVE  f \in Seq(T) /\ Len(f) = n /\ DOMAIN f = 1 .. n
  OBVIOUS

\* Where the elements of two sequences are when one follows the other.
LEMMA ConcatIs ==
  ASSUME NEW T, NEW u \in Seq(T), NEW x \in Seq(T)
  PROVE  /\ u \o x \in Seq(T) /\ Len(u \o x) = Len(u) + Len(x)
         /\ \A i \in 1 .. Len(u) : (u \o x)[i] = u[i]
         /\ \A i \in 1 .. Len(x) : (u \o x)[Len(u) + i] = x[i]
  OBVIOUS

\* A stretch of a sequence.
LEMMA StretchIs ==
  ASSUME NEW T, NEW u \in Seq(T), NEW a \in 1 .. Len(u) + 1, NEW b \in a - 1 .. Len(u)
  PROVE  /\ SubSeq(u, a, b) \in Seq(T) /\ Len(SubSeq(u, a, b)) = b - a + 1
         /\ \A i \in 1 .. b - a + 1 : SubSeq(u, a, b)[i] = u[a + i - 1]
<1>1. a \in Int /\ b \in Int /\ \A i \in a .. b : u[i] \in T
  OBVIOUS
<1>2. (IF a <= b THEN b - a + 1 ELSE 0) = b - a + 1
  OBVIOUS
<1> QED BY <1>1, <1>2, SubSeqProperties

-----------------------------------------------------------------------------
(* More of InOrder.                                                        *)

\* Positions that are not members add nothing.
LEMMA InOrderGap ==
  ASSUME NEW i \in Nat, NEW j \in Nat, i <= j, NEW S, S \cap i + 1 .. j = {}
  PROVE  InOrder(S, j) = InOrder(S, i)
<1> DEFINE G == {m \in Nat : i + m <= j => InOrder(S, i + m) = InOrder(S, i)}
<1>1. 0 \in G
  <2>1. i + 0 = i
    OBVIOUS
  <2> QED BY <2>1
<1>2. ASSUME NEW m \in Nat, m \in G PROVE m + 1 \in G
  <2> SUFFICES ASSUME i + (m + 1) <= j PROVE InOrder(S, i + (m + 1)) = InOrder(S, i)
    OBVIOUS
  <2>1. PICK k \in Nat : k = i + m /\ i + (m + 1) = k + 1 /\ k <= j /\ k + 1 \in i + 1 .. j
    OBVIOUS
  <2>2. InOrder(S, k) = InOrder(S, i)
    BY <1>2, <2>1
  <2>3. k + 1 \notin S
    BY <2>1
  <2>4. InOrder(S, k + 1) = InOrder(S, k)
    BY <2>3, InOrderSnoc
  <2> QED BY <2>1, <2>2, <2>4
<1>3. j - i \in G
  <2>1. Nat \subseteq G
    <3> HIDE DEF G
    <3> QED BY <1>1, <1>2, SetInduction
  <2>2. j - i \in Nat
    OBVIOUS
  <2> HIDE DEF G
  <2> QED BY <2>1, <2>2
<1>4. i + (j - i) = j
  OBVIOUS
<1> QED BY <1>3, <1>4

\* The one member after others comes last.
LEMMA InOrderLast ==
  ASSUME NEW n \in Nat, NEW m \in Nat, n < m, NEW S, NEW T,
         \A k \in 1 .. n : k \in S <=> k \in T,
         T \cap n + 1 .. m = {m}
  PROVE  InOrder(T, m) = Append(InOrder(S, n), m)
<1>1. PICK l \in Nat : m = l + 1 /\ n <= l
  <2>1. m - 1 \in Nat /\ m = (m - 1) + 1 /\ n <= m - 1
    OBVIOUS
  <2> QED BY <2>1
<1>2. l + 1 \in T /\ T \cap n + 1 .. l = {}
  <2>1. m \in T
    OBVIOUS
  <2>2. ASSUME NEW k \in T, k \in n + 1 .. l PROVE FALSE
    <3>1. k \in n + 1 .. m /\ k # m
      BY <1>1, <2>2
    <3> QED BY <2>2, <3>1
  <2> QED BY <1>1, <2>1, <2>2
<1>3. InOrder(T, l + 1) = Append(InOrder(T, l), l + 1)
  BY <1>2, InOrderSnoc
<1>4. InOrder(T, l) = InOrder(T, n)
  BY <1>1, <1>2, InOrderGap
<1>5. InOrder(T, n) = InOrder(S, n)
  BY InOrderSame
<1> QED BY <1>1, <1>3, <1>4, <1>5

\* The order is ascending.
LEMMA InOrderAscends ==
  ASSUME NEW n \in Nat, NEW S
  PROVE  \A k \in 2 .. Len(InOrder(S, n)) : InOrder(S, n)[k - 1] < InOrder(S, n)[k]
<1> DEFINE Good(e) == \A k \in 2 .. Len(e) : e[k - 1] < e[k]
           G == {m \in Nat : Good(InOrder(S, m))}
<1>1. 0 \in G
  BY InOrderSnoc
<1>2. ASSUME NEW m \in Nat, m \in G PROVE m + 1 \in G
  <2>1. PICK e, D, z : e = InOrder(S, m) /\ D = S \cap 1 .. m /\ z = Len(e)
    OBVIOUS
  <2>2. e \in Seq(D) /\ z \in Nat /\ D \subseteq 1 .. m
    BY <2>1, InOrderType
  <2>3. PICK f : f = Append(e, m + 1)
    OBVIOUS
  <2>4. /\ Len(f) = z + 1 /\ f[z + 1] = m + 1
        /\ \A k \in 1 .. z : f[k] = e[k] /\ e[k] \in 1 .. m
    <3>1. e \in Seq(1 .. m + 1) /\ m + 1 \in 1 .. m + 1
      <4>1. PICK B : B = 1 .. m + 1
        OBVIOUS
      <4>2. D \subseteq B /\ m + 1 \in B
        BY <2>2, <4>1
      <4>3. e \in Seq(B)
        BY <2>2, <4>2, SeqSubset
      <4> QED BY <4>1, <4>2, <4>3
    <3>2. \A k \in 1 .. z : e[k] \in 1 .. m
      BY <2>1, <2>2
    <3> QED BY <2>1, <2>3, <3>1, <3>2
  <2>5. ASSUME NEW k \in 2 .. z + 1 PROVE f[k - 1] < f[k]
    <3>1. k - 1 \in 1 .. z /\ (k \in 2 .. z \/ k = z + 1)
      BY <2>2
    <3>2. k \in 2 .. z => k \in 1 .. z /\ e[k - 1] < e[k]
      BY <1>2, <2>1
    <3> QED BY <2>4, <3>1, <3>2
  <2>6. Good(f) /\ Good(e)
    BY <1>2, <2>1, <2>4, <2>5
  <2>7. InOrder(S, m + 1) = IF m + 1 \in S THEN f ELSE e
    BY <2>1, <2>3, InOrderSnoc
  <2>8. m + 1 \in Nat
    OBVIOUS
  <2> HIDE DEF Good
  <2> QED BY <2>6, <2>7, <2>8
<1>3. Nat \subseteq G
  <2> HIDE DEF G
  <2> QED BY <1>1, <1>2, SetInduction
<1> QED BY <1>3

-----------------------------------------------------------------------------
(* Where the pieces of a text that is flattened are.                       *)

Offsets(ss, at) ==
  at[0] = 0 /\ \A k \in 1 .. Len(ss) : at[k - 1] \in Nat /\ at[k] = at[k - 1] + Len(ss[k])

Laid(text, ss, at) ==
  /\ Len(text) = at[Len(ss)]
  /\ \A k \in 1 .. Len(ss) : \A j \in 1 .. Len(ss[k]) : text[at[k - 1] + j] = ss[k][j]

LEMMA OffsetsExist ==
  ASSUME NEW S, NEW ss \in Seq(Seq(S))
  PROVE  \E at \in [0 .. Len(ss) -> Nat] : Offsets(ss, at)
<1>1. PICK f : /\ \A n \in 1 .. Len(ss) :
                     /\ f[n] \in Seq(S)
                     /\ f[n] = IF n = 1 THEN ss[n] ELSE f[n - 1] \o ss[n]
               /\ FlattenSeq(ss) = IF Len(ss) = 0 THEN <<>> ELSE f[Len(ss)]
  BY FlattenSeqScan
<1>2. PICK at : at = [k \in 0 .. Len(ss) |-> IF k = 0 THEN 0 ELSE Len(f[k])]
  OBVIOUS
<1>3. at \in [0 .. Len(ss) -> Nat]
  <2>1. ASSUME NEW k \in 0 .. Len(ss) PROVE (IF k = 0 THEN 0 ELSE Len(f[k])) \in Nat
    <3>1. k # 0 => f[k] \in Seq(S)
      BY <1>1
    <3> QED BY <3>1
  <2> QED BY <1>2, <2>1
<1>4. ASSUME NEW k \in 1 .. Len(ss) PROVE at[k - 1] \in Nat /\ at[k] = at[k - 1] + Len(ss[k])
  <2>1. k \in 0 .. Len(ss) /\ k - 1 \in 0 .. Len(ss) /\ k # 0
    OBVIOUS
  <2>2. at[k] = Len(f[k]) /\ at[k - 1] = IF k - 1 = 0 THEN 0 ELSE Len(f[k - 1])
    BY <1>2, <2>1
  <2>3. CASE k = 1
    <3>1. f[k] = ss[k] /\ ss[k] \in Seq(S)
      BY <1>1, <2>3
    <3> QED BY <2>2, <2>3, <3>1
  <2>4. CASE k # 1
    <3>1. k - 1 \in 1 .. Len(ss) /\ k - 1 # 0
      BY <2>4
    <3>2. f[k] = f[k - 1] \o ss[k] /\ f[k - 1] \in Seq(S) /\ ss[k] \in Seq(S)
      <4>1. f[k] = IF k = 1 THEN ss[k] ELSE f[k - 1] \o ss[k]
        BY <1>1
      <4>2. f[k - 1] \in Seq(S) /\ ss[k] \in Seq(S)
        BY <1>1, <3>1
      <4> QED BY <2>4, <4>1, <4>2
    <3> QED BY <2>2, <3>1, <3>2
  <2> QED BY <2>3, <2>4
<1>5. at[0] = 0
  BY <1>2
<1> QED BY <1>3, <1>4, <1>5 DEF Offsets

LEMMA FlattenSeqAt ==
  ASSUME NEW S, NEW ss \in Seq(Seq(S)), NEW at \in [0 .. Len(ss) -> Nat], Offsets(ss, at)
  PROVE  Laid(FlattenSeq(ss), ss, at)
<1>1. PICK f : /\ \A n \in 1 .. Len(ss) :
                     /\ f[n] \in Seq(S)
                     /\ f[n] = IF n = 1 THEN ss[n] ELSE f[n - 1] \o ss[n]
               /\ FlattenSeq(ss) = IF Len(ss) = 0 THEN <<>> ELSE f[Len(ss)]
  BY FlattenSeqScan
<1> DEFINE Placed(n, k) == \A j \in 1 .. Len(ss[k]) : f[n][at[k - 1] + j] = ss[k][j]
           Good(n) == Len(f[n]) = at[n] /\ \A k \in 1 .. n : at[k] <= at[n] /\ Placed(n, k)
           G == {n \in Nat : n \in 1 .. Len(ss) => Good(n)}
<1>2. ASSUME NEW n \in Nat, n \in G, n + 1 \in 1 .. Len(ss) PROVE Good(n + 1)
  <2>1. PICK m : m = n + 1
    OBVIOUS
  <2>2. /\ m \in 1 .. Len(ss) /\ m - 1 = n /\ at[n] \in Nat /\ at[m] = at[n] + Len(ss[m])
        /\ f[m] \in Seq(S) /\ ss[m] \in Seq(S) /\ Len(ss[m]) \in Nat /\ at[m] \in Nat
    <3>1. m \in 1 .. Len(ss) /\ m - 1 = n
      BY <1>2, <2>1
    <3>2. f[m] \in Seq(S) /\ ss[m] \in Seq(S) /\ Len(ss[m]) \in Nat
      BY <1>1, <3>1
    <3>3. at[n] \in Nat /\ at[m] = at[n] + Len(ss[m])
      BY <3>1 DEF Offsets
    <3> QED BY <3>1, <3>2, <3>3
  <2>3. CASE n = 0
    <3>1. f[m] = ss[m] /\ at[n] = 0 /\ at[m] = Len(ss[m])
      BY <1>1, <2>1, <2>2, <2>3 DEF Offsets
    <3>2. ASSUME NEW k \in 1 .. m PROVE at[k] <= at[m] /\ Placed(m, k)
      <4>1. k = m
        BY <2>1, <2>3
      <4> QED BY <2>2, <3>1, <4>1
    <3> HIDE DEF Placed
    <3> QED BY <2>1, <3>1, <3>2
  <2>4. CASE n # 0
    <3>1. n \in 1 .. Len(ss) /\ m # 1 /\ n \in Nat
      BY <1>2, <2>1, <2>4
    <3>2. f[m] = f[n] \o ss[m] /\ f[n] \in Seq(S)
      BY <1>1, <2>2, <3>1
    <3>3. Good(n)
      BY <1>2, <3>1
    <3>4. PICK a, b : a = f[n] /\ b = ss[m]
      OBVIOUS
    <3>5. /\ a \in Seq(S) /\ b \in Seq(S) /\ Len(a) = at[n] /\ Len(a) \in Nat /\ Len(b) \in Nat
          /\ f[m] = a \o b /\ at[m] = Len(a) + Len(b)
      BY <2>2, <3>2, <3>3, <3>4
    <3>6. /\ Len(f[m]) = at[m]
          /\ \A i \in 1 .. Len(a) : f[m][i] = a[i]
          /\ \A i \in 1 .. Len(b) : f[m][Len(a) + i] = b[i]
      <4>1. PICK c : c = a \o b
        OBVIOUS
      <4>2. a \in Seq(S) /\ b \in Seq(S)
        BY <3>5
      <4>3. /\ Len(c) = Len(a) + Len(b)
            /\ \A i \in 1 .. Len(a) : c[i] = a[i]
            /\ \A i \in 1 .. Len(b) : c[Len(a) + i] = b[i]
        BY <4>1, <4>2
      <4> QED BY <3>5, <4>1, <4>3
    <3>7. ASSUME NEW k \in 1 .. m PROVE at[k] <= at[m] /\ Placed(m, k)
      <4>1. CASE k = m
        <5>1. at[k - 1] = Len(a) /\ ss[k] = b
          BY <2>2, <3>4, <3>5, <4>1
        <5>2. at[k] <= at[m]
          BY <2>2, <4>1
        <5> QED BY <3>6, <5>1, <5>2
      <4>2. CASE k # m
        <5>1. k \in 1 .. n /\ k \in 1 .. Len(ss)
          BY <2>1, <3>1, <4>2
        <5>2. at[k] <= at[n] /\ Placed(n, k)
          BY <3>3, <5>1
        <5>3. at[k - 1] \in Nat /\ at[k] = at[k - 1] + Len(ss[k]) /\ ss[k] \in Seq(S) /\ Len(ss[k]) \in Nat
          BY <5>1 DEF Offsets
        <5>4. at[k] <= at[m]
          <6>1. PICK x, y, z : x = at[k] /\ y = at[n] /\ z = at[m]
            OBVIOUS
          <6>2. x \in Nat /\ y \in Nat /\ x <= y /\ z = y + Len(ss[m]) /\ Len(ss[m]) \in Nat
            <7>1. x \in Nat
              BY <5>3, <6>1
            <7> QED BY <2>2, <5>2, <6>1, <7>1, Zenon
          <6>3. x <= z
            BY <6>2
          <6> QED BY <6>1, <6>3
        <5>5. ASSUME NEW j \in 1 .. Len(ss[k]) PROVE f[m][at[k - 1] + j] = ss[k][j]
          <6>1. at[k - 1] + j \in 1 .. Len(a)
            <7>1. PICK p, l, q, z : p = at[k - 1] /\ l = Len(ss[k]) /\ q = at[k] /\ z = Len(a)
              OBVIOUS
            <7>2. p \in Nat /\ l \in Nat /\ q = p + l /\ z \in Nat /\ q <= z /\ j \in 1 .. l
              BY <3>5, <5>2, <5>3, <7>1
            <7>3. p + j \in 1 .. z
              BY <7>2
            <7> QED BY <7>1, <7>3
          <6>2. f[n][at[k - 1] + j] = ss[k][j]
            BY <5>2
          <6> QED BY <3>4, <3>6, <6>1, <6>2
        <5> QED BY <5>4, <5>5
      <4> QED BY <4>1, <4>2
    <3> HIDE DEF Placed
    <3> QED BY <2>1, <3>6, <3>7
  <2> QED BY <2>3, <2>4
<1>3. Nat \subseteq G
  <2>1. 0 \in G
    OBVIOUS
  <2>2. ASSUME NEW n \in Nat, n \in G PROVE n + 1 \in G
    <3> HIDE DEF Good
    <3> QED BY <1>2, <2>2
  <2> HIDE DEF G
  <2> QED BY <2>1, <2>2, SetInduction
<1>4. CASE Len(ss) = 0
  BY <1>1, <1>4 DEF Offsets, Laid
<1>5. CASE Len(ss) # 0
  <2>1. Len(ss) \in 1 .. Len(ss) /\ Len(ss) \in Nat
    BY <1>5
  <2>2. Len(ss) \in G
    <3> HIDE DEF G
    <3> QED BY <1>3, <2>1
  <2>3. Good(Len(ss))
    BY <2>1, <2>2
  <2>4. FlattenSeq(ss) = f[Len(ss)]
    BY <1>1, <1>5
  <2> QED BY <2>3, <2>4 DEF Laid
<1> QED BY <1>4, <1>5
=============================================================================
