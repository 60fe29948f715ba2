------------------------------ MODULE Ordered ------------------------------
(***************************************************************************)
(* The members of a set of positions, in order: what the definitions use   *)
(* that look at a text as a whole and not from left to right.              *)
(***************************************************************************)
EXTENDS Naturals, Sequences

\* The members of S among 1 .. n.
InOrder(S, n) ==
  LET list[k \in 0 .. n] ==
        IF k = 0 THEN <<>> ELSE IF k \in S THEN Append(list[k - 1], k) ELSE list[k - 1]
  IN  list[n]
=============================================================================
