----------------------------- MODULE Characters -----------------------------
(***************************************************************************)
(* Texts.  A text is a sequence of characters; only the characters that    *)
(* the file format or SQL give a meaning to are named, the others are      *)
(* whatever Char contains besides them.                                    *)
(***************************************************************************)
EXTENDS Naturals, SequencesExt

CONSTANTS Char,        \* the characters of a file; never NUL, a C string ends there
          ToLower      \* tolower() of the C library, character by character

ASSUME ToLowerAssumption == ToLower \in [Char -> Char]

Bslash == "bslash"
LF     == "LF"
CR     == "CR"

Text == Seq(Char)

\* sql_stricmp(left, right) == 0
SameName(left, right) ==
  /\ Len(left) = Len(right)
  /\ \A i \in DOMAIN left : ToLower[left[i]] = ToLower[right[i]]
=============================================================================
