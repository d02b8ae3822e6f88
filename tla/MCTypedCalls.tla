----------------------------- MODULE MCTypedCalls -----------------------------
(***************************************************************************)
(* Instance of TypedCalls for TLC: two widths, integers with and without a *)
(* range, and lists whose elements "at" is registered for and is not.      *)
(***************************************************************************)
EXTENDS TypedCalls, TLC

MCType ==
  {BOOLEAN_TYPE, INTEGER, RangedInteger, STRING_TYPE, Enumeration("e"),
   ListOf(INTEGER), ListOf(STRING_TYPE)} \cup { Binary(n) : n \in Bitsize }

MCSymmetry == Permutations(Register)
=============================================================================
