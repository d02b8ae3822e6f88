---------------------------- MODULE PowersOfTwo ----------------------------
(***************************************************************************)
(* Powers of two, as a recursive function: the exponentiation of Naturals  *)
(* means nothing to the provers.                                           *)
(***************************************************************************)
EXTENDS Integers

PowerOf2(n) == LET power[m \in 0 .. n] == IF m = 0 THEN 1 ELSE 2 * power[m - 1] IN power[n]
=============================================================================
