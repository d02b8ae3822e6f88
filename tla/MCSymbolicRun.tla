--------------------------- MODULE MCSymbolicRun ---------------------------
(***************************************************************************)
(* Instance of SymbolicRun for TLC: two locations over two values, one     *)
(* operator, which adds modulo 2.                                          *)
(***************************************************************************)
EXTENDS SymbolicRun

MCLocation == 1..2
MCLiteral == {1}
MCValue == {0, 1}
MCMeaning == [op \in Operator |-> [p \in Value \X Value |-> (p[1] + p[2]) % 2]]
=============================================================================
