------------------- MODULE MCSymbolicExecutionEnvironment -------------------
(***************************************************************************)
(* Instance of SymbolicExecutionEnvironment for TLC: location 2 has an     *)
(* argument without TPTP literal and comes last in the order of the maps.  *)
(***************************************************************************)
EXTENDS SymbolicExecutionEnvironment

MCLocation == 1..2
MCUnsupported == {2}
MCLiteral == {5}
=============================================================================
