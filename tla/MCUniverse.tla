------------------------------ MODULE MCUniverse ------------------------------
(***************************************************************************)
(* Instance of TypeRegistry and Universe for TLC: the range [-1..1] and,   *)
(* with bounds that are not in order, [1..-1].                             *)
(***************************************************************************)
EXTENDS Universe

Descending == CHOOSE range \in Interval : TRUE

MCFrom == [range \in Interval |-> IF range = Descending THEN 1 ELSE -1]
MCTo == [range \in Interval |-> -MCFrom[range]]
=============================================================================
