--------------------------- MODULE UpdateSetStore ---------------------------
(***************************************************************************)
(* What a symbolic run is promised of its function locations, whatever     *)
(* maps keep it: updates of a step are collected and take effect together  *)
(* with the next step; a read is of the version the last committed update  *)
(* of the location made, version 1 being the initial state; when the run   *)
(* is closed every updated location is tied to the final version 0 by one  *)
(* and the same fresh atom.  trace is the set of facts                     *)
(* [time, location, atom] handed to the prover.                            *)
(***************************************************************************)
EXTENDS Integers

CONSTANTS Location

VARIABLES clock, version, updates, trace, closed

storeVars == << clock, version, updates, trace, closed >>

Init ==
  /\ clock = 1
  /\ version = [l \in Location |-> 1]
  /\ updates = {}
  /\ trace = {}
  /\ closed = FALSE

Fact(t, l, a) == [time |-> t, location |-> l, atom |-> a]
Fresh(a) == \A e \in trace : e.atom # a
New == trace' \ trace

Read(l) ==
  /\ ~closed
  /\ trace \subseteq trace'
  /\ \E e \in New : /\ New = {e}
                    /\ e = Fact(version[l], l, e.atom)
                    /\ Fresh(e.atom)
  /\ UNCHANGED << clock, version, updates, closed >>

Write(l) ==
  /\ ~closed
  /\ trace \subseteq trace'
  /\ \A e \in New : e = Fact(clock, l, e.atom)
  /\ updates' = updates \cup {l}
  /\ UNCHANGED << clock, version, closed >>

Commit ==
  /\ ~closed
  /\ clock' = clock + 1
  /\ version' = [l \in Location |-> IF l \in updates THEN clock ELSE version[l]]
  /\ updates' = {}
  /\ UNCHANGED << trace, closed >>

Close ==
  /\ ~closed
  /\ updates = {}
  /\ closed' = TRUE
  /\ trace \subseteq trace'
  /\ \A l \in Location : version[l] > 1 =>
       \E e \in New : e = Fact(0, l, e.atom)
  /\ \A e \in New :
       /\ Fresh(e.atom)
       /\ e.time \in {0, version[e.location]}
       /\ Fact(0, e.location, e.atom) \in New
       /\ Fact(version[e.location], e.location, e.atom) \in New
       /\ \A d \in New : d.atom = e.atom => d.location = e.location
  /\ UNCHANGED << clock, updates >>

Next ==
  \/ \E l \in Location : Read(l) \/ Write(l)
  \/ Commit
  \/ Close

Spec == Init /\ [][Next]_storeVars
=============================================================================
