----------------------------- MODULE MCScheduler -----------------------------
(* Instances of Scheduler for TLC. Every finite set of a run is given in its *)
(* .cfg by model values.                                                     *)
EXTENDS Scheduler, TLC

\* Request slots are interchangeable (not used where liveness is checked).
Symmetry == Permutations(Requests)
=============================================================================
