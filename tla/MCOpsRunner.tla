----------------------------- MODULE MCOpsRunner -----------------------------
(* Instances of OpsRunner for TLC. Repositories and plans are model values;  *)
(* the kinds and the faults of a run are given in its .cfg.                  *)
EXTENDS OpsRunner, TLC

\* Repositories are interchangeable (no run checks liveness with it).
Symmetry == Permutations(Repos)
=============================================================================
