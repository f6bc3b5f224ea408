------------------------------ MODULE MCPages ------------------------------
(* Instances of Pages for TLC.                                               *)
EXTENDS Pages

\* Two operations have ended, the third is live, the fourth will start.
Tables == {[p \in Ops |-> IF p <= 2 THEN "ended" ELSE IF p = 3 THEN "live" ELSE "none"]}
=============================================================================
