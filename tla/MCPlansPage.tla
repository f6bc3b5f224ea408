---------------------------- MODULE MCPlansPage ----------------------------
(* Instances of PlansPage for TLC.                                           *)
EXTENDS PlansPage, TLC

\* The first plan has a policy without prune and a typed schedule; the second is
\* plain, and may be missing. The other ids are free.
FirstRow  == [name |-> "a", contents |-> "x", schedule |-> "odd", keep |-> TRUE,
              prune |-> FALSE, enabled |-> TRUE]
SecondRow == [name |-> "b", contents |-> "y", schedule |-> "", keep |-> FALSE,
              prune |-> FALSE, enabled |-> FALSE]
StartTables ==
    [ids : {{1}, {1, 2}}, row : {[p \in Plans |-> IF p = 1 THEN FirstRow ELSE SecondRow]}]
=============================================================================
