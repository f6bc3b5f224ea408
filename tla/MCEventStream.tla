---------------------------- MODULE MCEventStream ----------------------------
(* Instances of EventStream for TLC: operations are model values.            *)
EXTENDS EventStream, TLC
=============================================================================
