---------------------------- MODULE MCRunQueues ----------------------------
(* The instance of RunQueues that TLC checks: p3 has an affinity to t1. *)
EXTENDS RunQueues

CONSTANTS t1, p3

MCHome == [p \in Procs |-> IF p = p3 THEN t1 ELSE NULL]

=============================================================================
