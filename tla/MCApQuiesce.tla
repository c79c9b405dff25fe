----------------------------- MODULE MCApQuiesce -----------------------------
(* ApQuiesce with named runs, and the router each of them arms. *)
EXTENDS ApQuiesce

CONSTANTS a, b

\* Run a arms router 1, any other run router 2.
OwnTarget == [w \in ArmRun |-> IF w = a THEN 1 ELSE 2]
=============================================================================
