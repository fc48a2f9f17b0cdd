----------------------------- MODULE MCBreaker ------------------------------
(* Instances of CircuitBreaker for TLC. *)
EXTENDS CircuitBreaker
CONSTANTS t1, t2
=============================================================================
