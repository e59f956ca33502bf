-------------------------- MODULE MCCircuitBreaker --------------------------
(* Model values and symmetry for the TLC runs of CircuitBreaker.           *)
EXTENDS CircuitBreaker, TLC

(* Pods and calls are interchangeable: no action names one.                *)
Symmetry == Permutations(Pods) \cup Permutations(Calls)
=============================================================================
