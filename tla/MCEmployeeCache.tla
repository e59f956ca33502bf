--------------------------- MODULE MCEmployeeCache ---------------------------
(* Symmetry for the TLC runs of EmployeeCache.                             *)
EXTENDS EmployeeCache, TLC

(* Pods, and the slots of a pod, are interchangeable. *)
Symmetry == Permutations(Pods) \cup Permutations(Slots)
=============================================================================
