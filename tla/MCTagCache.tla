----------------------------- MODULE MCTagCache -----------------------------
(* Constants and symmetry for the TLC runs of TagCache.                    *)
EXTENDS TagCache, TLC

(* Every entry carries every tag. *)
AllTags == [k \in Keys |-> Tags]

(* Pods, and the slots of a pod, are interchangeable. *)
Symmetry == Permutations(Pods) \cup Permutations(Slots)
=============================================================================
