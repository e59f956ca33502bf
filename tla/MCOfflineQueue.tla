--------------------------- MODULE MCOfflineQueue ---------------------------
(* Symmetry for the TLC runs of OfflineQueue.                              *)
EXTENDS OfflineQueue, TLC

(* Mutations are told apart by the order they are queued in alone, tabs    *)
(* and listener runs by nothing.                                           *)
Symmetry == Permutations(Mutations) \cup Permutations(Tabs) \cup Permutations(Listeners)
=============================================================================
