---------------------------- MODULE MCCacheWrap -----------------------------
(* Settings and symmetry for the TLC run of CacheWrap.                     *)
EXTENDS CacheWrap, TLC

(* Failures, of the lock and of the invalidations without the lock. *)
LockAndTags ==
    {[locking |-> TRUE, faulty |-> TRUE, changing |-> FALSE],
     [locking |-> FALSE, faulty |-> TRUE, changing |-> TRUE]}

(* Calls and pods are interchangeable. *)
Symmetry == Permutations(Calls) \cup Permutations(Pods)
=============================================================================
