------------------------------ MODULE CacheWrap ------------------------------
(***************************************************************************)
(* cacheWrap() of packages/redis/src/cache.ts for one key: a lookup in L1  *)
(* and Redis, then the computation of the value, under the distributed     *)
(* lock (ENABLE_DISTRIBUTED_LOCK) or shared by the calls of a pod, then    *)
(* its storing in both levels and in the tag index of each; and            *)
(* cacheInvalidateTags(), cacheInvalidatePrefixes() and cacheDelete(),     *)
(* which remove it again.                                                  *)
(*                                                                         *)
(* What the value is computed from is known by its version.  An entry may  *)
(* be dropped from L1 at any time (LRU, expiry); time matters to the lock, *)
(* whose life and the patience of those who wait for it are ticks.         *)
(***************************************************************************)
EXTENDS Naturals, FiniteSets

CONSTANTS
    Calls,       \* calls of cacheWrap()
    Pods,        \* the portal processes
    MaxVersion,  \* bound on the versions of the source
    LockTtl,     \* LOCK_TTL_MS
    MaxWait,     \* LOCK_MAX_WAIT_MS
    Settings,    \* the settings to consider, see below
    Nobody       \* the owner of a free lock, the pod of an idle call

ASSUME CacheWrapAssumption ==
    /\ MaxVersion \in Nat \ {0}
    /\ LockTtl \in Nat /\ MaxWait \in Nat \ {0} /\ MaxWait < LockTtl
    /\ Settings \subseteq [locking : BOOLEAN, faulty : BOOLEAN, changing : BOOLEAN]
    /\ Nobody \notin Calls \cup Pods

VARIABLES
    setting,  \* locking: ENABLE_DISTRIBUTED_LOCK, with a client that knows EVAL;
              \* faulty: commands and computations may fail, and pods crash;
              \* changing: the data changes, and is invalidated
    source,   \* the version of the data the value is computed from
    l1,       \* l1[p]: the version in the L1 of p, 0 for none
    l1tags,   \* l1tags[p]: whether the tag index of p lists the key
    l2,       \* the entry of the key in Redis
    tagset,   \* whether the tag's set in Redis lists the key
    lock,     \* the lock key: its owner and the ticks it has to live
    fetch,    \* fetch[p]: the call whose promise is in activeFetches, or Nobody
    call,     \* call[c]: where a call stands
    inv,      \* inv[p]: the invalidation p is at
    removed,  \* history: the newest version an invalidation without failures began at
    calm      \* history: nothing came between a holder of the lock and its entry

levels == <<l1, l1tags, l2, tagset>>
wrapHistory == <<removed, calm>>
wrapVars == <<setting, source, levels, lock, fetch, call, inv, wrapHistory>>

Versions == 0..MaxVersion

(* History: its writer, or the SADD after it, overlapped an invalidation; SADD was done. *)
L2Entry == [version : Versions, tainted : BOOLEAN, indexed : BOOLEAN]
NoL2Entry == [version |-> 0, tainted |-> FALSE, indexed |-> FALSE]

Call == [at : {"idle", "looking", "found", "locking", "waiting", "again", "rechecking",
               "joining", "computing", "computed", "storing", "indexing", "releasing"},
         pod     : Pods \cup {Nobody},
         version : Versions,      \* of the value it holds
         held    : BOOLEAN,       \* lockHeld
         waited  : 0..MaxWait,    \* ticks in waitForLockRelease()
         overlap : BOOLEAN]       \* history: an invalidation was under way since fn()

IdleCall == [at |-> "idle", pod |-> Nobody, version |-> 0, held |-> FALSE, waited |-> 0,
             overlap |-> FALSE]

Invalidation == [at : {"none", "scan", "unlink", "drop"}, byTag : BOOLEAN, version : Versions]
NoInvalidation == [at |-> "none", byTag |-> FALSE, version |-> 0]

Free == [owner |-> Nobody, left |-> 0]

CacheWrapTypeOK ==
    /\ setting \in Settings
    /\ source \in 1..MaxVersion
    /\ l1 \in [Pods -> Versions]
    /\ l1tags \in [Pods -> BOOLEAN]
    /\ l2 \in L2Entry
    /\ tagset \in BOOLEAN
    /\ lock \in [owner : Calls \cup {Nobody}, left : 0..LockTtl]
    /\ lock.owner = Nobody <=> lock.left = 0
    /\ fetch \in [Pods -> Calls \cup {Nobody}]
    /\ call \in [Calls -> Call]
    /\ inv \in [Pods -> Invalidation]
    /\ removed \in Versions
    /\ calm \in BOOLEAN

WrapInit ==
    /\ setting \in Settings
    /\ source = 1
    /\ l1 = [p \in Pods |-> 0]
    /\ l1tags = [p \in Pods |-> FALSE]
    /\ l2 = NoL2Entry
    /\ tagset = FALSE
    /\ lock = Free
    /\ fetch = [p \in Pods |-> Nobody]
    /\ call = [c \in Calls |-> IdleCall]
    /\ inv = [p \in Pods |-> NoInvalidation]
    /\ removed = 0
    /\ calm = setting.locking

-----------------------------------------------------------------------------
Become(c, rec) == call' = [call EXCEPT ![c] = rec]
Move(c, at) == Become(c, [call[c] EXCEPT !.at = at])

Invalidating == \E p \in Pods : inv[p].at # "none"

(* A call returns or throws; with it settles the promise others joined. *)
End(c) ==
    LET p == call[c].pod
        joined == {d \in Calls : fetch[p] = c /\ call[d].pod = p /\ call[d].at = "joining"}
    IN  /\ call' = [d \in Calls |-> IF d \in joined \cup {c} THEN IdleCall ELSE call[d]]
        /\ fetch' = [fetch EXCEPT ![p] = IF @ = c THEN Nobody ELSE @]

(* The finally of withDistributedLock(): whoever holds the lock releases it. *)
Leave(c) == IF call[c].held THEN Move(c, "releasing") /\ UNCHANGED fetch ELSE End(c)

(* cacheGet() of a call that has become rec: L1 at once, or else Redis is asked. *)
LookIn(c, rec) ==
    \/ /\ l1[call[c].pod] = 0
       /\ Become(c, rec)
       /\ UNCHANGED fetch
    \/ /\ l1[call[c].pod] # 0 /\ rec.held
       /\ Become(c, [rec EXCEPT !.at = "releasing"])
       /\ UNCHANGED fetch
    \/ /\ l1[call[c].pod] # 0 /\ ~rec.held
       /\ End(c)

(* fn() is called, under the lock or as the promise of the pod. *)
Computing(c) == [call[c] EXCEPT !.at = "computing", !.overlap = Invalidating]

-----------------------------------------------------------------------------
(* A call that L1 answers returns at once and changes nothing. *)
Begin(c, p) ==
    /\ call[c].at = "idle" /\ l1[p] = 0
    /\ Become(c, [IdleCall EXCEPT !.at = "looking", !.pod = p])
    /\ UNCHANGED <<setting, source, levels, lock, fetch, inv, wrapHistory>>

(* Redis answers a lookup with the entry. *)
Found(c) ==
    /\ call[c].at \in {"looking", "again", "rechecking"} /\ l2.version # 0
    /\ Become(c, [call[c] EXCEPT !.at = "found", !.version = l2.version])
    /\ UNCHANGED <<setting, source, levels, lock, fetch, inv, wrapHistory>>

(* Faulty variant: the value found is put back into Redis too, to refresh its life. *)
RepopulateRefreshing(c) ==
    /\ call[c].at = "found"
    /\ l1' = [l1 EXCEPT ![call[c].pod] = call[c].version]
    /\ l2' = [NoL2Entry EXCEPT !.version = call[c].version]
    /\ Leave(c)
    /\ UNCHANGED <<setting, source, l1tags, tagset, lock, inv, wrapHistory>>

(* The answer is handled: the value is kept in L1, whose tag index is not told. *)
Repopulate(c) ==
    /\ call[c].at = "found"
    /\ l1' = [l1 EXCEPT ![call[c].pod] = call[c].version]
    /\ Leave(c)
    /\ UNCHANGED <<setting, source, l1tags, l2, tagset, lock, inv, wrapHistory>>

(***************************************************************************)
(* A lookup finds nothing, or fails.  cacheWrap() goes for the lock or,    *)
(* without it or without Redis, for the promise of the pod; a waiter looks *)
(* once more; and who has looked under the lock, or after it, computes.    *)
(***************************************************************************)
Missed(c) ==
    /\ l2.version = 0 \/ setting.faulty
    /\ \/ /\ setting.locking /\ call[c].at = "looking"
          /\ Move(c, "locking")
          /\ UNCHANGED <<fetch, calm>>
       \/ /\ call[c].at = "again"
          /\ LookIn(c, [call[c] EXCEPT !.at = "rechecking"])
          /\ calm' = (calm /\ l2.version = 0)
       \/ /\ call[c].at = "rechecking"
          /\ Become(c, Computing(c))
          /\ calm' = (calm /\ l2.version = 0)
          /\ UNCHANGED fetch
       \/ /\ call[c].at = "looking" /\ (~setting.locking \/ setting.faulty)
          /\ LET p == call[c].pod
             IN  IF fetch[p] = Nobody
                   THEN fetch' = [fetch EXCEPT ![p] = c] /\ Become(c, Computing(c))
                   ELSE Move(c, "joining") /\ UNCHANGED fetch
          /\ calm' = FALSE
    /\ UNCHANGED <<setting, source, levels, lock, inv, removed>>

(* Faulty variant: who gets the lock computes, without looking again. *)
AcquireAndCompute(c) ==
    /\ call[c].at = "locking"
    /\ IF lock.owner = Nobody
         THEN /\ lock' = [owner |-> c, left |-> LockTtl]
              /\ Become(c, [Computing(c) EXCEPT !.held = TRUE])
         ELSE Move(c, "waiting") /\ UNCHANGED lock
    /\ UNCHANGED <<setting, source, levels, fetch, inv, wrapHistory>>

(* SET NX PX; when its answer is lost, so is the lock, until it expires. *)
Acquire(c) ==
    /\ call[c].at = "locking"
    /\ \/ /\ lock.owner = Nobody
          /\ lock' = [owner |-> c, left |-> LockTtl]
          /\ LookIn(c, [call[c] EXCEPT !.at = "rechecking", !.held = TRUE])
          /\ UNCHANGED calm
       \/ /\ lock.owner # Nobody
          /\ Move(c, "waiting")
          /\ UNCHANGED <<lock, fetch, calm>>
       \/ /\ setting.faulty /\ lock.owner = Nobody
          /\ lock' \in {lock, [owner |-> c, left |-> LockTtl]}
          /\ Move(c, "waiting")
          /\ calm' = FALSE
          /\ UNCHANGED fetch
    /\ UNCHANGED <<setting, source, levels, inv, removed>>

(* waitForLockRelease() polls: the lock is gone, the deadline is, or EXISTS failed. *)
StopWaiting(c) ==
    /\ call[c].at = "waiting"
    /\ lock.owner = Nobody \/ call[c].waited = MaxWait \/ setting.faulty
    /\ LookIn(c, [call[c] EXCEPT !.at = "again", !.waited = 0])
    /\ calm' = (calm /\ lock.owner = Nobody)
    /\ UNCHANGED <<setting, source, levels, lock, inv, removed>>

-----------------------------------------------------------------------------
(* Faulty variant: the promise stays in activeFetches when fn() throws. *)
ReadSourceKeepingPromise(c) ==
    /\ call[c].at = "computing"
    /\ \/ Become(c, [call[c] EXCEPT !.at = "computed", !.version = source])
       \/ setting.faulty /\ Become(c, IdleCall)
    /\ UNCHANGED <<setting, source, levels, lock, fetch, inv, wrapHistory>>

(* fn() reads the source, or throws. *)
ReadSource(c) ==
    /\ call[c].at = "computing"
    /\ \/ /\ Become(c, [call[c] EXCEPT !.at = "computed", !.version = source])
          /\ UNCHANGED <<fetch, calm>>
       \/ /\ setting.faulty
          /\ Leave(c)
          /\ calm' = FALSE
    /\ UNCHANGED <<setting, source, levels, lock, inv, removed>>

(* cacheSet() puts the value in L1 as soon as fn() is done, *)
StoreL1(c) ==
    /\ call[c].at = "computed"
    /\ l1' = [l1 EXCEPT ![call[c].pod] = call[c].version]
    /\ Move(c, "storing")
    /\ UNCHANGED <<setting, source, l1tags, l2, tagset, lock, fetch, inv, wrapHistory>>

(* then in Redis; whatever came of that, the pod's index lists the key. *)
StoreL2(c) ==
    /\ call[c].at = "storing"
    /\ \/ /\ l2' = [version |-> call[c].version, tainted |-> call[c].overlap,
                    indexed |-> FALSE]
          /\ UNCHANGED calm
       \/ /\ setting.faulty
          /\ calm' = FALSE
          /\ UNCHANGED l2
    /\ l1tags' = [l1tags EXCEPT ![call[c].pod] = TRUE]
    /\ Move(c, "indexing")
    /\ UNCHANGED <<setting, source, l1, tagset, lock, fetch, inv, removed>>

(* indexCacheKeyByTags(): SADD, or nothing. *)
IndexL2(c) ==
    /\ call[c].at = "indexing"
    /\ \/ /\ tagset' = TRUE
          /\ l2' = [l2 EXCEPT !.indexed = l2.version # 0 /\ ~Invalidating]
       \/ /\ setting.faulty
          /\ UNCHANGED <<tagset, l2>>
    /\ Leave(c)
    /\ UNCHANGED <<setting, source, l1, l1tags, lock, inv, wrapHistory>>

(* Faulty variant: the DEL of the branch for clients without EVAL. *)
ReleaseAny(c) ==
    /\ call[c].at = "releasing"
    /\ lock' = Free
    /\ End(c)
    /\ UNCHANGED <<setting, source, levels, inv, wrapHistory>>

(* releaseLock(): the script deletes the lock of its owner only, or fails. *)
Release(c) ==
    /\ call[c].at = "releasing"
    /\ \/ lock' = IF lock.owner = c THEN Free ELSE lock
       \/ setting.faulty /\ UNCHANGED lock
    /\ End(c)
    /\ calm' = (calm /\ lock' = Free)
    /\ UNCHANGED <<setting, source, levels, inv, removed>>

-----------------------------------------------------------------------------
(* The data changes; its invalidation is up to the one who changed it. *)
ChangeSource ==
    /\ setting.changing /\ source < MaxVersion
    /\ source' = source + 1
    /\ UNCHANGED <<setting, levels, lock, fetch, call, inv, wrapHistory>>

(***************************************************************************)
(* An invalidation by tag, prefix or key first clears the pod's own L1:    *)
(* by tag, only what its index lists.                                      *)
(***************************************************************************)
BeginInvalidation(p, by) ==
    /\ setting.changing /\ inv[p].at = "none"
    /\ inv' = [inv EXCEPT ![p] = [at |-> IF by = "key" THEN "unlink" ELSE "scan",
                                  byTag |-> by = "tag", version |-> source]]
    /\ l1' = [l1 EXCEPT ![p] = IF by = "tag" /\ ~l1tags[p] THEN @ ELSE 0]
    /\ l1tags' = [l1tags EXCEPT ![p] = @ /\ by # "tag"]
    /\ call' = [c \in Calls |-> IF call[c].at \in {"computing", "computed", "storing", "indexing"}
                                  THEN [call[c] EXCEPT !.overlap = TRUE] ELSE call[c]]
    /\ l2' = [l2 EXCEPT !.tainted = @ \/ (l2.version # 0 /\ ~l2.indexed)]
    /\ UNCHANGED <<setting, source, tagset, lock, fetch, wrapHistory>>

Proceed(p, at) == inv' = [inv EXCEPT ![p].at = at] /\ UNCHANGED removed

Finish(p) ==
    /\ inv' = [inv EXCEPT ![p] = NoInvalidation]
    /\ removed' = IF inv[p].version > removed THEN inv[p].version ELSE removed

(* SSCAN of the tag's set, or SCAN of the keys. *)
Scan(p) ==
    /\ inv[p].at = "scan"
    /\ IF inv[p].byTag THEN Proceed(p, IF tagset THEN "unlink" ELSE "drop")
       ELSE IF l2.version # 0 THEN Proceed(p, "unlink")
       ELSE Finish(p)
    /\ UNCHANGED <<setting, source, levels, lock, fetch, call, calm>>

(* UNLINK of the keys found, or DEL of the key. *)
Unlink(p) ==
    /\ inv[p].at = "unlink"
    /\ l2' = NoL2Entry
    /\ calm' = FALSE
    /\ IF inv[p].byTag THEN Proceed(p, "drop") ELSE Finish(p)
    /\ UNCHANGED <<setting, source, l1, l1tags, tagset, lock, fetch, call>>

(* UNLINK of the tag's set, with whatever was added since the scan. *)
DropSet(p) ==
    /\ inv[p].at = "drop"
    /\ tagset' = FALSE
    /\ Finish(p)
    /\ UNCHANGED <<setting, source, l1, l1tags, l2, lock, fetch, call, calm>>

(* A command fails, or the client is the fallback, which has no SSCAN: silently over. *)
AbandonInvalidation(p) ==
    /\ setting.faulty /\ inv[p].at # "none"
    /\ inv' = [inv EXCEPT ![p] = NoInvalidation]
    /\ UNCHANGED <<setting, source, levels, lock, fetch, call, wrapHistory>>

-----------------------------------------------------------------------------
(* LRU eviction and expiry of L1; the indices are not told. *)
DropL1(p) ==
    /\ l1[p] # 0
    /\ l1' = [l1 EXCEPT ![p] = 0]
    /\ UNCHANGED <<setting, source, l1tags, l2, tagset, lock, fetch, call, inv, wrapHistory>>

ExpireL2 ==
    /\ l2.version # 0
    /\ l2' = NoL2Entry
    /\ calm' = FALSE
    /\ UNCHANGED <<setting, source, l1, l1tags, tagset, lock, fetch, call, inv, removed>>

(* Faulty variant: nobody's patience has an end. *)
TickWithoutDeadline ==
    /\ lock.left > 0 \/ \E c \in Calls : call[c].at = "waiting"
    /\ lock' = IF lock.left > 1 THEN [lock EXCEPT !.left = @ - 1] ELSE Free
    /\ call' = [c \in Calls |-> IF call[c].at = "waiting" THEN [call[c] EXCEPT !.waited = @ + 1]
                                 ELSE call[c]]
    /\ UNCHANGED <<setting, source, levels, fetch, inv, wrapHistory>>

(* Time passes for the lock and for those who wait for it. *)
Tick ==
    /\ lock.left > 0 \/ \E c \in Calls : call[c].at = "waiting" /\ call[c].waited < MaxWait
    /\ lock' = IF lock.left > 1 THEN [lock EXCEPT !.left = @ - 1] ELSE Free
    /\ call' = [c \in Calls |-> IF call[c].at = "waiting" /\ call[c].waited < MaxWait
                                  THEN [call[c] EXCEPT !.waited = @ + 1] ELSE call[c]]
    /\ calm' = (calm /\ lock.left # 1)
    /\ UNCHANGED <<setting, source, levels, fetch, inv, removed>>

(* A pod dies with its calls; Redis keeps what it has, the lock included. *)
Crash(p) ==
    /\ setting.faulty
    /\ l1' = [l1 EXCEPT ![p] = 0]
    /\ l1tags' = [l1tags EXCEPT ![p] = FALSE]
    /\ fetch' = [fetch EXCEPT ![p] = Nobody]
    /\ call' = [c \in Calls |-> IF call[c].pod = p THEN IdleCall ELSE call[c]]
    /\ inv' = [inv EXCEPT ![p] = NoInvalidation]
    /\ calm' = FALSE
    /\ UNCHANGED <<setting, source, l2, tagset, lock, removed>>

-----------------------------------------------------------------------------
(* What a call does once it has begun. *)
CallStep(c) ==
    \/ Found(c) \/ Repopulate(c) \/ Missed(c) \/ Acquire(c) \/ StopWaiting(c)
    \/ ReadSource(c) \/ StoreL1(c) \/ StoreL2(c) \/ IndexL2(c) \/ Release(c)

InvalidationStep(p) == Scan(p) \/ Unlink(p) \/ DropSet(p) \/ AbandonInvalidation(p)

WrapNext ==
    \/ \E c \in Calls : CallStep(c) \/ \E p \in Pods : Begin(c, p)
    \/ \E p \in Pods :
        \/ \E by \in {"tag", "prefix", "key"} : BeginInvalidation(p, by)
        \/ InvalidationStep(p) \/ DropL1(p) \/ Crash(p)
    \/ ChangeSource \/ ExpireL2 \/ Tick

WrapSpec == WrapInit /\ [][WrapNext]_wrapVars

-----------------------------------------------------------------------------
(***************************************************************************)
(* Stampede protection, what the lock is for (cache.ts, 287): at most one  *)
(* call of all pods computes the value, and none once it is stored,        *)
(* whatever lookups, waits and releases cross each other - until the lock  *)
(* expires or a waiter loses patience, the entry is removed, or something  *)
(* fails.                                                                  *)
(***************************************************************************)
SingleFlight ==
    calm =>
        \A c \in Calls :
            call[c].at \in {"computing", "computed", "storing"} =>
                /\ l2.version = 0
                /\ \A d \in Calls \ {c} : call[d].at \notin {"computing", "computed", "storing"}

(***************************************************************************)
(* Coalescing (cache.ts, 451): whoever waits for a computation of its pod  *)
(* waits for one that is under way, and a pod has one at a time but for    *)
(* those under the lock.                                                   *)
(***************************************************************************)
Coalesced ==
    \A c \in Calls :
        call[c].at = "joining" =>
            \E d \in Calls : /\ fetch[call[c].pod] = d /\ call[d].pod = call[c].pod
                             /\ call[d].at \in {"computing", "computed", "storing", "indexing"}

(***************************************************************************)
(* A lock is not taken from the call that has it: another may release what *)
(* it lost by expiry without harm to the present holder (cache.ts, 303).   *)
(***************************************************************************)
LockKept ==
    [][ \A c \in Calls :
          lock.owner = c /\ lock'.owner # c =>
              \/ call[c].at = "releasing" /\ call'[c].at = "idle"
              \/ lock.left = 1 ]_wrapVars

(***************************************************************************)
(* What an invalidation removed stays out of Redis: an entry older than a  *)
(* finished invalidation is there only if the call that stored it, or its  *)
(* SADD, overlapped one (invalidation.ts, 66) or failed.                   *)
(***************************************************************************)
RemovedForGood ==
    l2.version \in 1..(removed - 1) => l2.tainted
=============================================================================
