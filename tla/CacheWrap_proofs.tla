---------------------------- MODULE CacheWrap_proofs ----------------------------
(***************************************************************************)
(* Proofs about cacheWrap() and the invalidations, for any calls, pods,    *)
(* versions, settings and patience: types, that nobody takes the lock from *)
(* its holder, that who joins a promise joins one that is kept, that what  *)
(* was invalidated stays out of Redis, and the single flight.              *)
(***************************************************************************)
EXTENDS CacheWrap, TLAPS

USE CacheWrapAssumption DEF CacheWrapAssumption

(* The records of a call and of an invalidation that the steps write. *)
LEMMA CallRecords ==
    /\ IdleCall \in Call
    /\ \A p \in Pods : [IdleCall EXCEPT !.at = "looking", !.pod = p] \in Call
    /\ \A x \in Call :
          /\ [x EXCEPT !.overlap = TRUE] \in Call
          /\ \A at \in {"found", "locking", "waiting", "again", "rechecking", "joining", "storing",
                        "indexing", "releasing"} : [x EXCEPT !.at = at] \in Call
          /\ \A o \in BOOLEAN : [x EXCEPT !.at = "computing", !.overlap = o] \in Call
          /\ [x EXCEPT !.at = "rechecking", !.held = TRUE] \in Call
          /\ [x EXCEPT !.at = "again", !.waited = 0] \in Call
          /\ \A v \in Versions : /\ [x EXCEPT !.at = "found", !.version = v] \in Call
                                 /\ [x EXCEPT !.at = "computed", !.version = v] \in Call
<1>1. IdleCall \in Call
  BY DEF IdleCall, Call, Versions
<1>2. ASSUME NEW p \in Pods PROVE [IdleCall EXCEPT !.at = "looking", !.pod = p] \in Call
  BY <1>1 DEF Call
<1>3. ASSUME NEW x \in Call PROVE [x EXCEPT !.overlap = TRUE] \in Call
  BY DEF Call
<1>4. ASSUME NEW x \in Call,
             NEW at \in {"found", "locking", "waiting", "again", "rechecking", "joining", "storing",
                         "indexing", "releasing"}
      PROVE  [x EXCEPT !.at = at] \in Call
  BY DEF Call
<1>5. ASSUME NEW x \in Call, NEW o \in BOOLEAN
      PROVE  [x EXCEPT !.at = "computing", !.overlap = o] \in Call
  BY DEF Call
<1>6. ASSUME NEW x \in Call PROVE [x EXCEPT !.at = "rechecking", !.held = TRUE] \in Call
  BY DEF Call
<1>7. ASSUME NEW x \in Call PROVE [x EXCEPT !.at = "again", !.waited = 0] \in Call
  <2>1. 0 \in 0..MaxWait
    OBVIOUS
  <2>2. [x EXCEPT !.at = "again"] \in Call
    BY DEF Call
  <2>3. ASSUME NEW y \in Call PROVE [y EXCEPT !.waited = 0] \in Call
    BY <2>1 DEF Call
  <2> QED
    BY <2>2, <2>3
<1>8. ASSUME NEW x \in Call, NEW v \in Versions
      PROVE  /\ [x EXCEPT !.at = "found", !.version = v] \in Call
             /\ [x EXCEPT !.at = "computed", !.version = v] \in Call
  BY DEF Call
<1> QED
  BY <1>1, <1>2, <1>3, <1>4, <1>5, <1>6, <1>7, <1>8

-----------------------------------------------------------------------------
(* A call that ends, leaves or moves on keeps calls and promises typed. *)
LEMMA EndTypes ==
    ASSUME CacheWrapTypeOK, NEW c \in Calls, End(c)
    PROVE  call' \in [Calls -> Call] /\ fetch' \in [Pods -> Calls \cup {Nobody}]
<1>1. fetch' \in [Pods -> Calls \cup {Nobody}]
  BY DEF End, CacheWrapTypeOK
<1>2. call' \in [Calls -> Call]
  BY CallRecords DEF End, CacheWrapTypeOK
<1> QED
  BY <1>1, <1>2

(* A call becomes one of the records above. *)
LEMMA BecomeTypes ==
    ASSUME CacheWrapTypeOK, NEW c \in Calls, NEW rec \in Call, Become(c, rec)
    PROVE  call' \in [Calls -> Call]
  BY DEF Become, CacheWrapTypeOK

(* A call moves on to another phase. *)
LEMMA MoveTypes ==
    ASSUME CacheWrapTypeOK, NEW c \in Calls,
           NEW at \in {"found", "locking", "waiting", "again", "rechecking", "joining", "storing",
                       "indexing", "releasing"},
           Move(c, at)
    PROVE  call' \in [Calls -> Call]
<1>1. [call[c] EXCEPT !.at = at] \in Call
  BY CallRecords DEF CacheWrapTypeOK
<1> QED
  BY <1>1, BecomeTypes DEF Move

(* So does the end of a call that may hold the lock, *)
LEMMA LeaveTypes ==
    ASSUME CacheWrapTypeOK, NEW c \in Calls, Leave(c)
    PROVE  call' \in [Calls -> Call] /\ fetch' \in [Pods -> Calls \cup {Nobody}]
<1>1. CASE Move(c, "releasing") /\ UNCHANGED fetch
  BY <1>1, MoveTypes DEF CacheWrapTypeOK
<1>2. CASE End(c)
  BY <1>2, EndTypes
<1> QED
  BY <1>1, <1>2 DEF Leave

(* and a lookup, whether or not L1 answers it. *)
LEMMA LookInTypes ==
    ASSUME CacheWrapTypeOK, NEW c \in Calls, NEW rec \in Call, LookIn(c, rec)
    PROVE  call' \in [Calls -> Call] /\ fetch' \in [Pods -> Calls \cup {Nobody}]
<1>1. CASE Become(c, rec) /\ UNCHANGED fetch
  BY <1>1, BecomeTypes DEF CacheWrapTypeOK
<1>2. CASE Become(c, [rec EXCEPT !.at = "releasing"]) /\ UNCHANGED fetch
  <2>1. [rec EXCEPT !.at = "releasing"] \in Call
    BY CallRecords
  <2> QED
    BY <1>2, <2>1, BecomeTypes DEF CacheWrapTypeOK
<1>3. CASE End(c)
  BY <1>3, EndTypes
<1> QED
  BY <1>1, <1>2, <1>3 DEF LookIn

(* Which variables CacheWrapTypeOK is about, apart from calls and promises. *)
StoresTyped ==
    /\ setting \in Settings
    /\ source \in 1..MaxVersion
    /\ l1 \in [Pods -> Versions]
    /\ l1tags \in [Pods -> BOOLEAN]
    /\ l2 \in L2Entry
    /\ tagset \in BOOLEAN
    /\ lock \in [owner : Calls \cup {Nobody}, left : 0..LockTtl]
    /\ lock.owner = Nobody <=> lock.left = 0
    /\ inv \in [Pods -> Invalidation]
    /\ removed \in Versions
    /\ calm \in BOOLEAN

(* Where a step leaves everything else alone, those stay typed. *)
LEMMA StoresUnchanged ==
    ASSUME CacheWrapTypeOK, UNCHANGED <<setting, source, levels, lock, inv, removed>>,
           calm' \in BOOLEAN
    PROVE  StoresTyped'
  BY DEF CacheWrapTypeOK, StoresTyped, levels

(* The steps of a call up to its computation. *)
LEMMA LookupTypes ==
    ASSUME CacheWrapTypeOK, NEW c \in Calls,
           Found(c) \/ Repopulate(c) \/ Missed(c) \/ StopWaiting(c) \/ \E p \in Pods : Begin(c, p)
    PROVE  CacheWrapTypeOK'
<1> DEFINE CallsTyped == call' \in [Calls -> Call] /\ fetch' \in [Pods -> Calls \cup {Nobody}]
<1>0. call[c] \in Call
  BY DEF CacheWrapTypeOK
<1>1. ASSUME NEW p \in Pods, Begin(c, p) PROVE CallsTyped /\ StoresTyped'
  <2>1. [IdleCall EXCEPT !.at = "looking", !.pod = p] \in Call
    BY CallRecords
  <2>2. CallsTyped
    BY <1>1, <2>1, BecomeTypes DEF Begin, CacheWrapTypeOK
  <2> QED
    BY <1>1, <2>2, StoresUnchanged DEF Begin, wrapHistory, CacheWrapTypeOK
<1>2. ASSUME Found(c) PROVE CallsTyped /\ StoresTyped'
  <2>1. l2.version \in Versions
    BY DEF CacheWrapTypeOK, L2Entry
  <2>2. [call[c] EXCEPT !.at = "found", !.version = l2.version] \in Call
    BY <1>0, <2>1, CallRecords
  <2>3. CallsTyped
    BY <1>2, <2>2, BecomeTypes DEF Found, CacheWrapTypeOK
  <2> QED
    BY <1>2, <2>3, StoresUnchanged DEF Found, wrapHistory, CacheWrapTypeOK
<1>3. ASSUME Repopulate(c) PROVE CallsTyped /\ StoresTyped'
  <2>1. CallsTyped
    BY <1>3, LeaveTypes DEF Repopulate
  <2>2. call[c].version \in Versions
    BY <1>0 DEF Call
  <2>3. l1' \in [Pods -> Versions]
    BY <1>3, <2>2 DEF Repopulate, CacheWrapTypeOK
  <2> QED
    BY <1>3, <2>1, <2>3 DEF Repopulate, wrapHistory, CacheWrapTypeOK, StoresTyped
<1>4. ASSUME Missed(c) PROVE CallsTyped /\ StoresTyped'
  <2>1. calm' \in BOOLEAN
    BY <1>4 DEF Missed, CacheWrapTypeOK
  <2>2. StoresTyped'
    BY <1>4, <2>1, StoresUnchanged DEF Missed
  <2>3. ASSUME Move(c, "locking") \/ Move(c, "joining"), UNCHANGED fetch PROVE CallsTyped
    BY <2>3, MoveTypes DEF CacheWrapTypeOK
  <2>4. ASSUME LookIn(c, [call[c] EXCEPT !.at = "rechecking"]) PROVE CallsTyped
    <3>1. [call[c] EXCEPT !.at = "rechecking"] \in Call
      BY <1>0, CallRecords
    <3> QED
      BY <2>4, <3>1, LookInTypes
  <2>5. Invalidating \in BOOLEAN
    BY DEF Invalidating
  <2>6. Computing(c) \in Call
    BY <1>0, <2>5, CallRecords DEF Computing
  <2>7. ASSUME Become(c, Computing(c)) PROVE call' \in [Calls -> Call]
    BY <2>6, <2>7, BecomeTypes
  <2>8. UNCHANGED fetch \/ fetch' = [fetch EXCEPT ![call[c].pod] = c] =>
          fetch' \in [Pods -> Calls \cup {Nobody}]
    BY DEF CacheWrapTypeOK
  <2> QED
    BY <1>4, <2>2, <2>3, <2>4, <2>7, <2>8 DEF Missed
<1>5. ASSUME StopWaiting(c) PROVE CallsTyped /\ StoresTyped'
  <2>1. calm' \in BOOLEAN
    BY <1>5 DEF StopWaiting, CacheWrapTypeOK
  <2>2. [call[c] EXCEPT !.at = "again", !.waited = 0] \in Call
    BY <1>0, CallRecords
  <2>3. CallsTyped
    BY <1>5, <2>2, LookInTypes DEF StopWaiting
  <2> QED
    BY <1>5, <2>1, <2>3, StoresUnchanged DEF StopWaiting
<1> QED
  BY <1>1, <1>2, <1>3, <1>4, <1>5 DEF CacheWrapTypeOK, StoresTyped

(* The steps from the lock to its release. *)
LEMMA ComputationTypes ==
    ASSUME CacheWrapTypeOK, NEW c \in Calls,
           \/ Acquire(c) \/ ReadSource(c) \/ StoreL1(c) \/ StoreL2(c)
           \/ IndexL2(c) \/ Release(c)
    PROVE  CacheWrapTypeOK'
<1> DEFINE CallsTyped == call' \in [Calls -> Call] /\ fetch' \in [Pods -> Calls \cup {Nobody}]
<1>0. call[c] \in Call /\ call[c].version \in Versions /\ call[c].overlap \in BOOLEAN
  BY DEF CacheWrapTypeOK, Call
<1>1. ASSUME Acquire(c) PROVE CallsTyped /\ StoresTyped'
  <2>1. calm' \in BOOLEAN
    BY <1>1 DEF Acquire, CacheWrapTypeOK
  <2>2. [owner |-> c, left |-> LockTtl].owner = c /\ [owner |-> c, left |-> LockTtl].left = LockTtl
    OBVIOUS
  <2>3. [owner |-> c, left |-> LockTtl] \in [owner : Calls \cup {Nobody}, left : 0..LockTtl]
    OBVIOUS
  <2>4. c # Nobody /\ LockTtl # 0
    OBVIOUS
  <2>5. lock' = lock \/ lock' = [owner |-> c, left |-> LockTtl]
    BY <1>1 DEF Acquire
  <2>6. /\ lock' \in [owner : Calls \cup {Nobody}, left : 0..LockTtl]
        /\ lock'.owner = Nobody <=> lock'.left = 0
    BY <2>2, <2>3, <2>4, <2>5 DEF CacheWrapTypeOK
  <2>7. StoresTyped'
    BY <1>1, <2>1, <2>6 DEF Acquire, levels, CacheWrapTypeOK, StoresTyped
  <2>8. [call[c] EXCEPT !.at = "rechecking", !.held = TRUE] \in Call
    BY <1>0, CallRecords
  <2>9. ASSUME LookIn(c, [call[c] EXCEPT !.at = "rechecking", !.held = TRUE]) PROVE CallsTyped
    BY <2>8, <2>9, LookInTypes
  <2>10. ASSUME Move(c, "waiting"), UNCHANGED fetch PROVE CallsTyped
    BY <2>10, MoveTypes DEF CacheWrapTypeOK
  <2> QED
    BY <1>1, <2>7, <2>9, <2>10 DEF Acquire
<1>2. ASSUME ReadSource(c) PROVE CallsTyped /\ StoresTyped'
  <2>1. calm' \in BOOLEAN
    BY <1>2 DEF ReadSource, CacheWrapTypeOK
  <2>2. source \in Versions
    BY DEF CacheWrapTypeOK, Versions
  <2>3. [call[c] EXCEPT !.at = "computed", !.version = source] \in Call
    BY <1>0, <2>2, CallRecords
  <2>4. ASSUME Become(c, [call[c] EXCEPT !.at = "computed", !.version = source]), UNCHANGED fetch
        PROVE  CallsTyped
    BY <2>3, <2>4, BecomeTypes DEF CacheWrapTypeOK
  <2>5. Leave(c) => CallsTyped
    BY LeaveTypes
  <2>6. StoresTyped'
    BY <1>2, <2>1, StoresUnchanged DEF ReadSource
  <2> QED
    BY <1>2, <2>4, <2>5, <2>6 DEF ReadSource
<1>3. ASSUME StoreL1(c) PROVE CallsTyped /\ StoresTyped'
  <2>1. CallsTyped
    BY <1>3, MoveTypes DEF StoreL1, CacheWrapTypeOK
  <2>2. l1' \in [Pods -> Versions]
    BY <1>0, <1>3 DEF StoreL1, CacheWrapTypeOK
  <2> QED
    BY <1>3, <2>1, <2>2 DEF StoreL1, wrapHistory, CacheWrapTypeOK, StoresTyped
<1>4. ASSUME StoreL2(c) PROVE CallsTyped /\ StoresTyped'
  <2>1. CallsTyped
    BY <1>4, MoveTypes DEF StoreL2, CacheWrapTypeOK
  <2>2. [version |-> call[c].version, tainted |-> call[c].overlap, indexed |-> FALSE] \in L2Entry
    BY <1>0 DEF L2Entry
  <2>3. l2' \in L2Entry /\ calm' \in BOOLEAN /\ l1tags' \in [Pods -> BOOLEAN]
    BY <1>4, <2>2 DEF StoreL2, CacheWrapTypeOK
  <2> QED
    BY <1>4, <2>1, <2>3 DEF StoreL2, CacheWrapTypeOK, StoresTyped
<1>5. ASSUME IndexL2(c) PROVE CallsTyped /\ StoresTyped'
  <2>1. CallsTyped
    BY <1>5, LeaveTypes DEF IndexL2
  <2>2. ASSUME NEW b \in BOOLEAN PROVE [l2 EXCEPT !.indexed = b] \in L2Entry
    BY DEF CacheWrapTypeOK, L2Entry
  <2>3. (l2.version # 0 /\ ~Invalidating) \in BOOLEAN
    OBVIOUS
  <2>4. l2' \in L2Entry /\ tagset' \in BOOLEAN
    BY <1>5, <2>2, <2>3 DEF IndexL2, CacheWrapTypeOK
  <2> QED
    BY <1>5, <2>1, <2>4 DEF IndexL2, wrapHistory, CacheWrapTypeOK, StoresTyped
<1>6. ASSUME Release(c) PROVE CallsTyped /\ StoresTyped'
  <2>1. CallsTyped
    BY <1>6, EndTypes DEF Release
  <2>2. Free \in [owner : Calls \cup {Nobody}, left : 0..LockTtl] /\ Free.owner = Nobody
          /\ Free.left = 0
    BY DEF Free
  <2>3. calm' \in BOOLEAN
    BY <1>6 DEF Release, CacheWrapTypeOK
  <2>4. lock' = lock \/ lock' = Free
    BY <1>6 DEF Release
  <2>5. /\ lock' \in [owner : Calls \cup {Nobody}, left : 0..LockTtl]
        /\ lock'.owner = Nobody <=> lock'.left = 0
    BY <2>2, <2>4 DEF CacheWrapTypeOK
  <2> QED
    BY <1>6, <2>1, <2>3, <2>5 DEF Release, levels, CacheWrapTypeOK, StoresTyped
<1> QED
  BY <1>1, <1>2, <1>3, <1>4, <1>5, <1>6 DEF CacheWrapTypeOK, StoresTyped

(* The steps of the invalidations. *)
LEMMA InvalidationTypes ==
    ASSUME CacheWrapTypeOK, NEW p \in Pods,
           InvalidationStep(p) \/ \E by \in {"tag", "prefix", "key"} : BeginInvalidation(p, by)
    PROVE  CacheWrapTypeOK'
<1>0. inv[p] \in Invalidation /\ inv[p].version \in Versions
  BY DEF CacheWrapTypeOK, Invalidation
<1>1. NoInvalidation \in Invalidation
  BY DEF NoInvalidation, Invalidation, Versions
<1>2. NoL2Entry \in L2Entry
  BY DEF NoL2Entry, L2Entry, Versions
<1>3. ASSUME NEW at \in {"unlink", "drop"}, Proceed(p, at)
      PROVE  inv' \in [Pods -> Invalidation] /\ removed' \in Versions
  <2>1. [inv[p] EXCEPT !.at = at] \in Invalidation
    BY <1>0 DEF Invalidation
  <2> QED
    BY <1>3, <2>1 DEF Proceed, CacheWrapTypeOK
<1>4. ASSUME Finish(p)
      PROVE  inv' \in [Pods -> Invalidation] /\ removed' \in Versions
  BY <1>0, <1>1, <1>4 DEF Finish, CacheWrapTypeOK
<1>5. ASSUME NEW by \in {"tag", "prefix", "key"}, BeginInvalidation(p, by)
      PROVE  CacheWrapTypeOK'
  <2>1. l1' \in [Pods -> Versions]
    <3>1. 0 \in Versions
      BY DEF Versions
    <3> QED
      BY <1>5, <3>1 DEF BeginInvalidation, CacheWrapTypeOK
  <2>2. l1tags' \in [Pods -> BOOLEAN]
    BY <1>5 DEF BeginInvalidation, CacheWrapTypeOK
  <2>3. call' \in [Calls -> Call]
    BY <1>5, CallRecords DEF BeginInvalidation, CacheWrapTypeOK
  <2>4. l2' \in L2Entry
    <3>1. ASSUME NEW b \in BOOLEAN PROVE [l2 EXCEPT !.tainted = b] \in L2Entry
      BY DEF CacheWrapTypeOK, L2Entry
    <3>2. (l2.tainted \/ (l2.version # 0 /\ ~l2.indexed)) \in BOOLEAN
      OBVIOUS
    <3> QED
      BY <1>5, <3>1, <3>2 DEF BeginInvalidation
  <2>5. inv' \in [Pods -> Invalidation]
    <3>1. source \in Versions
      BY DEF CacheWrapTypeOK, Versions
    <3>2. (by = "tag") \in BOOLEAN
      OBVIOUS
    <3>3. ASSUME NEW at \in {"scan", "unlink"}, NEW b \in BOOLEAN
          PROVE  [at |-> at, byTag |-> b, version |-> source] \in Invalidation
      BY <3>1 DEF Invalidation
    <3>4. [at |-> IF by = "key" THEN "unlink" ELSE "scan", byTag |-> by = "tag",
           version |-> source] \in Invalidation
      BY <3>2, <3>3
    <3> QED
      BY <1>5, <3>4 DEF BeginInvalidation, CacheWrapTypeOK
  <2> QED
    BY <1>5, <2>1, <2>2, <2>3, <2>4, <2>5 DEF BeginInvalidation, wrapHistory, CacheWrapTypeOK
<1>6. ASSUME Scan(p) PROVE CacheWrapTypeOK'
  <2>1. inv' \in [Pods -> Invalidation] /\ removed' \in Versions
    BY <1>3, <1>4, <1>6 DEF Scan
  <2> QED
    BY <1>6, <2>1 DEF Scan, levels, CacheWrapTypeOK
<1>7. ASSUME Unlink(p) PROVE CacheWrapTypeOK'
  <2>1. inv' \in [Pods -> Invalidation] /\ removed' \in Versions
    BY <1>3, <1>4, <1>7 DEF Unlink
  <2> QED
    BY <1>2, <1>7, <2>1 DEF Unlink, CacheWrapTypeOK
<1>8. ASSUME DropSet(p) PROVE CacheWrapTypeOK'
  <2>1. inv' \in [Pods -> Invalidation] /\ removed' \in Versions
    BY <1>4, <1>8 DEF DropSet
  <2> QED
    BY <1>8, <2>1 DEF DropSet, CacheWrapTypeOK
<1>9. ASSUME AbandonInvalidation(p) PROVE CacheWrapTypeOK'
  <2>1. inv' \in [Pods -> Invalidation]
    BY <1>1, <1>9 DEF AbandonInvalidation, CacheWrapTypeOK
  <2> QED
    BY <1>9, <2>1 DEF AbandonInvalidation, levels, wrapHistory, CacheWrapTypeOK
<1> QED
  BY <1>5, <1>6, <1>7, <1>8, <1>9 DEF InvalidationStep

(* Time, expiry, changes of the source and crashes. *)
Surroundings == ChangeSource \/ ExpireL2 \/ Tick \/ \E p \in Pods : DropL1(p) \/ Crash(p)

(* They keep the types. *)
LEMMA SurroundingTypes ==
    ASSUME CacheWrapTypeOK, Surroundings
    PROVE  CacheWrapTypeOK'
<1>1. 0 \in Versions /\ NoL2Entry \in L2Entry /\ NoInvalidation \in Invalidation
  BY DEF Versions, NoL2Entry, L2Entry, NoInvalidation, Invalidation
<1>2. ASSUME ChangeSource PROVE CacheWrapTypeOK'
  <2>1. source' \in 1..MaxVersion
    BY <1>2 DEF ChangeSource, CacheWrapTypeOK
  <2> QED
    BY <1>2, <2>1 DEF ChangeSource, levels, wrapHistory, CacheWrapTypeOK
<1>3. ASSUME ExpireL2 PROVE CacheWrapTypeOK'
  BY <1>1, <1>3 DEF ExpireL2, CacheWrapTypeOK
<1>4. ASSUME Tick PROVE CacheWrapTypeOK'
  <2>1. call' \in [Calls -> Call]
    <3>1. ASSUME NEW x \in Call, x.waited < MaxWait
          PROVE  [x EXCEPT !.waited = @ + 1] \in Call
      <4>1. x.waited + 1 \in 0..MaxWait
        BY <3>1 DEF Call
      <4> QED
        BY <4>1 DEF Call
    <3> QED
      BY <1>4, <3>1 DEF Tick, CacheWrapTypeOK
  <2>2. /\ lock' \in [owner : Calls \cup {Nobody}, left : 0..LockTtl]
        /\ lock'.owner = Nobody <=> lock'.left = 0
    <3>1. CASE lock.left > 1
      <4>1. lock.left - 1 \in 0..LockTtl /\ lock.left - 1 # 0 /\ lock.owner # Nobody
        BY <3>1 DEF CacheWrapTypeOK
      <4>2. lock' = [lock EXCEPT !.left = @ - 1]
        BY <1>4, <3>1 DEF Tick
      <4>3. lock' = [owner |-> lock.owner, left |-> lock.left - 1]
        BY <4>2 DEF CacheWrapTypeOK
      <4> QED
        BY <4>1, <4>3 DEF CacheWrapTypeOK
    <3>2. CASE ~(lock.left > 1)
      BY <1>4, <3>2 DEF Tick, Free
    <3> QED
      BY <3>1, <3>2
  <2>3. calm' \in BOOLEAN
    BY <1>4 DEF Tick, CacheWrapTypeOK
  <2> QED
    BY <1>4, <2>1, <2>2, <2>3 DEF Tick, levels, CacheWrapTypeOK
<1>5. ASSUME NEW p \in Pods, DropL1(p) PROVE CacheWrapTypeOK'
  <2>1. l1' \in [Pods -> Versions]
    BY <1>1, <1>5 DEF DropL1, CacheWrapTypeOK
  <2> QED
    BY <1>5, <2>1 DEF DropL1, wrapHistory, CacheWrapTypeOK
<1>6. ASSUME NEW p \in Pods, Crash(p) PROVE CacheWrapTypeOK'
  <2>1. l1' \in [Pods -> Versions] /\ l1tags' \in [Pods -> BOOLEAN]
    BY <1>1, <1>6 DEF Crash, CacheWrapTypeOK
  <2>2. call' \in [Calls -> Call] /\ fetch' \in [Pods -> Calls \cup {Nobody}]
    BY <1>6, CallRecords DEF Crash, CacheWrapTypeOK
  <2>3. inv' \in [Pods -> Invalidation]
    BY <1>1, <1>6 DEF Crash, CacheWrapTypeOK
  <2> QED
    BY <1>6, <2>1, <2>2, <2>3 DEF Crash, CacheWrapTypeOK
<1> QED
  BY <1>2, <1>3, <1>4, <1>5, <1>6 DEF Surroundings

(* The five kinds of steps. *)
LEMMA WrapSteps ==
    ASSUME [WrapNext]_wrapVars
    PROVE  \/ \E c \in Calls : \/ Found(c) \/ Repopulate(c) \/ Missed(c) \/ StopWaiting(c)
                               \/ \E p \in Pods : Begin(c, p)
           \/ \E c \in Calls : \/ Acquire(c) \/ ReadSource(c) \/ StoreL1(c) \/ StoreL2(c)
                               \/ IndexL2(c) \/ Release(c)
           \/ \E p \in Pods : \/ InvalidationStep(p)
                              \/ \E by \in {"tag", "prefix", "key"} : BeginInvalidation(p, by)
           \/ Surroundings
           \/ UNCHANGED wrapVars
  BY DEF WrapNext, CallStep, Surroundings

(* CacheWrapTypeOK is inductive. *)
LEMMA WrapTypesKept ==
    CacheWrapTypeOK /\ [WrapNext]_wrapVars => CacheWrapTypeOK'
<1> SUFFICES ASSUME CacheWrapTypeOK, [WrapNext]_wrapVars PROVE CacheWrapTypeOK'
  OBVIOUS
<1>1. CASE UNCHANGED wrapVars
  BY <1>1 DEF wrapVars, levels, wrapHistory, CacheWrapTypeOK
<1> QED
  BY <1>1, WrapSteps, LookupTypes, ComputationTypes, InvalidationTypes, SurroundingTypes

(* The initial state is well typed. *)
LEMMA WrapInitTyped ==
    ASSUME WrapInit
    PROVE  CacheWrapTypeOK
<1>1. 0 \in Versions /\ source \in 1..MaxVersion
  BY DEF Versions, WrapInit
<1>2. NoL2Entry \in L2Entry /\ NoInvalidation \in Invalidation
  BY DEF Versions, NoL2Entry, L2Entry, NoInvalidation, Invalidation
<1>3. Free \in [owner : Calls \cup {Nobody}, left : 0..LockTtl] /\ Free.owner = Nobody
        /\ Free.left = 0
  BY DEF Free
<1>4. calm \in BOOLEAN
  BY DEF WrapInit
<1>5. call \in [Calls -> Call] /\ fetch \in [Pods -> Calls \cup {Nobody}]
  BY CallRecords DEF WrapInit
<1>6. l1tags \in [Pods -> BOOLEAN] /\ tagset \in BOOLEAN
  BY DEF WrapInit
<1> QED
  BY <1>1, <1>2, <1>3, <1>4, <1>5, <1>6 DEF WrapInit, CacheWrapTypeOK

(* For any bounds and settings, every variable keeps to its type. *)
THEOREM WrapTypeCorrect == WrapSpec => []CacheWrapTypeOK
<1>1. WrapInit => CacheWrapTypeOK
  BY WrapInitTyped
<1> QED
  BY <1>1, WrapTypesKept, PTL DEF WrapSpec

-----------------------------------------------------------------------------
(* What LockKept says of one step. *)
HolderKeepsLock ==
    \A c \in Calls :
        lock.owner = c /\ lock'.owner # c =>
            \/ call[c].at = "releasing" /\ call'[c].at = "idle"
            \/ lock.left = 1

(* No step takes the lock from its holder. *)
LEMMA LockStaysPut ==
    ASSUME CacheWrapTypeOK, [WrapNext]_wrapVars
    PROVE  HolderKeepsLock
<1> SUFFICES ASSUME NEW c \in Calls, lock.owner = c, lock'.owner # c
             PROVE  \/ call[c].at = "releasing" /\ call'[c].at = "idle"
                    \/ lock.left = 1
  BY DEF HolderKeepsLock
<1>1. c # Nobody /\ lock.left # 0
  BY DEF CacheWrapTypeOK
<1>2. ASSUME NEW d \in Calls, Acquire(d) PROVE FALSE
  BY <1>1, <1>2 DEF Acquire
<1>3. ASSUME NEW d \in Calls, Release(d) PROVE call[c].at = "releasing" /\ call'[c].at = "idle"
  <2>1. d = c
    BY <1>3 DEF Release
  <2>2. End(c) /\ call[c].at = "releasing"
    BY <1>3, <2>1 DEF Release
  <2>3. call'[c] = IdleCall
    BY <2>2 DEF End
  <2> QED
    BY <2>2, <2>3 DEF IdleCall
<1>4. ASSUME Tick PROVE lock.left = 1
  <2>1. ~(lock.left > 1)
    BY <1>4 DEF Tick, CacheWrapTypeOK
  <2> QED
    BY <1>1, <2>1 DEF CacheWrapTypeOK
<1>5. ASSUME UNCHANGED lock PROVE FALSE
  BY <1>5
<1> QED
  BY <1>2, <1>3, <1>4, <1>5
     DEF WrapNext, wrapVars, CallStep, InvalidationStep, Begin, Found, Repopulate, Missed,
         StopWaiting, ReadSource, StoreL1, StoreL2, IndexL2, BeginInvalidation, Scan, Unlink,
         DropSet, AbandonInvalidation, ChangeSource, ExpireL2, DropL1, Crash

(* A lock leaves its holder by release or by expiry only (cache.ts, 303). *)
THEOREM LockIsKept == WrapSpec => LockKept
<1>1. CacheWrapTypeOK /\ [WrapNext]_wrapVars => [HolderKeepsLock]_wrapVars
  BY LockStaysPut
<1> QED
  BY <1>1, WrapTypeCorrect, PTL DEF WrapSpec, LockKept, HolderKeepsLock

-----------------------------------------------------------------------------
(* The phases between fn() and the end of cacheSetWithTags(). *)
Flying == {"computing", "computed", "storing", "indexing"}

(***************************************************************************)
(* The strengthening of Coalesced: the promise a pod keeps is that of a    *)
(* call of its own that computes without the lock - one with it would give *)
(* up the promise only after the release - and who joins has one to join.  *)
(***************************************************************************)
PromiseKept ==
    \A p \in Pods : fetch[p] # Nobody =>
        /\ call[fetch[p]].pod = p
        /\ call[fetch[p]].at \in Flying
        /\ ~call[fetch[p]].held

PromiseToJoin ==
    \A c \in Calls :
        /\ call[c].at # "idle" => call[c].pod \in Pods
        /\ call[c].at = "looking" => ~call[c].held
        /\ call[c].at = "joining" => fetch[call[c].pod] # Nobody

CoalescedInv == CacheWrapTypeOK /\ PromiseKept /\ PromiseToJoin

(* It says that whoever joined has a computation under way to wait for. *)
LEMMA CoalescedFollows ==
    ASSUME CoalescedInv
    PROVE  Coalesced
<1> SUFFICES ASSUME NEW c \in Calls, call[c].at = "joining"
             PROVE  \E d \in Calls : /\ fetch[call[c].pod] = d /\ call[d].pod = call[c].pod
                                     /\ call[d].at \in {"computing", "computed", "storing", "indexing"}
  BY DEF Coalesced
<1>1. call[c].pod \in Pods /\ fetch[call[c].pod] # Nobody
  BY DEF CoalescedInv, PromiseToJoin
<1>2. fetch[call[c].pod] \in Calls
  BY <1>1 DEF CoalescedInv, CacheWrapTypeOK
<1> QED
  BY <1>1, <1>2 DEF CoalescedInv, PromiseKept, Flying

(* A call that ends settles its promise, and with it those that joined. *)
LEMMA EndSettles ==
    ASSUME CoalescedInv, NEW c \in Calls, call[c].at # "idle", End(c)
    PROVE  PromiseKept' /\ PromiseToJoin'
<1> DEFINE p == call[c].pod
           over == {d \in Calls : fetch[p] = c /\ call[d].pod = p /\ call[d].at = "joining"} \cup {c}
<1>1. p \in Pods
  BY DEF CoalescedInv, PromiseToJoin
<1>2. call' = [d \in Calls |-> IF d \in over THEN IdleCall ELSE call[d]]
  BY DEF End
<1>3. fetch' = [fetch EXCEPT ![p] = IF @ = c THEN Nobody ELSE @]
  BY DEF End
<1>4. IdleCall.at = "idle" /\ fetch \in [Pods -> Calls \cup {Nobody}] /\ c # Nobody
  BY DEF IdleCall, CoalescedInv, CacheWrapTypeOK
<1>5. ASSUME NEW q \in Pods, fetch'[q] # Nobody
      PROVE  fetch[q] \in Calls /\ fetch'[q] = fetch[q] /\ fetch[q] \notin over
  <2>1. fetch'[q] = fetch[q] /\ fetch[q] \in Calls /\ (q = p => fetch[q] # c)
    BY <1>1, <1>3, <1>4, <1>5
  <2>2. call[fetch[q]].pod = q /\ call[fetch[q]].at \in Flying
    BY <2>1, <1>4 DEF CoalescedInv, PromiseKept
  <2>3. fetch[q] # c
    BY <2>1, <2>2
  <2> QED
    BY <2>1, <2>2, <2>3 DEF Flying
<1>6. PromiseKept'
  <2> SUFFICES ASSUME NEW q \in Pods, fetch'[q] # Nobody
               PROVE  /\ call'[fetch'[q]].pod = q /\ call'[fetch'[q]].at \in Flying
                      /\ ~call'[fetch'[q]].held
    BY DEF PromiseKept
  <2>1. fetch[q] # Nobody /\ fetch'[q] = fetch[q] /\ call'[fetch[q]] = call[fetch[q]]
    BY <1>2, <1>4, <1>5
  <2> QED
    BY <2>1 DEF CoalescedInv, PromiseKept
<1>7. PromiseToJoin'
  <2> SUFFICES ASSUME NEW d \in Calls, call'[d].at # "idle"
               PROVE  /\ call'[d].pod \in Pods
                      /\ call'[d].at = "looking" => ~call'[d].held
                      /\ call'[d].at = "joining" => fetch'[call'[d].pod] # Nobody
    BY DEF PromiseToJoin
  <2>1. d \notin over /\ call'[d] = call[d]
    BY <1>2, <1>4
  <2>2. ASSUME call[d].at = "joining" PROVE fetch'[call[d].pod] # Nobody
    <3>1. fetch[call[d].pod] # Nobody /\ call[d].pod \in Pods
      BY <2>2 DEF CoalescedInv, PromiseToJoin
    <3>2. call[d].pod = p => fetch[p] # c
      BY <2>1, <2>2
    <3> QED
      BY <1>1, <1>3, <1>4, <3>1, <3>2
  <2> QED
    BY <2>1, <2>2 DEF CoalescedInv, PromiseToJoin
<1> QED
  BY <1>6, <1>7

(* A call that goes on, with its lock and its promise, if it has one. *)
LEMMA BecomeKeepsPromise ==
    ASSUME CoalescedInv, NEW c \in Calls, NEW rec, Become(c, rec), UNCHANGED fetch,
           rec.pod = call[c].pod, call[c].at # "idle", rec.at # "looking",
           rec.at = "joining" => fetch[rec.pod] # Nobody,
           call[c].at \in Flying /\ ~call[c].held => rec.at \in Flying /\ ~rec.held
    PROVE  PromiseKept' /\ PromiseToJoin'
<1>1. call'[c] = rec /\ \A d \in Calls \ {c} : call'[d] = call[d]
  BY DEF Become, CoalescedInv, CacheWrapTypeOK
<1>2. PromiseKept'
  <2> SUFFICES ASSUME NEW q \in Pods, fetch[q] # Nobody
               PROVE  /\ call'[fetch[q]].pod = q /\ call'[fetch[q]].at \in Flying
                      /\ ~call'[fetch[q]].held
    BY DEF PromiseKept
  <2>1. fetch[q] \in Calls
    BY DEF CoalescedInv, CacheWrapTypeOK
  <2> QED
    BY <1>1, <2>1 DEF CoalescedInv, PromiseKept
<1>3. PromiseToJoin'
  BY <1>1 DEF CoalescedInv, PromiseToJoin
<1> QED
  BY <1>2, <1>3

(* The same for a change of phase alone, *)
LEMMA MoveKeepsPromise ==
    ASSUME CoalescedInv, NEW c \in Calls, NEW at, Move(c, at), UNCHANGED fetch,
           call[c].at # "idle", at # "looking",
           at = "joining" => fetch[call[c].pod] # Nobody,
           call[c].at \in Flying /\ ~call[c].held => at \in Flying
    PROVE  PromiseKept' /\ PromiseToJoin'
<1>1. call[c] \in Call
  BY DEF CoalescedInv, CacheWrapTypeOK
<1> DEFINE rec == [call[c] EXCEPT !.at = at]
<1>2. rec.at = at /\ rec.pod = call[c].pod /\ rec.held = call[c].held
  BY <1>1 DEF Call
<1>3. Become(c, rec)
  BY DEF Move
<1> HIDE DEF rec
<1> QED
  BY <1>2, <1>3, BecomeKeepsPromise

(* for a call that leaves the lock or ends, *)
LEMMA LeaveSettles ==
    ASSUME CoalescedInv, NEW c \in Calls, call[c].at # "idle", Leave(c)
    PROVE  PromiseKept' /\ PromiseToJoin'
<1>1. CASE call[c].held
  BY <1>1, MoveKeepsPromise DEF Leave
<1>2. CASE ~call[c].held
  BY <1>2, EndSettles DEF Leave
<1> QED
  BY <1>1, <1>2

(* and for a lookup. *)
LEMMA LookInKeepsPromise ==
    ASSUME CoalescedInv, NEW c \in Calls, NEW rec \in Call, LookIn(c, rec),
           rec.pod = call[c].pod, call[c].at \notin Flying \cup {"idle"},
           rec.at \in {"again", "rechecking"}
    PROVE  PromiseKept' /\ PromiseToJoin'
<1>1. CASE Become(c, rec) /\ UNCHANGED fetch
  BY <1>1, BecomeKeepsPromise
<1>2. CASE Become(c, [rec EXCEPT !.at = "releasing"]) /\ UNCHANGED fetch
  <2> DEFINE r == [rec EXCEPT !.at = "releasing"]
  <2>1. r.at = "releasing" /\ r.pod = rec.pod
    BY DEF Call
  <2>2. Become(c, r) /\ UNCHANGED fetch
    BY <1>2
  <2> HIDE DEF r
  <2> QED
    BY <2>1, <2>2, BecomeKeepsPromise
<1>3. CASE End(c)
  BY <1>3, EndSettles
<1> QED
  BY <1>1, <1>2, <1>3 DEF LookIn

(* A step of a call keeps the promises; Missed() with an empty activeFetches makes one. *)
LEMMA CallsKeepPromises ==
    ASSUME CoalescedInv, NEW c \in Calls, CallStep(c)
    PROVE  PromiseKept' /\ PromiseToJoin'
<1>0. call[c] \in Call /\ (call[c].at # "idle" => call[c].pod \in Pods)
  BY DEF CoalescedInv, CacheWrapTypeOK, PromiseToJoin
<1>1. CASE Found(c)
  <2> DEFINE rec == [call[c] EXCEPT !.at = "found", !.version = l2.version]
  <2>1. rec.at = "found" /\ rec.pod = call[c].pod
    BY <1>0 DEF Call
  <2>2. Become(c, rec) /\ UNCHANGED fetch /\ call[c].at \notin Flying \cup {"idle"}
    BY <1>1 DEF Found, Flying
  <2> HIDE DEF rec
  <2> QED
    BY <2>1, <2>2, BecomeKeepsPromise
<1>2. CASE Repopulate(c)
  BY <1>2, LeaveSettles DEF Repopulate
<1>3. CASE Missed(c)
  <2> DEFINE rec == Computing(c)
  <2>0. rec.at = "computing" /\ rec.pod = call[c].pod /\ rec.held = call[c].held
    BY <1>0 DEF Computing, Call
  <2>1. CASE call[c].at = "looking" /\ Move(c, "locking") /\ UNCHANGED fetch
    BY <2>1, MoveKeepsPromise DEF Flying
  <2>2. CASE call[c].at = "again" /\ LookIn(c, [call[c] EXCEPT !.at = "rechecking"])
    <3> DEFINE r == [call[c] EXCEPT !.at = "rechecking"]
    <3>1. r \in Call /\ r.at = "rechecking" /\ r.pod = call[c].pod
      BY <1>0 DEF Call
    <3>2. LookIn(c, r)
      BY <2>2
    <3> HIDE DEF r
    <3> QED
      BY <2>2, <3>1, <3>2, LookInKeepsPromise DEF Flying
  <2>3. CASE call[c].at = "rechecking" /\ Become(c, rec) /\ UNCHANGED fetch
    <3> HIDE DEF rec
    <3> QED
      BY <2>0, <2>3, BecomeKeepsPromise DEF Flying
  <2>4. CASE /\ call[c].at = "looking" /\ fetch[call[c].pod] = Nobody
             /\ fetch' = [fetch EXCEPT ![call[c].pod] = c] /\ Become(c, rec)
    <3> HIDE DEF rec
    <3>1. ~call[c].held /\ call[c].pod \in Pods /\ c # Nobody
      BY <1>0, <2>4 DEF CoalescedInv, PromiseToJoin
    <3>2. call'[c] = rec /\ \A d \in Calls \ {c} : call'[d] = call[d]
      BY <2>4 DEF Become, CoalescedInv, CacheWrapTypeOK
    <3>3. fetch \in [Pods -> Calls \cup {Nobody}]
      BY DEF CoalescedInv, CacheWrapTypeOK
    <3>4. PromiseKept'
      <4> SUFFICES ASSUME NEW q \in Pods, fetch'[q] # Nobody
                   PROVE  /\ call'[fetch'[q]].pod = q /\ call'[fetch'[q]].at \in Flying
                          /\ ~call'[fetch'[q]].held
        BY DEF PromiseKept
      <4>1. CASE q = call[c].pod
        BY <2>0, <2>4, <3>1, <3>2, <3>3, <4>1 DEF Flying
      <4>2. CASE q # call[c].pod
        <5>1. fetch'[q] = fetch[q] /\ fetch[q] \in Calls
          BY <2>4, <3>3, <4>2
        <5>2. fetch[q] # c
          BY <5>1, <4>2 DEF CoalescedInv, PromiseKept
        <5> QED
          BY <3>2, <5>1, <5>2 DEF CoalescedInv, PromiseKept
      <4> QED
        BY <4>1, <4>2
    <3>5. PromiseToJoin'
      BY <2>0, <2>4, <3>1, <3>2, <3>3 DEF CoalescedInv, PromiseToJoin
    <3> QED
      BY <3>4, <3>5
  <2>5. CASE call[c].at = "looking" /\ fetch[call[c].pod] # Nobody /\ Move(c, "joining")
             /\ UNCHANGED fetch
    BY <2>5, MoveKeepsPromise DEF Flying
  <2> QED
    BY <1>3, <2>1, <2>2, <2>3, <2>4, <2>5 DEF Missed
<1>4. CASE Acquire(c)
  <2> DEFINE r == [call[c] EXCEPT !.at = "rechecking", !.held = TRUE]
  <2>1. r \in Call /\ r.at = "rechecking" /\ r.pod = call[c].pod
    BY <1>0 DEF Call
  <2>2. call[c].at = "locking" /\ (LookIn(c, r) \/ (Move(c, "waiting") /\ UNCHANGED fetch))
    BY <1>4 DEF Acquire
  <2> HIDE DEF r
  <2> QED
    BY <2>1, <2>2, LookInKeepsPromise, MoveKeepsPromise DEF Flying
<1>5. CASE StopWaiting(c)
  <2> DEFINE r == [call[c] EXCEPT !.at = "again", !.waited = 0]
  <2>1. r \in Call
    BY <1>0, CallRecords
  <2>2. r.at = "again" /\ r.pod = call[c].pod
    BY <1>0 DEF Call
  <2>3. call[c].at = "waiting" /\ LookIn(c, r)
    BY <1>5 DEF StopWaiting
  <2> HIDE DEF r
  <2> QED
    BY <2>1, <2>2, <2>3, LookInKeepsPromise DEF Flying
<1>6. CASE ReadSource(c)
  <2> DEFINE r == [call[c] EXCEPT !.at = "computed", !.version = source]
  <2>1. r.at = "computed" /\ r.pod = call[c].pod /\ r.held = call[c].held
    BY <1>0 DEF Call
  <2>2. call[c].at = "computing" /\ (Leave(c) \/ (Become(c, r) /\ UNCHANGED fetch))
    BY <1>6 DEF ReadSource
  <2> HIDE DEF r
  <2> QED
    BY <2>1, <2>2, LeaveSettles, BecomeKeepsPromise DEF Flying
<1>7. CASE StoreL1(c)
  BY <1>7, MoveKeepsPromise DEF StoreL1, Flying
<1>8. CASE StoreL2(c)
  BY <1>8, MoveKeepsPromise DEF StoreL2, Flying
<1>9. CASE IndexL2(c)
  BY <1>9, LeaveSettles DEF IndexL2
<1>10. CASE Release(c)
  BY <1>10, EndSettles DEF Release
<1> QED
  BY <1>1, <1>2, <1>3, <1>4, <1>5, <1>6, <1>7, <1>8, <1>9, <1>10 DEF CallStep

(* A step that leaves promises, pods, phases and locks of the calls alone. *)
LEMMA SamePromises ==
    ASSUME CoalescedInv, UNCHANGED fetch,
           \A c \in Calls : /\ call'[c].at = call[c].at /\ call'[c].pod = call[c].pod
                            /\ call'[c].held = call[c].held
    PROVE  PromiseKept' /\ PromiseToJoin'
<1>1. \A p \in Pods : fetch[p] # Nobody => fetch[p] \in Calls
  BY DEF CoalescedInv, CacheWrapTypeOK
<1>2. PromiseKept'
  BY <1>1 DEF CoalescedInv, PromiseKept
<1> QED
  BY <1>2 DEF CoalescedInv, PromiseToJoin

(* A crash takes the promise with the calls of its pod. *)
LEMMA CrashSettles ==
    ASSUME CoalescedInv, NEW p \in Pods, Crash(p)
    PROVE  PromiseKept' /\ PromiseToJoin'
<1>1. /\ fetch' = [fetch EXCEPT ![p] = Nobody]
      /\ call' = [c \in Calls |-> IF call[c].pod = p THEN IdleCall ELSE call[c]]
      /\ fetch \in [Pods -> Calls \cup {Nobody}] /\ IdleCall.at = "idle"
  BY DEF Crash, CoalescedInv, CacheWrapTypeOK, IdleCall
<1>2. ASSUME NEW q \in Pods, fetch'[q] # Nobody
      PROVE  fetch'[q] = fetch[q] /\ fetch[q] # Nobody /\ call'[fetch[q]] = call[fetch[q]]
  <2>1. q # p /\ fetch'[q] = fetch[q] /\ fetch[q] \in Calls /\ fetch[q] # Nobody
    BY <1>1, <1>2
  <2>2. call[fetch[q]].pod = q
    BY <2>1 DEF CoalescedInv, PromiseKept
  <2> QED
    BY <1>1, <2>1, <2>2
<1>3. PromiseKept'
  <2> SUFFICES ASSUME NEW q \in Pods, fetch'[q] # Nobody
               PROVE  /\ call'[fetch'[q]].pod = q /\ call'[fetch'[q]].at \in Flying
                      /\ ~call'[fetch'[q]].held
    BY DEF PromiseKept
  <2> QED
    BY <1>2 DEF CoalescedInv, PromiseKept
<1>4. PromiseToJoin'
  <2> SUFFICES ASSUME NEW d \in Calls, call'[d].at # "idle"
               PROVE  /\ call'[d].pod \in Pods
                      /\ call'[d].at = "looking" => ~call'[d].held
                      /\ call'[d].at = "joining" => fetch'[call'[d].pod] # Nobody
    BY DEF PromiseToJoin
  <2>1. call'[d] = call[d] /\ call[d].pod # p /\ call[d].pod \in Pods
    BY <1>1 DEF CoalescedInv, PromiseToJoin
  <2> QED
    BY <1>1, <2>1 DEF CoalescedInv, PromiseToJoin
<1> QED
  BY <1>3, <1>4

(* CoalescedInv is inductive. *)
LEMMA PromisesKept ==
    CoalescedInv /\ [WrapNext]_wrapVars => CoalescedInv'
<1> SUFFICES ASSUME CoalescedInv, [WrapNext]_wrapVars PROVE CoalescedInv'
  OBVIOUS
<1>0. CacheWrapTypeOK' /\ call \in [Calls -> Call]
  BY WrapTypesKept DEF CoalescedInv, CacheWrapTypeOK
<1>1. ASSUME NEW c \in Calls, NEW p \in Pods, Begin(c, p) PROVE PromiseKept' /\ PromiseToJoin'
  <2> DEFINE rec == [IdleCall EXCEPT !.at = "looking", !.pod = p]
  <2>1. rec.at = "looking" /\ rec.pod = p /\ rec.held = FALSE
    BY DEF IdleCall
  <2>2. call' = [call EXCEPT ![c] = rec] /\ call[c].at = "idle" /\ UNCHANGED fetch
    BY <1>1 DEF Begin, Become
  <2> HIDE DEF rec
  <2>3. call'[c] = rec /\ \A d \in Calls \ {c} : call'[d] = call[d]
    BY <1>0, <2>2
  <2>4. \A q \in Pods : fetch[q] # Nobody => fetch[q] \in Calls /\ fetch[q] # c
    BY <2>2 DEF CoalescedInv, CacheWrapTypeOK, PromiseKept, Flying
  <2>5. PromiseKept'
    BY <2>2, <2>3, <2>4 DEF CoalescedInv, PromiseKept
  <2> QED
    BY <2>1, <2>2, <2>3, <2>5 DEF CoalescedInv, PromiseToJoin
<1>2. ASSUME NEW p \in Pods, NEW by \in {"tag", "prefix", "key"}, BeginInvalidation(p, by)
      PROVE  PromiseKept' /\ PromiseToJoin'
  <2>1. \A c \in Calls : /\ call'[c].at = call[c].at /\ call'[c].pod = call[c].pod
                         /\ call'[c].held = call[c].held
    BY <1>0, <1>2 DEF BeginInvalidation, Call
  <2> QED
    BY <1>2, <2>1, SamePromises DEF BeginInvalidation
<1>3. ASSUME Tick PROVE PromiseKept' /\ PromiseToJoin'
  <2>1. \A c \in Calls : /\ call'[c].at = call[c].at /\ call'[c].pod = call[c].pod
                         /\ call'[c].held = call[c].held
    BY <1>0, <1>3 DEF Tick, Call
  <2> QED
    BY <1>3, <2>1, SamePromises DEF Tick
<1>4. ASSUME UNCHANGED <<fetch, call>> PROVE PromiseKept' /\ PromiseToJoin'
  BY <1>4, SamePromises
<1>5. ASSUME NEW p \in Pods, InvalidationStep(p) PROVE UNCHANGED <<fetch, call>>
  BY <1>5 DEF InvalidationStep, Scan, Unlink, DropSet, AbandonInvalidation
<1>6. ASSUME ChangeSource \/ ExpireL2 \/ (\E p \in Pods : DropL1(p)) \/ UNCHANGED wrapVars
      PROVE  UNCHANGED <<fetch, call>>
  BY <1>6 DEF ChangeSource, ExpireL2, DropL1, wrapVars
<1> QED
  BY <1>0, <1>1, <1>2, <1>3, <1>4, <1>5, <1>6, CallsKeepPromises, CrashSettles
     DEF WrapNext, CoalescedInv

(***************************************************************************)
(* Whoever waits for a computation of its pod waits for one under way      *)
(* (cache.ts, 451).                                                        *)
(***************************************************************************)
THEOREM JoinsUnderWay == WrapSpec => []Coalesced
<1>1. WrapInit => CoalescedInv
  <2> SUFFICES ASSUME WrapInit PROVE CoalescedInv
    OBVIOUS
  <2>1. CacheWrapTypeOK
    BY WrapInitTyped
  <2>2. \A c \in Calls : call[c].at = "idle"
    BY DEF WrapInit, IdleCall
  <2> QED
    BY <2>1, <2>2 DEF WrapInit, CoalescedInv, PromiseKept, PromiseToJoin
<1>2. CoalescedInv => Coalesced
  BY CoalescedFollows
<1> QED
  BY <1>1, <1>2, PromisesKept, PTL DEF WrapSpec

-----------------------------------------------------------------------------
(***************************************************************************)
(* The strengthening of RemovedForGood.  An entry nothing taints is as new *)
(* as what was removed; while it is there the set lists it once it is      *)
(* indexed, and so does the set an invalidation is about to scan - no      *)
(* invalidation can have passed it by.                                     *)
(***************************************************************************)
Clean == l2.version # 0 /\ ~l2.tainted

EntryKept ==
    /\ removed <= source
    /\ \A p \in Pods : inv[p].version <= source
    /\ Clean => /\ removed <= l2.version
                /\ l2.indexed => tagset
                /\ \A p \in Pods : /\ inv[p].at # "drop"
                                   /\ inv[p].at = "scan" /\ inv[p].byTag => tagset

(* A call that overlaps no invalidation has read what none has removed since. *)
InTime(x, underway, gone) ==
    /\ x.at \in {"computing", "computed", "storing"} /\ ~x.overlap => ~underway
    /\ x.at \in {"computed", "storing"} /\ ~x.overlap => gone <= x.version

RemovedInv ==
    CacheWrapTypeOK /\ EntryKept /\ \A c \in Calls : InTime(call[c], Invalidating, removed)

(* It says that what was removed stays out. *)
LEMMA RemovedFollows ==
    ASSUME RemovedInv
    PROVE  RemovedForGood
<1>1. removed \in Nat /\ l2.version \in Nat
  BY DEF RemovedInv, CacheWrapTypeOK, Versions, L2Entry
<1>2. ASSUME l2.version \in 1..(removed - 1) PROVE l2.tainted
  BY <1>1, <1>2 DEF RemovedInv, EntryKept, Clean
<1> QED
  BY <1>2 DEF RemovedForGood

(* While no invalidation moves, a call that becomes rec changes what that one call knows. *)
LEMMA BecomeInTime ==
    ASSUME RemovedInv, UNCHANGED <<inv, removed>>,
           NEW c \in Calls, NEW rec, Become(c, rec), InTime(rec, Invalidating, removed)
    PROVE  \A d \in Calls : InTime(call'[d], Invalidating', removed')
<1>1. call'[c] = rec /\ \A d \in Calls \ {c} : call'[d] = call[d]
  BY DEF Become, RemovedInv, CacheWrapTypeOK
<1>2. Invalidating' = Invalidating /\ removed' = removed
  BY DEF Invalidating
<1> QED
  BY <1>1, <1>2 DEF RemovedInv

(* A call that ends, and those that joined it, know nothing any more. *)
LEMMA EndInTime ==
    ASSUME RemovedInv, UNCHANGED <<inv, removed>>, NEW c \in Calls, End(c)
    PROVE  \A d \in Calls : InTime(call'[d], Invalidating', removed')
<1>1. \A d \in Calls : call'[d] = IdleCall \/ call'[d] = call[d]
  BY DEF End
<1>2. InTime(IdleCall, Invalidating, removed)
  BY DEF IdleCall, InTime
<1>3. Invalidating' = Invalidating /\ removed' = removed
  BY DEF Invalidating
<1> QED
  BY <1>1, <1>2, <1>3 DEF RemovedInv

(* Nor does one that moves to a phase without a computation, *)
LEMMA MoveInTime ==
    ASSUME RemovedInv, UNCHANGED <<inv, removed>>, NEW c \in Calls, NEW at, Move(c, at),
           at \notin {"computing", "computed", "storing"}
    PROVE  \A d \in Calls : InTime(call'[d], Invalidating', removed')
<1> DEFINE rec == [call[c] EXCEPT !.at = at]
<1>1. rec.at = at /\ Become(c, rec)
  BY DEF Move, RemovedInv, CacheWrapTypeOK, Call
<1> HIDE DEF rec
<1>2. InTime(rec, Invalidating, removed)
  BY <1>1 DEF InTime
<1> QED
  BY <1>1, <1>2, BecomeInTime

(* leaves the lock, *)
LEMMA LeaveInTime ==
    ASSUME RemovedInv, UNCHANGED <<inv, removed>>, NEW c \in Calls, Leave(c)
    PROVE  \A d \in Calls : InTime(call'[d], Invalidating', removed')
  BY MoveInTime, EndInTime DEF Leave

(* or looks the key up. *)
LEMMA LookInInTime ==
    ASSUME RemovedInv, UNCHANGED <<inv, removed>>, NEW c \in Calls, NEW rec \in Call,
           LookIn(c, rec), rec.at \in {"again", "rechecking"}
    PROVE  \A d \in Calls : InTime(call'[d], Invalidating', removed')
<1>1. CASE Become(c, rec)
  <2>1. InTime(rec, Invalidating, removed)
    BY DEF InTime
  <2> QED
    BY <1>1, <2>1, BecomeInTime
<1>2. CASE Become(c, [rec EXCEPT !.at = "releasing"])
  <2> DEFINE r == [rec EXCEPT !.at = "releasing"]
  <2>1. r.at = "releasing" /\ Become(c, r)
    BY <1>2 DEF Call
  <2> HIDE DEF r
  <2>2. InTime(r, Invalidating, removed)
    BY <2>1 DEF InTime
  <2> QED
    BY <2>1, <2>2, BecomeInTime
<1>3. CASE End(c)
  BY <1>3, EndInTime
<1> QED
  BY <1>1, <1>2, <1>3 DEF LookIn

(* What a call does concerns no invalidation, *)
LEMMA CallsRemoveNothing ==
    ASSUME NEW c \in Calls, CallStep(c) \/ \E p \in Pods : Begin(c, p)
    PROVE  UNCHANGED <<inv, removed, source>>
<1>1. ASSUME \E p \in Pods : Begin(c, p) PROVE UNCHANGED <<inv, removed, source>>
  BY <1>1 DEF Begin, wrapHistory
<1>2. ASSUME Found(c) \/ Repopulate(c) \/ Missed(c) PROVE UNCHANGED <<inv, removed, source>>
  BY <1>2 DEF Found, Repopulate, Missed, wrapHistory
<1>3. ASSUME Acquire(c) \/ StopWaiting(c) \/ ReadSource(c) PROVE UNCHANGED <<inv, removed, source>>
  BY <1>3 DEF Acquire, StopWaiting, ReadSource
<1>4. ASSUME StoreL1(c) \/ StoreL2(c) \/ IndexL2(c) \/ Release(c)
      PROVE  UNCHANGED <<inv, removed, source>>
  BY <1>4 DEF StoreL1, StoreL2, IndexL2, Release, wrapHistory
<1> QED
  BY <1>1, <1>2, <1>3, <1>4 DEF CallStep

(* and but for storing and indexing neither the entry nor the set. *)
LEMMA CallsWriteNothing ==
    ASSUME NEW c \in Calls, CallStep(c) \/ \E p \in Pods : Begin(c, p),
           ~StoreL2(c), ~IndexL2(c)
    PROVE  UNCHANGED <<l2, tagset>>
<1>1. ASSUME \E p \in Pods : Begin(c, p) PROVE UNCHANGED <<l2, tagset>>
  BY <1>1 DEF Begin, levels
<1>2. ASSUME Found(c) \/ Repopulate(c) \/ Missed(c) PROVE UNCHANGED <<l2, tagset>>
  BY <1>2 DEF Found, Repopulate, Missed, levels
<1>3. ASSUME Acquire(c) \/ StopWaiting(c) \/ ReadSource(c) PROVE UNCHANGED <<l2, tagset>>
  BY <1>3 DEF Acquire, StopWaiting, ReadSource, levels
<1>4. ASSUME StoreL1(c) \/ Release(c) PROVE UNCHANGED <<l2, tagset>>
  BY <1>4 DEF StoreL1, Release, levels
<1> QED
  BY <1>1, <1>2, <1>3, <1>4 DEF CallStep

(* What a call does keeps every call in time. *)
LEMMA CallsInTime ==
    ASSUME RemovedInv, NEW c \in Calls, CallStep(c) \/ \E p \in Pods : Begin(c, p)
    PROVE  UNCHANGED <<inv, removed>> /\ \A d \in Calls : InTime(call'[d], Invalidating', removed')
<1>0. call[c] \in Call /\ InTime(call[c], Invalidating, removed)
  BY DEF RemovedInv, CacheWrapTypeOK
<1>1. UNCHANGED <<inv, removed>>
  BY CallsRemoveNothing
<1>2. ASSUME NEW p \in Pods, Begin(c, p)
      PROVE  \A d \in Calls : InTime(call'[d], Invalidating', removed')
  <2> DEFINE rec == [IdleCall EXCEPT !.at = "looking", !.pod = p]
  <2>1. rec.at = "looking" /\ Become(c, rec)
    <3>1. rec.at = "looking"
      BY DEF IdleCall
    <3> QED
      BY <1>2, <3>1 DEF Begin
  <2> HIDE DEF rec
  <2>2. InTime(rec, Invalidating, removed)
    BY <2>1 DEF InTime
  <2> QED
    BY <1>1, <2>1, <2>2, BecomeInTime
<1>3. ASSUME Found(c) PROVE \A d \in Calls : InTime(call'[d], Invalidating', removed')
  <2> DEFINE rec == [call[c] EXCEPT !.at = "found", !.version = l2.version]
  <2>1. rec.at = "found" /\ Become(c, rec)
    BY <1>0, <1>3 DEF Call, Found
  <2> HIDE DEF rec
  <2>2. InTime(rec, Invalidating, removed)
    BY <2>1 DEF InTime
  <2> QED
    BY <1>1, <2>1, <2>2, BecomeInTime
<1>4. ASSUME Repopulate(c) \/ IndexL2(c)
      PROVE  \A d \in Calls : InTime(call'[d], Invalidating', removed')
  BY <1>1, <1>4, LeaveInTime DEF Repopulate, IndexL2
<1>5. ASSUME Missed(c) PROVE \A d \in Calls : InTime(call'[d], Invalidating', removed')
  <2> DEFINE rec == Computing(c)
             r == [call[c] EXCEPT !.at = "rechecking"]
  <2>1. InTime(rec, Invalidating, removed)
    BY <1>0 DEF Computing, Call, InTime
  <2>2. r \in Call /\ r.at = "rechecking"
    BY <1>0 DEF Call
  <2>3. \/ Move(c, "locking") \/ Move(c, "joining") \/ LookIn(c, r) \/ Become(c, rec)
    BY <1>5 DEF Missed
  <2> HIDE DEF rec, r
  <2> QED
    BY <1>1, <2>1, <2>2, <2>3, MoveInTime, LookInInTime, BecomeInTime
<1>6. ASSUME Acquire(c) PROVE \A d \in Calls : InTime(call'[d], Invalidating', removed')
  <2> DEFINE r == [call[c] EXCEPT !.at = "rechecking", !.held = TRUE]
  <2>1. r \in Call /\ r.at = "rechecking"
    BY <1>0 DEF Call
  <2>2. Move(c, "waiting") \/ LookIn(c, r)
    BY <1>6 DEF Acquire
  <2> HIDE DEF r
  <2> QED
    BY <1>1, <2>1, <2>2, MoveInTime, LookInInTime
<1>7. ASSUME StopWaiting(c) PROVE \A d \in Calls : InTime(call'[d], Invalidating', removed')
  <2> DEFINE r == [call[c] EXCEPT !.at = "again", !.waited = 0]
  <2>1. r \in Call
    BY <1>0, CallRecords
  <2>2. r.at = "again" /\ LookIn(c, r)
    BY <1>0, <1>7 DEF Call, StopWaiting
  <2> HIDE DEF r
  <2> QED
    BY <1>1, <2>1, <2>2, LookInInTime
<1>8. ASSUME ReadSource(c) PROVE \A d \in Calls : InTime(call'[d], Invalidating', removed')
  <2> DEFINE rec == [call[c] EXCEPT !.at = "computed", !.version = source]
  <2>1. rec.at = "computed" /\ rec.version = source /\ rec.overlap = call[c].overlap
    BY <1>0 DEF Call
  <2>2. Leave(c) \/ Become(c, rec)
    BY <1>8 DEF ReadSource
  <2>3. call[c].at = "computing" /\ removed <= source
    BY <1>8 DEF ReadSource, RemovedInv, EntryKept
  <2> HIDE DEF rec
  <2>4. InTime(rec, Invalidating, removed)
    BY <1>0, <2>1, <2>3 DEF InTime
  <2> QED
    BY <1>1, <2>2, <2>4, LeaveInTime, BecomeInTime
<1>9. ASSUME StoreL1(c) PROVE \A d \in Calls : InTime(call'[d], Invalidating', removed')
  <2> DEFINE rec == [call[c] EXCEPT !.at = "storing"]
  <2>1. rec.at = "storing" /\ rec.version = call[c].version /\ rec.overlap = call[c].overlap
    BY <1>0 DEF Call
  <2>2. Become(c, rec) /\ call[c].at = "computed"
    BY <1>9 DEF StoreL1, Move
  <2> HIDE DEF rec
  <2>3. InTime(rec, Invalidating, removed)
    BY <1>0, <2>1, <2>2 DEF InTime
  <2> QED
    BY <1>1, <2>2, <2>3, BecomeInTime
<1>10. ASSUME StoreL2(c) PROVE \A d \in Calls : InTime(call'[d], Invalidating', removed')
  BY <1>1, <1>10, MoveInTime DEF StoreL2
<1>11. ASSUME Release(c) PROVE \A d \in Calls : InTime(call'[d], Invalidating', removed')
  BY <1>1, <1>11, EndInTime DEF Release
<1> QED
  BY <1>1, <1>2, <1>3, <1>4, <1>5, <1>6, <1>7, <1>8, <1>9, <1>10, <1>11 DEF CallStep

(* Of the steps of a call, those that store and index write what the entry may be. *)
LEMMA CallsKeepEntry ==
    ASSUME RemovedInv, NEW c \in Calls, CallStep(c) \/ \E p \in Pods : Begin(c, p)
    PROVE  EntryKept'
<1>1. UNCHANGED <<inv, removed, source>>
  BY CallsRemoveNothing
<1>2. CASE UNCHANGED <<l2, tagset>>
  BY <1>1, <1>2 DEF RemovedInv, EntryKept, Clean
<1>3. CASE StoreL2(c)
  <2>1. CASE l2' = [version |-> call[c].version, tainted |-> call[c].overlap, indexed |-> FALSE]
    <3>1. l2'.version = call[c].version /\ l2'.tainted = call[c].overlap /\ l2'.indexed = FALSE
      BY <2>1
    <3>2. call[c].at = "storing" /\ InTime(call[c], Invalidating, removed)
      BY <1>3 DEF StoreL2, RemovedInv
    <3>3. Clean' => removed <= call[c].version /\ ~Invalidating
      BY <3>1, <3>2 DEF Clean, InTime
    <3> QED
      BY <1>1, <3>1, <3>3 DEF RemovedInv, EntryKept, Invalidating
  <2>2. CASE UNCHANGED l2
    BY <1>1, <1>3, <2>2 DEF StoreL2, RemovedInv, EntryKept, Clean
  <2> QED
    BY <1>3, <2>1, <2>2 DEF StoreL2
<1>4. CASE IndexL2(c)
  <2>1. CASE tagset' /\ l2' = [l2 EXCEPT !.indexed = l2.version # 0 /\ ~Invalidating]
    <3>1. l2'.version = l2.version /\ l2'.tainted = l2.tainted
      BY <2>1 DEF RemovedInv, CacheWrapTypeOK, L2Entry
    <3> QED
      BY <1>1, <2>1, <3>1 DEF RemovedInv, EntryKept, Clean
  <2>2. CASE UNCHANGED <<tagset, l2>>
    BY <1>1, <2>2 DEF RemovedInv, EntryKept, Clean
  <2> QED
    BY <1>4, <2>1, <2>2 DEF IndexL2
<1> QED
  BY <1>2, <1>3, <1>4, CallsWriteNothing

(* An invalidation that begins is seen by every computation, and by an entry not indexed. *)
LEMMA BeginningSeen ==
    ASSUME RemovedInv, NEW p \in Pods, NEW by \in {"tag", "prefix", "key"},
           BeginInvalidation(p, by)
    PROVE  RemovedInv'
<1>0. CacheWrapTypeOK'
  BY InvalidationTypes DEF RemovedInv
<1>1. /\ inv' = [inv EXCEPT ![p] = [at |-> IF by = "key" THEN "unlink" ELSE "scan",
                                    byTag |-> by = "tag", version |-> source]]
      /\ l2' = [l2 EXCEPT !.tainted = @ \/ (l2.version # 0 /\ ~l2.indexed)]
      /\ UNCHANGED <<source, tagset, removed>>
  BY DEF BeginInvalidation, wrapHistory
<1>2. inv \in [Pods -> Invalidation] /\ l2 \in L2Entry /\ call \in [Calls -> Call] /\ source \in Nat
  BY DEF RemovedInv, CacheWrapTypeOK
<1>3. /\ inv'[p].version = source /\ inv'[p].at \in {"scan", "unlink"}
      /\ \A q \in Pods \ {p} : inv'[q] = inv[q]
  BY <1>1, <1>2
<1>4. /\ l2'.version = l2.version /\ l2'.indexed = l2.indexed
      /\ l2'.tainted = (l2.tainted \/ (l2.version # 0 /\ ~l2.indexed))
  BY <1>1, <1>2 DEF L2Entry
<1>5. Clean' => Clean /\ l2.indexed
  BY <1>4 DEF Clean
<1>6. EntryKept'
  BY <1>1, <1>2, <1>3, <1>4, <1>5 DEF RemovedInv, EntryKept
<1>7. ASSUME NEW c \in Calls PROVE InTime(call'[c], Invalidating', removed')
  <2>1. CASE call[c].at \in {"computing", "computed", "storing", "indexing"}
    <3>1. call'[c] = [call[c] EXCEPT !.overlap = TRUE]
      BY <2>1 DEF BeginInvalidation
    <3>2. call'[c].overlap
      BY <1>2, <3>1 DEF Call
    <3> QED
      BY <3>2 DEF InTime
  <2>2. CASE call[c].at \notin {"computing", "computed", "storing", "indexing"}
    <3>1. call'[c] = call[c]
      BY <2>2 DEF BeginInvalidation
    <3> QED
      BY <2>2, <3>1 DEF InTime
  <2> QED
    BY <2>1, <2>2
<1> QED
  BY <1>0, <1>6, <1>7 DEF RemovedInv

(* While an invalidation is under way no call is in time, so removed may grow. *)
LEMMA NobodyInTime ==
    ASSUME RemovedInv, NEW p \in Pods, inv[p].at # "none", UNCHANGED call
    PROVE  \A c \in Calls : InTime(call'[c], Invalidating', removed')
  BY DEF RemovedInv, InTime, Invalidating

(* The steps of an invalidation remove the entry, or find none that is clean. *)
LEMMA InvalidationsKeepEntry ==
    ASSUME RemovedInv, NEW p \in Pods, InvalidationStep(p)
    PROVE  RemovedInv'
<1>0. CacheWrapTypeOK'
  BY InvalidationTypes DEF RemovedInv
<1>1. inv[p].at # "none" /\ UNCHANGED <<call, source>>
  BY DEF InvalidationStep, Scan, Unlink, DropSet, AbandonInvalidation
<1>2. \A c \in Calls : InTime(call'[c], Invalidating', removed')
  BY <1>1, NobodyInTime
<1>3. /\ inv \in [Pods -> Invalidation] /\ removed \in Nat /\ source \in Nat
      /\ \A q \in Pods : inv[q].version \in Nat
      /\ NoInvalidation.at = "none" /\ NoInvalidation.version = 0 /\ NoL2Entry.version = 0
  BY DEF RemovedInv, CacheWrapTypeOK, Invalidation, Versions, NoInvalidation, NoL2Entry
<1>4. ASSUME NEW at, Proceed(p, at)
      PROVE  /\ removed' = removed
             /\ inv'[p].at = at /\ inv'[p].version = inv[p].version
             /\ \A q \in Pods \ {p} : inv'[q] = inv[q]
  BY <1>3, <1>4 DEF Proceed, Invalidation
<1>5. ASSUME Finish(p)
      PROVE  /\ removed' <= source
             /\ inv'[p].at = "none" /\ inv'[p].version = 0
             /\ \A q \in Pods \ {p} : inv'[q] = inv[q]
  BY <1>3, <1>5 DEF Finish, RemovedInv, EntryKept
<1>6. ASSUME NEW at, Proceed(p, at), ~Clean' PROVE EntryKept'
  BY <1>1, <1>3, <1>4, <1>6 DEF RemovedInv, EntryKept
<1>7. ASSUME Finish(p), ~Clean' PROVE EntryKept'
  BY <1>1, <1>3, <1>5, <1>7 DEF RemovedInv, EntryKept
<1>8. CASE Scan(p)
  <2>1. l2' = l2 /\ tagset' = tagset /\ Clean' = Clean
    BY <1>8 DEF Scan, levels, Clean
  <2>2. ASSUME Proceed(p, "unlink") PROVE EntryKept'
    <3>1. /\ removed' = removed /\ source' = source
          /\ inv'[p].at = "unlink" /\ inv'[p].version = inv[p].version
          /\ \A q \in Pods \ {p} : inv'[q] = inv[q]
      BY <1>1, <1>4, <2>2
    <3> QED
      BY <2>1, <3>1 DEF RemovedInv, EntryKept
  <2>3. ASSUME inv[p].byTag /\ ~tagset /\ Proceed(p, "drop") PROVE EntryKept'
    <3>1. ~Clean
      BY <1>8, <2>3 DEF Scan, RemovedInv, EntryKept
    <3> QED
      BY <1>6, <2>1, <2>3, <3>1
  <2>4. ASSUME l2.version = 0 /\ Finish(p) PROVE EntryKept'
    BY <1>7, <2>1, <2>4 DEF Clean
  <2>5. \/ Proceed(p, "unlink") \/ (inv[p].byTag /\ ~tagset /\ Proceed(p, "drop"))
        \/ (l2.version = 0 /\ Finish(p))
    <3>1. CASE inv[p].byTag
      BY <1>8, <3>1 DEF Scan
    <3>2. CASE ~inv[p].byTag
      BY <1>8, <3>2 DEF Scan
    <3> QED
      BY <3>1, <3>2
  <2>6. EntryKept'
    BY <2>2, <2>3, <2>4, <2>5
  <2> QED
    BY <1>0, <1>2, <2>6 DEF RemovedInv
<1>9. CASE Unlink(p)
  <2>1. ~Clean'
    BY <1>3, <1>9 DEF Unlink, Clean
  <2>2. Proceed(p, "drop") \/ Finish(p)
    BY <1>9 DEF Unlink
  <2>3. EntryKept'
    BY <1>6, <1>7, <2>1, <2>2
  <2> QED
    BY <1>0, <1>2, <2>3 DEF RemovedInv
<1>10. CASE DropSet(p)
  <2>1. ~Clean /\ Clean' = Clean
    BY <1>10 DEF DropSet, RemovedInv, EntryKept, Clean
  <2>2. EntryKept'
    BY <1>7, <1>10, <2>1 DEF DropSet
  <2> QED
    BY <1>0, <1>2, <2>2 DEF RemovedInv
<1>11. CASE AbandonInvalidation(p)
  <2>1. /\ UNCHANGED <<l2, tagset, removed>>
        /\ inv'[p] = NoInvalidation /\ \A q \in Pods \ {p} : inv'[q] = inv[q]
    BY <1>3, <1>11 DEF AbandonInvalidation, levels, wrapHistory
  <2>2. EntryKept'
    BY <1>1, <1>3, <2>1 DEF RemovedInv, EntryKept, Clean
  <2> QED
    BY <1>0, <1>2, <2>2 DEF RemovedInv
<1> QED
  BY <1>8, <1>9, <1>10, <1>11 DEF InvalidationStep

(* Nor does what happens around them let an older entry in. *)
LEMMA SurroundingsKeepEntry ==
    ASSUME RemovedInv, Surroundings
    PROVE  RemovedInv'
<1>0. CacheWrapTypeOK' /\ call \in [Calls -> Call] /\ inv \in [Pods -> Invalidation]
  BY SurroundingTypes DEF RemovedInv, CacheWrapTypeOK
<1>1. CASE ChangeSource
  <2>1. source' = source + 1 /\ source \in Nat /\ removed \in Nat
        /\ \A p \in Pods : inv[p].version \in Nat
    BY <1>1 DEF ChangeSource, RemovedInv, CacheWrapTypeOK, Invalidation, Versions
  <2>2. UNCHANGED <<call, inv, removed, l2, tagset>>
    BY <1>1 DEF ChangeSource, levels, wrapHistory
  <2>3. EntryKept'
    BY <2>1, <2>2 DEF RemovedInv, EntryKept, Clean
  <2> QED
    BY <1>0, <2>2, <2>3 DEF RemovedInv, Invalidating
<1>2. CASE ExpireL2
  <2>1. ~Clean'
    BY <1>2 DEF ExpireL2, Clean, NoL2Entry
  <2>2. UNCHANGED <<call, inv, removed, source>>
    BY <1>2 DEF ExpireL2
  <2> QED
    BY <1>0, <2>1, <2>2 DEF RemovedInv, EntryKept, Invalidating
<1>3. CASE Tick
  <2>1. UNCHANGED <<inv, removed, source, l2, tagset>>
    BY <1>3 DEF Tick, levels
  <2>2. ASSUME NEW c \in Calls
        PROVE  /\ call'[c].at = call[c].at /\ call'[c].overlap = call[c].overlap
               /\ call'[c].version = call[c].version
    BY <1>0, <1>3 DEF Tick, Call
  <2> QED
    BY <1>0, <2>1, <2>2 DEF RemovedInv, EntryKept, Clean, Invalidating, InTime
<1>4. CASE \E p \in Pods : DropL1(p)
  <2>1. UNCHANGED <<call, inv, removed, source, l2, tagset>>
    BY <1>4 DEF DropL1, wrapHistory
  <2> QED
    BY <1>0, <2>1 DEF RemovedInv, EntryKept, Clean, Invalidating
<1>5. ASSUME NEW p \in Pods, Crash(p) PROVE RemovedInv'
  <2>1. UNCHANGED <<removed, source, l2, tagset>>
    BY <1>5 DEF Crash
  <2>2. inv'[p] = NoInvalidation /\ \A q \in Pods \ {p} : inv'[q] = inv[q]
    BY <1>0, <1>5 DEF Crash
  <2>3. /\ NoInvalidation.at = "none" /\ NoInvalidation.version = 0 /\ IdleCall.at = "idle"
        /\ source \in Nat
    BY DEF NoInvalidation, IdleCall, RemovedInv, CacheWrapTypeOK
  <2>4. EntryKept'
    BY <2>1, <2>2, <2>3 DEF RemovedInv, EntryKept, Clean
  <2>5. Invalidating' => Invalidating
    BY <2>2, <2>3 DEF Invalidating
  <2>6. ASSUME NEW c \in Calls PROVE InTime(call'[c], Invalidating', removed')
    <3>1. call'[c] = IdleCall \/ call'[c] = call[c]
      BY <1>5 DEF Crash
    <3> QED
      BY <2>1, <2>3, <2>5, <3>1 DEF RemovedInv, InTime
  <2> QED
    BY <1>0, <2>4, <2>6 DEF RemovedInv
<1> QED
  BY <1>1, <1>2, <1>3, <1>4, <1>5 DEF Surroundings

(* RemovedInv is inductive. *)
LEMMA RemovedStaysOut ==
    RemovedInv /\ [WrapNext]_wrapVars => RemovedInv'
<1> SUFFICES ASSUME RemovedInv, [WrapNext]_wrapVars PROVE RemovedInv'
  OBVIOUS
<1>0. CacheWrapTypeOK'
  BY WrapTypesKept DEF RemovedInv
<1>1. CASE UNCHANGED wrapVars
  BY <1>0, <1>1 DEF wrapVars, levels, wrapHistory, RemovedInv, EntryKept, Clean, Invalidating
<1>2. ASSUME NEW c \in Calls, CallStep(c) \/ \E p \in Pods : Begin(c, p) PROVE RemovedInv'
  BY <1>0, <1>2, CallsInTime, CallsKeepEntry DEF RemovedInv
<1> QED
  BY <1>1, <1>2, BeginningSeen, InvalidationsKeepEntry, SurroundingsKeepEntry
     DEF WrapNext, Surroundings

(***************************************************************************)
(* An entry older than a finished invalidation is in Redis only if its     *)
(* writer overlapped one, or failed (invalidation.ts, 66).                 *)
(***************************************************************************)
THEOREM RemovedStays == WrapSpec => []RemovedForGood
<1>1. WrapInit => RemovedInv
  <2> SUFFICES ASSUME WrapInit PROVE RemovedInv
    OBVIOUS
  <2>1. CacheWrapTypeOK
    BY WrapInitTyped
  <2>2. /\ removed = 0 /\ source = 1 /\ l2.version = 0
        /\ \A c \in Calls : call[c].at = "idle"
        /\ \A p \in Pods : inv[p].version = 0
    BY DEF WrapInit, IdleCall, NoL2Entry, NoInvalidation
  <2> QED
    BY <2>1, <2>2 DEF RemovedInv, EntryKept, Clean, InTime
<1>2. RemovedInv => RemovedForGood
  BY RemovedFollows
<1> QED
  BY <1>1, <1>2, RemovedStaysOut, PTL DEF WrapSpec

-----------------------------------------------------------------------------
(* Whether there is an entry, and whether somebody has the lock. *)
Stored == l2.version # 0
Locked == lock.owner # Nobody

(***************************************************************************)
(* The strengthening of SingleFlight: as long as it is calm, who has the   *)
(* lock knows of it, computations are under it and there is no entry yet,  *)
(* and who has waited, or is past its computation, finds one; L1 is never  *)
(* ahead of Redis but for the call that stores.                            *)
(***************************************************************************)
Orderly(x, stored, locked) ==
    /\ x.at \in {"computing", "computed", "storing"} => x.held /\ ~stored
    /\ x.at \in {"again", "found", "indexing", "releasing"} => stored
    /\ x.at \in {"rechecking", "releasing"} => x.held
    /\ x.at = "waiting" => locked \/ stored
    /\ x.at \in {"computed", "storing"} => x.version # 0
    /\ x.at = "idle" => ~x.held
    /\ x.at # "joining"

Flight ==
    /\ \A c \in Calls : call[c].held <=> lock.owner = c
    /\ \A c \in Calls : Orderly(call[c], Stored, Locked)
    /\ \A p \in Pods : l1[p] # 0 => Stored \/ \E c \in Calls : call[c].at = "storing"

FlightInv == CacheWrapTypeOK /\ PromiseKept /\ PromiseToJoin /\ (calm => Flight)

(* It says that one call computes, of those under the lock. *)
LEMMA SingleFlightFollows ==
    ASSUME FlightInv
    PROVE  SingleFlight
  BY DEF FlightInv, Flight, Orderly, Stored, SingleFlight

(* When one call moves, the others stay in order if the entry and the lock let them. *)
LEMMA OneCallMoves ==
    ASSUME FlightInv, calm, NEW c \in Calls, NEW rec, Become(c, rec),
           rec.held <=> lock'.owner = c,
           \A d \in Calls \ {c} : lock'.owner = d <=> lock.owner = d,
           Orderly(rec, Stored', Locked'),
           \A d \in Calls \ {c} :
              Orderly(call[d], Stored, Locked) => Orderly(call[d], Stored', Locked'),
           \/ Stored' \/ rec.at = "storing"
           \/ l1' = l1 /\ ~Stored /\ call[c].at # "storing"
    PROVE  Flight'
<1>1. call'[c] = rec /\ \A d \in Calls \ {c} : call'[d] = call[d]
  BY DEF Become, FlightInv, CacheWrapTypeOK
<1>2. \A d \in Calls : call'[d].held <=> lock'.owner = d
  BY <1>1 DEF FlightInv, Flight
<1>3. \A d \in Calls : Orderly(call'[d], Stored', Locked')
  BY <1>1 DEF FlightInv, Flight
<1>4. \A p \in Pods : l1'[p] # 0 => Stored' \/ \E d \in Calls : call'[d].at = "storing"
  BY <1>1 DEF FlightInv, Flight
<1> QED
  BY <1>2, <1>3, <1>4 DEF Flight

(* The usual case: the lock stays whose it is, and the entry is there or not as before. *)
LEMMA QuietMove ==
    ASSUME FlightInv, calm, NEW c \in Calls, NEW rec, Become(c, rec),
           UNCHANGED lock, l2'.version = l2.version, Stored \/ l1' = l1,
           rec.held <=> call[c].held, call[c].at # "storing",
           Orderly(rec, Stored, Locked)
    PROVE  Flight'
<1>1. Stored' = Stored /\ Locked' = Locked
  BY DEF Stored, Locked
<1>2. rec.held <=> lock'.owner = c
  BY DEF FlightInv, Flight
<1> QED
  BY <1>1, <1>2, OneCallMoves

(* As long as it is calm nobody joins, so a call ends alone, *)
LEMMA EndsAlone ==
    ASSUME FlightInv, calm, NEW c \in Calls, End(c)
    PROVE  Become(c, IdleCall)
<1>1. \A d \in Calls : call[d].at # "joining"
  BY DEF FlightInv, Flight, Orderly
<1>2. call' = [d \in Calls |-> IF d = c THEN IdleCall ELSE call[d]]
  BY <1>1 DEF End
<1>3. call \in [Calls -> Call]
  BY DEF FlightInv, CacheWrapTypeOK
<1> QED
  BY <1>2, <1>3 DEF Become

(* in order, if it has no lock, *)
LEMMA QuietEnd ==
    ASSUME FlightInv, calm, NEW c \in Calls, End(c), ~call[c].held,
           UNCHANGED lock, l2'.version = l2.version, Stored \/ l1' = l1, call[c].at # "storing"
    PROVE  Flight'
<1>1. IdleCall.at = "idle" /\ ~IdleCall.held
  BY DEF IdleCall
<1>2. Orderly(IdleCall, Stored, Locked)
  BY <1>1 DEF Orderly
<1> QED
  BY <1>1, <1>2, EndsAlone, QuietMove

(* or goes on to the release. *)
LEMMA QuietLeave ==
    ASSUME FlightInv, calm, NEW c \in Calls, Leave(c), Stored, call[c].at # "storing",
           UNCHANGED lock, l2'.version = l2.version
    PROVE  Flight'
<1>1. CASE call[c].held
  <2> DEFINE rec == [call[c] EXCEPT !.at = "releasing"]
  <2>1. rec.at = "releasing" /\ rec.held = call[c].held
    BY DEF FlightInv, CacheWrapTypeOK, Call
  <2>2. Become(c, rec)
    BY <1>1 DEF Leave, Move
  <2> HIDE DEF rec
  <2>3. Orderly(rec, Stored, Locked)
    BY <1>1, <2>1 DEF Orderly
  <2> QED
    BY <2>1, <2>2, <2>3, QuietMove
<1>2. CASE ~call[c].held
  BY <1>2, QuietEnd DEF Leave
<1> QED
  BY <1>1, <1>2

(* A lookup begins, finds the entry or keeps it in L1. *)
LEMMA LookupsOrderly ==
    ASSUME FlightInv, calm, calm', NEW c \in Calls,
           Found(c) \/ Repopulate(c) \/ Missed(c) \/ \E p \in Pods : Begin(c, p)
    PROVE  Flight'
<1>0. /\ call[c] \in Call /\ Orderly(call[c], Stored, Locked)
      /\ (call[c].held <=> lock.owner = c)
  BY DEF FlightInv, Flight, CacheWrapTypeOK
<1>1. ASSUME NEW p \in Pods, Begin(c, p) PROVE Flight'
  <2> DEFINE rec == [IdleCall EXCEPT !.at = "looking", !.pod = p]
  <2>1. rec.at = "looking" /\ rec.held = FALSE
    BY DEF IdleCall
  <2>2. Become(c, rec) /\ call[c].at = "idle" /\ UNCHANGED <<lock, l1, l2>>
    BY <1>1 DEF Begin, levels
  <2> HIDE DEF rec
  <2>3. Orderly(rec, Stored, Locked) /\ ~call[c].held
    BY <1>0, <2>1, <2>2 DEF Orderly
  <2> QED
    BY <2>1, <2>2, <2>3, QuietMove
<1>2. ASSUME Found(c) PROVE Flight'
  <2> DEFINE rec == [call[c] EXCEPT !.at = "found", !.version = l2.version]
  <2>1. rec.at = "found" /\ rec.held = call[c].held
    BY <1>0 DEF Call
  <2>2. Become(c, rec) /\ call[c].at # "storing" /\ Stored /\ UNCHANGED <<lock, l1, l2>>
    BY <1>2 DEF Found, levels, Stored
  <2> HIDE DEF rec
  <2>3. Orderly(rec, Stored, Locked)
    BY <2>1, <2>2 DEF Orderly
  <2> QED
    BY <2>1, <2>2, <2>3, QuietMove
<1>3. ASSUME Repopulate(c) PROVE Flight'
  <2>1. call[c].at = "found" /\ Leave(c) /\ UNCHANGED <<lock, l2>>
    BY <1>3 DEF Repopulate
  <2>2. Stored
    BY <1>0, <2>1 DEF Orderly
  <2> QED
    BY <2>1, <2>2, QuietLeave
<1>4. ASSUME Missed(c) PROVE Flight'
  <2>0. UNCHANGED <<lock, l1, l2>>
    BY <1>4 DEF Missed, levels
  <2>1. CASE call[c].at = "looking" /\ Move(c, "locking")
    <3> DEFINE rec == [call[c] EXCEPT !.at = "locking"]
    <3>1. rec.at = "locking" /\ rec.held = call[c].held /\ Become(c, rec)
      BY <1>0, <2>1 DEF Call, Move
    <3> HIDE DEF rec
    <3>2. Orderly(rec, Stored, Locked)
      BY <3>1 DEF Orderly
    <3> QED
      BY <2>0, <2>1, <3>1, <3>2, QuietMove
  <2>2. CASE call[c].at = "again" /\ calm' = (calm /\ l2.version = 0)
    BY <1>0, <2>2 DEF Orderly, Stored
  <2>3. CASE /\ call[c].at = "rechecking" /\ Become(c, Computing(c))
             /\ calm' = (calm /\ l2.version = 0)
    <3> DEFINE rec == Computing(c)
    <3>1. rec.at = "computing" /\ rec.held = call[c].held
      BY <1>0 DEF Computing, Call
    <3>2. Become(c, rec)
      BY <2>3
    <3> HIDE DEF rec
    <3>3. Orderly(rec, Stored, Locked)
      BY <1>0, <2>3, <3>1 DEF Orderly, Stored
    <3> QED
      BY <2>0, <2>3, <3>1, <3>2, <3>3, QuietMove
  <2> QED
    BY <1>4, <2>1, <2>2, <2>3 DEF Missed
<1> QED
  BY <1>1, <1>2, <1>3, <1>4

(* The lock is taken, waited for and given back. *)
LEMMA LockOrderly ==
    ASSUME FlightInv, calm, calm', NEW c \in Calls,
           Acquire(c) \/ StopWaiting(c) \/ Release(c)
    PROVE  Flight'
<1>0. /\ call[c] \in Call /\ Orderly(call[c], Stored, Locked)
      /\ (call[c].held <=> lock.owner = c) /\ c # Nobody /\ Nobody \notin Calls
  BY DEF FlightInv, Flight, CacheWrapTypeOK
<1>1. ASSUME Acquire(c) PROVE Flight'
  <2>0. UNCHANGED <<l1, l2>> /\ call[c].at = "locking" /\ Stored' = Stored
    BY <1>1 DEF Acquire, levels, Stored
  <2>1. CASE /\ lock.owner = Nobody /\ lock' = [owner |-> c, left |-> LockTtl]
             /\ LookIn(c, [call[c] EXCEPT !.at = "rechecking", !.held = TRUE])
    <3> DEFINE rec == [call[c] EXCEPT !.at = "rechecking", !.held = TRUE]
               out == [rec EXCEPT !.at = "releasing"]
    <3>1. rec.at = "rechecking" /\ rec.held
      BY <1>0 DEF Call
    <3>2. out.at = "releasing" /\ out.held
      BY <1>0, <3>1 DEF Call
    <3>3. Become(c, rec) \/ (l1[call[c].pod] # 0 /\ Become(c, out))
      BY <2>1, <3>1 DEF LookIn
    <3>4. lock'.owner = c /\ Locked' /\ \A d \in Calls \ {c} : lock.owner # d /\ lock'.owner # d
      BY <1>0, <2>1 DEF Locked
    <3>5. \A d \in Calls : ~call[d].held /\ call[d].at # "storing"
      BY <1>0, <2>1 DEF FlightInv, Flight, Orderly
    <3> HIDE DEF rec, out
    <3>6. \A d \in Calls \ {c} :
              Orderly(call[d], Stored, Locked) => Orderly(call[d], Stored', Locked')
      BY <2>0, <3>4 DEF Orderly
    <3>7. ASSUME Become(c, rec) PROVE Flight'
      <4>1. Orderly(rec, Stored', Locked')
        BY <3>1 DEF Orderly
      <4> QED
        BY <2>0, <3>1, <3>4, <3>5, <3>6, <3>7, <4>1, OneCallMoves
    <3>8. ASSUME l1[call[c].pod] # 0, Become(c, out) PROVE Flight'
      <4>1. call[c].pod \in Pods
        BY <2>0 DEF FlightInv, PromiseToJoin
      <4>2. Stored
        BY <3>5, <3>8, <4>1 DEF FlightInv, Flight
      <4>3. Orderly(out, Stored', Locked')
        BY <2>0, <3>2, <4>2 DEF Orderly
      <4> QED
        BY <2>0, <3>2, <3>4, <3>6, <3>8, <4>2, <4>3, OneCallMoves
    <3> QED
      BY <3>3, <3>7, <3>8
  <2>2. CASE lock.owner # Nobody /\ Move(c, "waiting") /\ UNCHANGED lock
    <3> DEFINE rec == [call[c] EXCEPT !.at = "waiting"]
    <3>1. rec.at = "waiting" /\ rec.held = call[c].held /\ Become(c, rec)
      BY <1>0, <2>2 DEF Call, Move
    <3> HIDE DEF rec
    <3>2. Orderly(rec, Stored, Locked)
      BY <2>2, <3>1 DEF Orderly, Locked
    <3> QED
      BY <2>0, <2>2, <3>1, <3>2, QuietMove
  <2> QED
    BY <1>1, <2>1, <2>2 DEF Acquire
<1>2. ASSUME StopWaiting(c) PROVE Flight'
  <2>1. /\ call[c].at = "waiting" /\ lock.owner = Nobody /\ UNCHANGED <<lock, l1, l2>>
        /\ LookIn(c, [call[c] EXCEPT !.at = "again", !.waited = 0])
    BY <1>2 DEF StopWaiting, levels
  <2>2. Stored /\ ~call[c].held
    BY <1>0, <2>1 DEF Orderly, Locked
  <2> DEFINE rec == [call[c] EXCEPT !.at = "again", !.waited = 0]
  <2>3. rec.at = "again" /\ rec.held = call[c].held
    BY <1>0 DEF Call
  <2>4. LookIn(c, rec)
    BY <2>1
  <2> HIDE DEF rec
  <2>5. Become(c, rec) \/ End(c)
    BY <2>2, <2>3, <2>4 DEF LookIn
  <2>6. Orderly(rec, Stored, Locked)
    BY <2>2, <2>3 DEF Orderly
  <2> QED
    BY <2>1, <2>2, <2>3, <2>5, <2>6, QuietMove, QuietEnd
<1>3. ASSUME Release(c) PROVE Flight'
  <2>1. call[c].at = "releasing" /\ End(c) /\ lock' = Free /\ UNCHANGED <<l1, l2>>
    BY <1>3 DEF Release, levels
  <2>2. Stored /\ Stored' /\ call[c].held /\ lock.owner = c
    BY <1>0, <2>1 DEF Orderly, Stored
  <2>3. lock'.owner = Nobody /\ IdleCall.at = "idle" /\ ~IdleCall.held
    BY <2>1 DEF Free, IdleCall
  <2>4. Become(c, IdleCall)
    BY <2>1, EndsAlone
  <2>5. Orderly(IdleCall, Stored', Locked')
    BY <2>3 DEF Orderly
  <2>6. \A d \in Calls \ {c} : lock'.owner = d <=> lock.owner = d
    BY <1>0, <2>2, <2>3
  <2>7. \A d \in Calls \ {c} :
            Orderly(call[d], Stored, Locked) => Orderly(call[d], Stored', Locked')
    BY <2>2 DEF Orderly
  <2> QED
    BY <1>0, <2>2, <2>3, <2>4, <2>5, <2>6, <2>7, OneCallMoves
<1> QED
  BY <1>1, <1>2, <1>3

(* The value is computed and stored. *)
LEMMA StoringOrderly ==
    ASSUME FlightInv, calm, calm', NEW c \in Calls,
           ReadSource(c) \/ StoreL1(c) \/ StoreL2(c) \/ IndexL2(c)
    PROVE  Flight'
<1>0. /\ call[c] \in Call /\ Orderly(call[c], Stored, Locked)
      /\ (call[c].held <=> lock.owner = c)
  BY DEF FlightInv, Flight, CacheWrapTypeOK
<1>1. ASSUME ReadSource(c) PROVE Flight'
  <2> DEFINE rec == [call[c] EXCEPT !.at = "computed", !.version = source]
  <2>1. /\ call[c].at = "computing" /\ UNCHANGED <<lock, l1, l2>>
        /\ Become(c, rec)
    BY <1>1 DEF ReadSource, levels
  <2>2. rec.at = "computed" /\ rec.held = call[c].held /\ rec.version = source
    BY <1>0 DEF Call
  <2>3. source # 0
    BY DEF FlightInv, CacheWrapTypeOK
  <2> HIDE DEF rec
  <2>4. Orderly(rec, Stored, Locked)
    BY <1>0, <2>1, <2>2, <2>3 DEF Orderly
  <2> QED
    BY <2>1, <2>2, <2>4, QuietMove
<1>2. ASSUME StoreL1(c) PROVE Flight'
  <2> DEFINE rec == [call[c] EXCEPT !.at = "storing"]
  <2>1. /\ call[c].at = "computed" /\ UNCHANGED <<lock, l2>> /\ Become(c, rec)
        /\ Stored' = Stored /\ Locked' = Locked
    BY <1>2 DEF StoreL1, Move, Stored, Locked
  <2>2. rec.at = "storing" /\ rec.held = call[c].held /\ rec.version = call[c].version
    BY <1>0 DEF Call
  <2> HIDE DEF rec
  <2>3. Orderly(rec, Stored, Locked)
    BY <1>0, <2>1, <2>2 DEF Orderly
  <2> QED
    BY <1>0, <2>1, <2>2, <2>3, OneCallMoves
<1>3. ASSUME StoreL2(c) PROVE Flight'
  <2> DEFINE rec == [call[c] EXCEPT !.at = "indexing"]
  <2>1. /\ call[c].at = "storing" /\ UNCHANGED lock /\ Become(c, rec)
        /\ l2' = [version |-> call[c].version, tainted |-> call[c].overlap, indexed |-> FALSE]
    BY <1>3 DEF StoreL2, Move
  <2>2. rec.at = "indexing" /\ rec.held = call[c].held
    BY <1>0 DEF Call
  <2>3. call[c].held /\ lock.owner = c /\ Stored' /\ Locked' = Locked
    BY <1>0, <2>1 DEF Orderly, Stored, Locked
  <2> HIDE DEF rec
  <2>4. Orderly(rec, Stored', Locked')
    BY <2>2, <2>3 DEF Orderly
  <2>5. ASSUME NEW d \in Calls \ {c}, Orderly(call[d], Stored, Locked)
        PROVE  Orderly(call[d], Stored', Locked')
    <3>1. ~call[d].held
      BY <2>3 DEF FlightInv, Flight
    <3> QED
      BY <2>3, <2>5, <3>1 DEF Orderly
  <2> QED
    BY <2>1, <2>2, <2>3, <2>4, <2>5, OneCallMoves
<1>4. ASSUME IndexL2(c) PROVE Flight'
  <2>1. call[c].at = "indexing" /\ Leave(c) /\ UNCHANGED lock
    BY <1>4 DEF IndexL2
  <2>2. l2'.version = l2.version
    BY <1>4 DEF IndexL2, FlightInv, CacheWrapTypeOK, L2Entry
  <2>3. Stored
    BY <1>0, <2>1 DEF Orderly
  <2> QED
    BY <2>1, <2>2, <2>3, QuietLeave
<1> QED
  BY <1>1, <1>2, <1>3, <1>4

(* Steps that move no call, take nothing from Redis and leave the lock its owner. *)
LEMMA NobodyMoves ==
    ASSUME FlightInv, calm, l2'.version = l2.version, lock'.owner = lock.owner,
           \A p \in Pods : l1'[p] \in {l1[p], 0},
           \A c \in Calls : /\ call'[c].at = call[c].at /\ call'[c].held = call[c].held
                            /\ call'[c].version = call[c].version
    PROVE  Flight'
<1>1. Stored' = Stored /\ Locked' = Locked
  BY DEF Stored, Locked
<1>2. ASSUME NEW c \in Calls PROVE Orderly(call'[c], Stored', Locked')
  BY <1>1 DEF FlightInv, Flight, Orderly
<1> QED
  BY <1>1, <1>2 DEF FlightInv, Flight

(* Invalidations, time and the rest: calm, they change nothing that matters to the lock. *)
LEMMA OthersOrderly ==
    ASSUME FlightInv, calm, calm',
           \/ \E p \in Pods : \/ InvalidationStep(p)
                              \/ \E by \in {"tag", "prefix", "key"} : BeginInvalidation(p, by)
           \/ Surroundings
           \/ UNCHANGED wrapVars
    PROVE  Flight'
<1>0. call \in [Calls -> Call] /\ l1 \in [Pods -> Versions] /\ l2 \in L2Entry
  BY DEF FlightInv, CacheWrapTypeOK
<1>1. ASSUME UNCHANGED <<call, lock, l1, l2>> PROVE Flight'
  BY <1>1, NobodyMoves
<1>2. ASSUME NEW p \in Pods, NEW by \in {"tag", "prefix", "key"}, BeginInvalidation(p, by)
      PROVE  Flight'
  <2>1. \A c \in Calls : /\ call'[c].at = call[c].at /\ call'[c].held = call[c].held
                         /\ call'[c].version = call[c].version
    BY <1>0, <1>2 DEF BeginInvalidation, Call
  <2>2. \A q \in Pods : l1'[q] \in {l1[q], 0}
    BY <1>0, <1>2 DEF BeginInvalidation
  <2>3. l2'.version = l2.version /\ UNCHANGED lock
    BY <1>0, <1>2 DEF BeginInvalidation, L2Entry
  <2> QED
    BY <2>1, <2>2, <2>3, NobodyMoves
<1>3. ASSUME NEW p \in Pods, InvalidationStep(p) PROVE UNCHANGED <<call, lock, l1, l2>>
  <2>1. ~Unlink(p)
    BY DEF Unlink
  <2> QED
    BY <1>3, <2>1 DEF InvalidationStep, Scan, DropSet, AbandonInvalidation, levels
<1>4. ASSUME Tick PROVE Flight'
  <2>1. \A c \in Calls : /\ call'[c].at = call[c].at /\ call'[c].held = call[c].held
                         /\ call'[c].version = call[c].version
    BY <1>0, <1>4 DEF Tick, Call
  <2>2. lock.left # 1 /\ UNCHANGED <<l1, l2>>
    BY <1>4 DEF Tick, levels
  <2>3. lock'.owner = lock.owner
    <3>1. CASE lock.left > 1
      BY <1>4, <3>1 DEF Tick, FlightInv, CacheWrapTypeOK
    <3>2. CASE ~(lock.left > 1)
      <4>1. lock.left = 0 /\ lock.owner = Nobody
        BY <2>2, <3>2 DEF FlightInv, CacheWrapTypeOK
      <4> QED
        BY <1>4, <3>2, <4>1 DEF Tick, Free
    <3> QED
      BY <3>1, <3>2
  <2> QED
    BY <2>1, <2>2, <2>3, NobodyMoves
<1>5. ASSUME NEW p \in Pods, DropL1(p) PROVE Flight'
  <2>1. \A q \in Pods : l1'[q] \in {l1[q], 0}
    BY <1>0, <1>5 DEF DropL1
  <2>2. UNCHANGED <<call, lock, l2>>
    BY <1>5 DEF DropL1
  <2> QED
    BY <2>1, <2>2, NobodyMoves
<1>6. ASSUME ChangeSource \/ UNCHANGED wrapVars PROVE UNCHANGED <<call, lock, l1, l2>>
  BY <1>6 DEF ChangeSource, wrapVars, levels
<1>7. ~ExpireL2 /\ \A p \in Pods : ~Crash(p)
  BY DEF ExpireL2, Crash
<1> QED
  BY <1>1, <1>2, <1>3, <1>4, <1>5, <1>6, <1>7 DEF Surroundings

(* Nothing makes it calm again. *)
LEMMA CalmIsOver ==
    ASSUME [WrapNext]_wrapVars, calm \in BOOLEAN, calm'
    PROVE  calm
<1>1. ASSUME NEW c \in Calls, CallStep(c) \/ \E p \in Pods : Begin(c, p) PROVE calm
  <2>1. ASSUME Found(c) \/ Repopulate(c) \/ Missed(c) \/ Acquire(c) \/ StopWaiting(c) PROVE calm
    BY <2>1 DEF Found, Repopulate, Missed, Acquire, StopWaiting, wrapHistory
  <2>2. ASSUME ReadSource(c) \/ StoreL1(c) \/ StoreL2(c) \/ IndexL2(c) \/ Release(c) PROVE calm
    BY <2>2 DEF ReadSource, StoreL1, StoreL2, IndexL2, Release, wrapHistory
  <2> QED
    BY <1>1, <2>1, <2>2 DEF CallStep, Begin, wrapHistory
<1>2. ASSUME NEW p \in Pods,
             \/ InvalidationStep(p) \/ DropL1(p) \/ Crash(p)
             \/ \E by \in {"tag", "prefix", "key"} : BeginInvalidation(p, by)
      PROVE  calm
  BY <1>2 DEF InvalidationStep, Scan, Unlink, DropSet, AbandonInvalidation, DropL1, Crash,
              BeginInvalidation, wrapHistory
<1>3. ASSUME ChangeSource \/ ExpireL2 \/ Tick \/ UNCHANGED wrapVars PROVE calm
  BY <1>3 DEF ChangeSource, ExpireL2, Tick, wrapVars, wrapHistory
<1> QED
  BY <1>1, <1>2, <1>3 DEF WrapNext

(* FlightInv is inductive. *)
LEMMA FlightKept ==
    FlightInv /\ [WrapNext]_wrapVars => FlightInv'
<1> SUFFICES ASSUME FlightInv, [WrapNext]_wrapVars, calm' PROVE Flight'
  BY PromisesKept DEF FlightInv, CoalescedInv
<1>1. calm
  BY CalmIsOver DEF FlightInv, CacheWrapTypeOK
<1> QED
  BY <1>1, WrapSteps, LookupsOrderly, LockOrderly, StoringOrderly, OthersOrderly

(***************************************************************************)
(* Of all pods one call computes the value, and none once it is stored,    *)
(* until the lock expires, a waiter loses patience, the entry is removed   *)
(* or something fails (cache.ts, 287).                                     *)
(***************************************************************************)
THEOREM OneFlight == WrapSpec => []SingleFlight
<1>1. WrapInit => FlightInv
  <2> SUFFICES ASSUME WrapInit PROVE FlightInv
    OBVIOUS
  <2>1. CacheWrapTypeOK
    BY WrapInitTyped
  <2>2. /\ lock.owner = Nobody /\ \A p \in Pods : l1[p] = 0
        /\ \A c \in Calls : call[c].at = "idle" /\ ~call[c].held
    BY DEF WrapInit, IdleCall, Free
  <2> QED
    BY <2>1, <2>2 DEF WrapInit, FlightInv, PromiseKept, PromiseToJoin, Flight, Orderly
<1>2. FlightInv => SingleFlight
  BY SingleFlightFollows
<1> QED
  BY <1>1, <1>2, FlightKept, PTL DEF WrapSpec
=============================================================================
