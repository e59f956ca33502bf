----------------------- MODULE EmployeeCache_proofs ------------------------
(***************************************************************************)
(* Proofs about the employee cache, for any number of pods, requests and   *)
(* role changes and any TTLs in their order: type correctness, the bound   *)
(* on the age of what authorizes a request (StaleBounded), and the bound   *)
(* on what an undisturbed eviction leaves behind (EvictionBounded).        *)
(***************************************************************************)
EXTENDS EmployeeCache, TLAPS

USE EmployeeCacheAssumption DEF EmployeeCacheAssumption

-----------------------------------------------------------------------------
(***************************************************************************)
(* The chain of TTLs.  A record is selected at most MaxFlight ticks before *)
(* it is stored.  From then on its age and the life left to its entry add  *)
(* up to a bound that time does not change; a request that finds it in L2  *)
(* adds its own flight and starts a shorter life in L1.                    *)
(***************************************************************************)
OldestFound == MaxFlight + LongestL2 - 1

EntryBounded(e, bound) == e.left > 0 => replaced[e.version] + e.left <= bound

RequestBounded(r) ==
    /\ r.at \in {"selected", "storing"} => replaced[r.version] <= r.took
    /\ r.at = "found" => replaced[r.version] <= OldestFound + r.took
    /\ r.at = "served" => replaced[r.version] <= MaxStale

CurrentIsFresh == \A v \in Versions : v >= version => replaced[v] = 0

StaleInv ==
    /\ TypeOK
    /\ \A p \in Pods : EntryBounded(l1[p], MaxStale + 1)
    /\ EntryBounded(l2, OldestFound + 1)
    /\ \A p \in Pods : EntryBounded(fallback[p], OldestFound + 1)
    /\ \A p \in Pods, s \in Slots : RequestBounded(req[p][s])
    /\ CurrentIsFresh

(* The constants are numbers, and the bounds grow along the chain. *)
LEMMA Bounds ==
    /\ LongestL2 \in Nat /\ MaxStale \in Nat /\ OldestFound \in Nat
    /\ MaxFlight \in Nat /\ L1Ttl \in Nat /\ RepopTtl \in Nat
    /\ 0 < LongestL2 /\ L1Ttl <= LongestL2 /\ RepopTtl <= LongestL2 /\ 0 < L1Ttl
    /\ MaxFlight + LongestL2 = OldestFound + 1
    /\ MaxFlight + L1Ttl <= MaxStale + 1
    /\ OldestFound + MaxFlight + RepopTtl = MaxStale + 1
    /\ OldestFound + MaxFlight <= MaxStale
    /\ MaxFlight <= MaxStale
    /\ \A ttl \in (L2Ttl - Jitter)..LongestL2 : ttl \in 0..LongestL2
  BY DEF LongestL2, MaxStale, OldestFound

LEMMA Idle ==
    /\ IdleRequest \in Request /\ NoEntry \in Entry
    /\ RequestBounded(IdleRequest)
    /\ \A bound : EntryBounded(NoEntry, bound)
  BY Bounds DEF IdleRequest, NoEntry, Request, Entry, Stores, Versions, RequestBounded,
                EntryBounded

(* A request moves on to a bounded state. *)
LEMMA RequestMoves ==
    ASSUME StaleInv, NEW p \in Pods, NEW s \in Slots, NEW r \in Request, Become(p, s, r),
           RequestBounded(r), UNCHANGED replaced
    PROVE  /\ req' \in [Pods -> [Slots -> Request]]
           /\ \A q \in Pods, x \in Slots : RequestBounded(req[q][x])'
  <1>1. \A q \in Pods, x \in Slots : req'[q][x] = IF q = p /\ x = s THEN r ELSE req[q][x]
    BY DEF Become, StaleInv, TypeOK
  <1>2. req' \in [Pods -> [Slots -> Request]]
    BY DEF Become, StaleInv, TypeOK
  <1>3. \A q \in Pods, x \in Slots : RequestBounded(req[q][x])'
    BY <1>1 DEF RequestBounded, StaleInv
  <1>4. QED
    BY <1>2, <1>3

(* A pod puts a bounded entry in its L1. *)
LEMMA L1Written ==
    ASSUME StaleInv, NEW p \in Pods, NEW e \in Entry, l1' = [l1 EXCEPT ![p] = e],
           EntryBounded(e, MaxStale + 1), UNCHANGED replaced
    PROVE  /\ l1' \in [Pods -> Entry]
           /\ \A q \in Pods : EntryBounded(l1[q], MaxStale + 1)'
  <1>1. l1' \in [Pods -> Entry]
    BY DEF StaleInv, TypeOK
  <1>2. \A q \in Pods : l1'[q] = IF q = p THEN e ELSE l1[q]
    BY DEF StaleInv, TypeOK
  <1>3. \A q \in Pods : EntryBounded(l1[q], MaxStale + 1)'
    BY <1>2 DEF EntryBounded, StaleInv, MaxStale, LongestL2
  <1>4. QED
    BY <1>1, <1>3

(* A client writes a bounded entry to Redis or to the fallback. *)
LEMMA L2Written ==
    ASSUME StaleInv, NEW p \in Pods, NEW s \in Slots, NEW e \in Entry, Write(p, s, e),
           EntryBounded(e, OldestFound + 1), UNCHANGED replaced
    PROVE  /\ l2' \in Entry /\ fallback' \in [Pods -> Entry]
           /\ EntryBounded(l2, OldestFound + 1)'
           /\ \A q \in Pods : EntryBounded(fallback[q], OldestFound + 1)'
  <1>1. l2' = e \/ l2' = l2
    BY DEF Write
  <1>2. l2' \in Entry /\ EntryBounded(l2, OldestFound + 1)'
    BY <1>1 DEF StaleInv, TypeOK, EntryBounded, OldestFound, LongestL2
  <1>3. fallback' \in [Pods -> Entry]
    BY DEF Write, StaleInv, TypeOK
  <1>4. \A q \in Pods : fallback'[q] = e \/ fallback'[q] = fallback[q]
    BY DEF Write, StaleInv, TypeOK
  <1>5. \A q \in Pods : EntryBounded(fallback[q], OldestFound + 1)'
    BY <1>4 DEF StaleInv, EntryBounded, OldestFound, LongestL2
  <1>6. QED
    BY <1>2, <1>3, <1>5

(* Nothing is written. *)
LEMMA Unwritten ==
    ASSUME StaleInv, UNCHANGED replaced
    PROVE  /\ UNCHANGED l1 => /\ l1' \in [Pods -> Entry]
                              /\ \A q \in Pods : EntryBounded(l1[q], MaxStale + 1)'
           /\ UNCHANGED <<l2, fallback>> =>
                /\ l2' \in Entry /\ fallback' \in [Pods -> Entry]
                /\ EntryBounded(l2, OldestFound + 1)'
                /\ \A q \in Pods : EntryBounded(fallback[q], OldestFound + 1)'
           /\ UNCHANGED req => /\ req' \in [Pods -> [Slots -> Request]]
                               /\ \A q \in Pods, x \in Slots : RequestBounded(req[q][x])'
           /\ UNCHANGED version => CurrentIsFresh'
  BY DEF StaleInv, TypeOK, EntryBounded, RequestBounded, CurrentIsFresh, OldestFound,
         LongestL2, MaxStale

LEMMA GetClientType ==
    ASSUME TypeOK, NEW p \in Pods, NEW c, GetClient(p, c)
    PROVE  cooling' \in [Pods -> BOOLEAN]
  BY Zenon DEF GetClient, TypeOK

(* Time passes for an entry: what its age gains its life loses. *)
LEMMA AgedBounded ==
    ASSUME TypeOK, NEW e \in Entry, NEW bound \in Nat, EntryBounded(e, bound),
           \A v \in Versions : /\ replaced'[v] \in Nat
                               /\ replaced'[v] <= replaced[v] + 1
    PROVE  Aged(e) \in Entry /\ EntryBounded(Aged(e), bound)'
  <1>1. e.version \in Versions /\ e.left \in 0..LongestL2 /\ LongestL2 \in Nat
    BY Bounds DEF Entry
  <1>2. CASE e.left > 1
    <2>1. Aged(e) = [version |-> e.version, left |-> e.left - 1]
      BY <1>2 DEF Aged, Entry
    <2>2. Aged(e) \in Entry
      BY <1>1, <1>2, <2>1 DEF Entry
    <2>3. replaced[e.version] + e.left <= bound /\ replaced[e.version] \in Nat
      BY <1>1, <1>2 DEF EntryBounded, TypeOK
    <2>4. replaced'[e.version] + (e.left - 1) <= bound
      BY <1>1, <2>3
    <2>5. QED
      BY <2>1, <2>2, <2>4 DEF EntryBounded
  <1>3. CASE ~(e.left > 1)
    BY <1>3, Idle DEF Aged, EntryBounded, NoEntry
  <1>4. QED
    BY <1>2, <1>3

(* Every step keeps the types and the bounds. *)
LEMMA StalePreserved ==
    ASSUME StaleInv, [Next]_vars
    PROVE  StaleInv'
  <1> DEFINE L1Good == /\ l1' \in [Pods -> Entry]
                       /\ \A q \in Pods : EntryBounded(l1[q], MaxStale + 1)'
             L2Good == /\ l2' \in Entry /\ fallback' \in [Pods -> Entry]
                       /\ EntryBounded(l2, OldestFound + 1)'
                       /\ \A q \in Pods : EntryBounded(fallback[q], OldestFound + 1)'
             ReqGood == /\ req' \in [Pods -> [Slots -> Request]]
                        /\ \A q \in Pods, x \in Slots : RequestBounded(req[q][x])'
             Rest == /\ version' \in Versions /\ up' \in BOOLEAN
                     /\ cooling' \in [Pods -> BOOLEAN]
                     /\ eviction' \in [Versions -> {"none", "due", "begun", "done"}]
                     /\ replaced' \in [Versions -> 0..(MaxStale + 1)]
                     /\ evicted' \in [Versions -> 0..L1Ttl]
                     /\ CurrentIsFresh'
             Good == L1Good /\ L2Good /\ ReqGood /\ Rest
  <1> USE DEF caches, history
  <1>1. /\ TypeOK /\ Bounds
        /\ UNCHANGED replaced =>
             /\ UNCHANGED l1 => L1Good
             /\ UNCHANGED <<l2, fallback>> => L2Good
             /\ UNCHANGED req => ReqGood
    BY Bounds, Unwritten DEF StaleInv
  <1>2. UNCHANGED <<version, up, eviction, history>> /\ cooling' \in [Pods -> BOOLEAN] => Rest
    BY Unwritten DEF StaleInv, TypeOK
  <1>3. UNCHANGED <<version, up, cooling, eviction, history>> => Rest
    BY <1>1, <1>2 DEF TypeOK
  <1>4. ASSUME NEW p \in Pods, NEW s \in Slots
        PROVE  /\ req[p][s] \in Request /\ RequestBounded(req[p][s])
               /\ req[p][s].version \in Versions /\ req[p][s].took \in 0..MaxFlight
               /\ replaced[req[p][s].version] \in Nat
               /\ l1[p] \in Entry /\ EntryBounded(l1[p], MaxStale + 1)
    <2>1. req[p][s] \in Request /\ RequestBounded(req[p][s])
      BY DEF StaleInv, TypeOK
    <2>2. req[p][s].version \in Versions /\ req[p][s].took \in 0..MaxFlight
      BY <2>1 DEF Request
    <2>3. QED
      BY <2>1, <2>2 DEF StaleInv, TypeOK
  <1>5. ASSUME NEW p \in Pods, NEW s \in Slots, Begin(p, s) PROVE Good
    <2> DEFINE rec == [IdleRequest EXCEPT !.evictions = DoneVersions, !.reach = up]
    <2>0. rec \in Request
      <3>1. up \in BOOLEAN /\ DoneVersions \in SUBSET Versions
        BY <1>1 DEF TypeOK, DoneVersions
      <3>2. QED
        BY <3>1, Idle DEF Request
    <2> HIDE DEF rec
    <2>1. CASE l1[p].left > 0 /\ UNCHANGED cooling
               /\ Become(p, s, [rec EXCEPT !.at = "served", !.version = l1[p].version])
      <3>1. l1[p].version \in Versions /\ l1[p].left \in Nat
        BY <1>4 DEF Entry
      <3> DEFINE r == [rec EXCEPT !.at = "served", !.version = l1[p].version]
      <3>2. r \in Request /\ r.at = "served" /\ r.version = l1[p].version
        BY <2>0, <3>1 DEF Request
      <3>3. replaced[l1[p].version] <= MaxStale
        <4>1. replaced[l1[p].version] + l1[p].left <= MaxStale + 1
          BY <1>4, <2>1 DEF EntryBounded
        <4>2. replaced[l1[p].version] \in Nat
          BY <3>1, <1>1 DEF TypeOK
        <4>3. QED
          BY <2>1, <3>1, <4>1, <4>2, Bounds
      <3>4. RequestBounded(r)
        BY <3>2, <3>3 DEF RequestBounded
      <3>5. ReqGood
        BY <1>5, <2>1, <3>2, <3>4, RequestMoves DEF Begin
      <3>6. QED
        BY <1>1, <1>3, <1>5, <2>1, <3>5 DEF Begin
    <2>2. ASSUME NEW c \in Stores, GetClient(p, c),
                 Become(p, s, [rec EXCEPT !.at = "reading", !.store = c])
          PROVE  Good
      <3> DEFINE r == [rec EXCEPT !.at = "reading", !.store = c]
      <3>1. r \in Request /\ r.at = "reading"
        BY <2>0 DEF Request
      <3>2. RequestBounded(r)
        BY <3>1 DEF RequestBounded
      <3>3. ReqGood
        BY <1>5, <2>2, <3>1, <3>2, RequestMoves DEF Begin
      <3>4. QED
        BY <1>1, <1>2, <1>5, <2>2, <3>3, GetClientType DEF Begin
    <2>3. QED
      BY <1>5, <2>1, <2>2 DEF Begin, rec
  <1>6. ASSUME NEW p \in Pods, NEW s \in Slots, ReadL2(p, s) PROVE Good
    <2>1. Held(p, s) \in Entry /\ EntryBounded(Held(p, s), OldestFound + 1)
      BY Idle DEF Held, StaleInv, TypeOK
    <2>2. Held(p, s).version \in Versions /\ Held(p, s).left \in Nat
      BY <2>1, Bounds DEF Entry
    <2>3. CASE Held(p, s).left > 0
      <3> DEFINE r == [req[p][s] EXCEPT !.at = "found", !.version = Held(p, s).version]
      <3>1. /\ r \in Request /\ r.at = "found"
            /\ r.version = Held(p, s).version /\ r.took = req[p][s].took
        BY <1>4, <2>2 DEF Request
      <3>2. replaced[r.version] <= OldestFound + r.took
        <4>1. replaced[r.version] + Held(p, s).left <= OldestFound + 1
          BY <2>1, <2>3, <3>1 DEF EntryBounded
        <4>2. replaced[r.version] \in Nat /\ r.took \in Nat
          BY <1>1, <1>4, <2>2, <3>1, Bounds DEF TypeOK
        <4>3. QED
          BY <2>2, <2>3, <4>1, <4>2, Bounds
      <3>3. RequestBounded(r)
        BY <3>1, <3>2 DEF RequestBounded
      <3>4. ReqGood
        BY <1>6, <2>3, <3>1, <3>3, RequestMoves DEF ReadL2
      <3>5. QED
        BY <1>1, <1>3, <1>6, <3>4 DEF ReadL2
    <2>4. CASE ~(Held(p, s).left > 0)
      <3> DEFINE r == [req[p][s] EXCEPT !.at = "selecting"]
      <3>1. r \in Request /\ r.at = "selecting"
        BY <1>4 DEF Request
      <3>2. RequestBounded(r)
        BY <3>1 DEF RequestBounded
      <3>3. ReqGood
        BY <1>6, <2>4, <3>1, <3>2, RequestMoves DEF ReadL2
      <3>4. QED
        BY <1>1, <1>3, <1>6, <3>3 DEF ReadL2
    <2>5. QED
      BY <2>3, <2>4
  <1>7. ASSUME NEW p \in Pods, NEW s \in Slots, Repopulate(p, s) PROVE Good
    <2>1. replaced[req[p][s].version] <= OldestFound + req[p][s].took
      BY <1>4, <1>7 DEF Repopulate, RequestBounded
    <2>2. replaced[req[p][s].version] <= OldestFound + MaxFlight
      BY <1>4, <2>1, Bounds
    <2> DEFINE e == [version |-> req[p][s].version, left |-> RepopTtl]
    <2>3. e \in Entry /\ EntryBounded(e, MaxStale + 1)
      BY <1>4, <2>2, Bounds DEF Entry, EntryBounded
    <2>4. L1Good
      BY <1>7, <2>3, L1Written DEF Repopulate
    <2> DEFINE r == [req[p][s] EXCEPT !.at = "served"]
    <2>5. r \in Request /\ r.at = "served" /\ r.version = req[p][s].version
      BY <1>4 DEF Request
    <2>6. RequestBounded(r)
      BY <1>4, <2>2, <2>5, Bounds DEF RequestBounded
    <2>7. ReqGood
      BY <1>7, <2>5, <2>6, RequestMoves DEF Repopulate
    <2>8. UNCHANGED <<l2, fallback, version, up, cooling, eviction, replaced, evicted>>
      BY <1>7 DEF Repopulate
    <2>9. L2Good /\ Rest
      BY <1>1, <1>3, <2>8
    <2>10. QED
      BY <2>4, <2>7, <2>9
  <1>8. ASSUME NEW p \in Pods, NEW s \in Slots, Select(p, s) PROVE Good
    <2>1. CASE Become(p, s, [req[p][s] EXCEPT !.at = "selected", !.version = version])
      <3> DEFINE r == [req[p][s] EXCEPT !.at = "selected", !.version = version]
      <3>0. version \in Versions /\ req[p][s] \in Request
        BY <1>1, <1>4 DEF TypeOK
      <3>1. r \in Request /\ r.at = "selected" /\ r.version = version /\ r.took = req[p][s].took
        BY <3>0 DEF Request
      <3>2. replaced[version] = 0
        BY <1>1 DEF StaleInv, CurrentIsFresh, TypeOK, Versions
      <3>3. RequestBounded(r)
        BY <1>4, <3>1, <3>2 DEF RequestBounded
      <3>4. ReqGood
        BY <1>8, <2>1, <3>1, <3>3, RequestMoves DEF Select
      <3>5. QED
        BY <1>1, <1>3, <1>8, <3>4 DEF Select
    <2>2. CASE Become(p, s, IdleRequest)
      BY <1>1, <1>3, <1>8, <2>2, Idle, RequestMoves DEF Select
    <2>3. QED
      BY <1>8, <2>1, <2>2 DEF Select
  <1>9. ASSUME NEW p \in Pods, NEW s \in Slots, StoreL1(p, s) PROVE Good
    <2>1. replaced[req[p][s].version] <= req[p][s].took
      BY <1>4, <1>9 DEF StoreL1, RequestBounded
    <2> DEFINE e == [version |-> req[p][s].version, left |-> L1Ttl]
    <2>2. e \in Entry /\ EntryBounded(e, MaxStale + 1)
      BY <1>4, <2>1, Bounds DEF Entry, EntryBounded
    <2>3. L1Good
      BY <1>9, <2>2, L1Written DEF StoreL1
    <2>4. PICK c \in Stores : /\ GetClient(p, c)
                              /\ Become(p, s, [req[p][s] EXCEPT !.at = "storing", !.store = c])
      BY <1>9 DEF StoreL1
    <2> DEFINE r == [req[p][s] EXCEPT !.at = "storing", !.store = c]
    <2>5. /\ r \in Request /\ r.at = "storing"
          /\ r.version = req[p][s].version /\ r.took = req[p][s].took
      BY <1>4 DEF Request
    <2>6. RequestBounded(r)
      BY <2>1, <2>5 DEF RequestBounded
    <2>7. ReqGood
      BY <1>9, <2>4, <2>5, <2>6, RequestMoves DEF StoreL1
    <2>8. QED
      BY <1>1, <1>2, <1>9, <2>3, <2>4, <2>7, GetClientType DEF StoreL1
  <1>10. ASSUME NEW p \in Pods, NEW s \in Slots, StoreL2(p, s) PROVE Good
    <2>1. replaced[req[p][s].version] <= req[p][s].took
      BY <1>4, <1>10 DEF StoreL2, RequestBounded
    <2>2. PICK ttl \in (L2Ttl - Jitter)..LongestL2 :
             Write(p, s, [version |-> req[p][s].version, left |-> ttl])
      BY <1>10 DEF StoreL2
    <2>3. ttl \in 0..LongestL2
      BY Bounds
    <2> DEFINE e == [version |-> req[p][s].version, left |-> ttl]
    <2>4. e \in Entry /\ EntryBounded(e, OldestFound + 1)
      BY <1>4, <2>1, <2>3, Bounds DEF Entry, EntryBounded
    <2>5. L2Good
      BY <1>10, <2>2, <2>4, L2Written DEF StoreL2
    <2> DEFINE r == [req[p][s] EXCEPT !.at = "served"]
    <2>6. r \in Request /\ r.at = "served" /\ r.version = req[p][s].version
      BY <1>4 DEF Request
    <2>7. RequestBounded(r)
      BY <1>4, <2>1, <2>6, Bounds DEF RequestBounded
    <2>8. ReqGood
      BY <1>10, <2>6, <2>7, RequestMoves DEF StoreL2
    <2>9. QED
      BY <1>1, <1>3, <1>10, <2>5, <2>8 DEF StoreL2
  <1>11. ASSUME NEW p \in Pods, NEW s \in Slots, End(p, s) PROVE Good
    BY <1>1, <1>3, <1>11, Idle, RequestMoves DEF End
  <1>12. ASSUME NEW p \in Pods, NEW s \in Slots, NEW v \in Versions, BeginEviction(p, s, v)
         PROVE  Good
    <2>1. L1Good
      BY <1>12, Idle, L1Written DEF BeginEviction
    <2>2. PICK c \in Stores :
             /\ GetClient(p, c)
             /\ Become(p, s, [IdleRequest EXCEPT !.at = "deleting", !.version = v, !.store = c])
      BY <1>12 DEF BeginEviction
    <2> DEFINE r == [IdleRequest EXCEPT !.at = "deleting", !.version = v, !.store = c]
    <2>3. r \in Request /\ r.at = "deleting"
      BY Idle DEF Request
    <2>4. RequestBounded(r)
      BY <2>3 DEF RequestBounded
    <2>5. ReqGood
      BY <1>12, <2>2, <2>3, <2>4, RequestMoves DEF BeginEviction
    <2>6. eviction' \in [Versions -> {"none", "due", "begun", "done"}]
      BY <1>1, <1>12 DEF BeginEviction, TypeOK
    <2>7. Rest
      BY <1>1, <1>12, <2>2, <2>6, GetClientType, Unwritten DEF BeginEviction, TypeOK
    <2>8. QED
      BY <1>1, <1>12, <2>1, <2>5, <2>7 DEF BeginEviction
  <1>13. ASSUME NEW p \in Pods, NEW s \in Slots, DeleteL2(p, s) PROVE Good
    <2>1. L2Good
      BY <1>13, Idle, L2Written DEF DeleteL2
    <2>2. ReqGood
      BY <1>13, Idle, RequestMoves DEF DeleteL2
    <2>3. eviction' \in [Versions -> {"none", "due", "begun", "done"}]
      BY <1>1, <1>4, <1>13 DEF DeleteL2, TypeOK
    <2>4. Rest
      BY <1>1, <1>13, <2>3, Unwritten DEF DeleteL2, TypeOK
    <2>5. QED
      BY <1>1, <1>13, <2>1, <2>2, <2>4 DEF DeleteL2
  <1>14. ASSUME NEW p \in Pods, Restart(p) PROVE Good
    <2>1. L1Good
      BY <1>14, Idle, L1Written DEF Restart
    <2>2. \A q \in Pods, x \in Slots :
             req'[q][x] = IF q = p THEN IdleRequest ELSE req[q][x]
      BY <1>1, <1>14 DEF Restart, TypeOK
    <2>3. req' \in [Pods -> [Slots -> Request]]
      BY <1>1, <1>14, Idle DEF Restart, TypeOK
    <2>4. ReqGood
      BY <1>4, <1>14, <2>2, <2>3, Idle DEF RequestBounded, Restart
    <2>5. cooling' \in [Pods -> BOOLEAN]
      BY <1>1, <1>14, Zenon DEF Restart, TypeOK
    <2>6. QED
      BY <1>1, <1>2, <1>14, <2>1, <2>4, <2>5 DEF Restart
  <1>15. ASSUME NEW p \in Pods, CooldownOver(p) PROVE Good
    <2>1. cooling' \in [Pods -> BOOLEAN]
      BY <1>1, <1>15, Zenon DEF CooldownOver, TypeOK
    <2>2. QED
      BY <1>1, <1>2, <1>15, <2>1 DEF CooldownOver
  <1>16. ASSUME ChangeRole PROVE Good
    <2>1. version' \in Versions /\ version' = version + 1 /\ version \in Nat
      BY <1>1, <1>16 DEF ChangeRole, TypeOK, Versions
    <2>2. eviction' \in [Versions -> {"none", "due", "begun", "done"}]
      BY <1>1, <1>16, <2>1 DEF ChangeRole, TypeOK
    <2>3. CurrentIsFresh'
      BY <1>16, <2>1 DEF ChangeRole, StaleInv, CurrentIsFresh, Versions
    <2>4. Rest
      BY <1>1, <1>16, <2>1, <2>2, <2>3 DEF ChangeRole, TypeOK
    <2>5. QED
      BY <1>1, <1>16, <2>4 DEF ChangeRole
  <1>17. ASSUME Drop PROVE Good
    <2>1. ASSUME NEW p \in Pods, l1' = [l1 EXCEPT ![p] = NoEntry], UNCHANGED l2 PROVE Good
      BY <1>1, <1>3, <1>17, <2>1, Idle, L1Written DEF Drop
    <2>2. CASE l2' = NoEntry /\ UNCHANGED l1
      <3>1. L2Good
        BY <1>1, <1>17, <2>2, Idle, Unwritten DEF Drop, EntryBounded, NoEntry, StaleInv, TypeOK
      <3>2. QED
        BY <1>1, <1>3, <1>17, <2>2, <3>1 DEF Drop
    <2>3. QED
      BY <1>17, <2>1, <2>2 DEF Drop
  <1>18. ASSUME Outage PROVE Good
    <2>1. up' \in BOOLEAN
      BY <1>1, <1>18, Zenon DEF Outage, TypeOK
    <2>2. Rest
      BY <1>1, <1>18, <2>1, Unwritten DEF Outage, TypeOK
    <2>3. QED
      BY <1>1, <1>18, <2>2 DEF Outage
  <1>19. ASSUME Tick PROVE Good
    <2>1. ASSUME NEW v \in Versions
          PROVE  /\ replaced'[v] \in 0..(MaxStale + 1) /\ replaced'[v] <= replaced[v] + 1
                 /\ evicted'[v] \in 0..L1Ttl
                 /\ v >= version => replaced'[v] = 0
      <3>1. replaced[v] \in 0..(MaxStale + 1) /\ evicted[v] \in 0..L1Ttl
        BY <1>1 DEF TypeOK
      <3>2. version \in Nat /\ v \in Nat
        BY <1>1 DEF TypeOK, Versions
      <3>3. replaced'[v] = IF v < version THEN Older(replaced[v], MaxStale + 1) ELSE 0
        BY <1>19 DEF Tick
      <3>4. evicted'[v] = IF eviction[v] = "done" THEN Older(evicted[v], L1Ttl) ELSE 0
        BY <1>19 DEF Tick
      <3>5. QED
        BY <3>1, <3>2, <3>3, <3>4, Bounds DEF Older
    <2>2. Rest
      BY <1>1, <1>19, <2>1 DEF Tick, TypeOK, CurrentIsFresh
    <2>3. \A v \in Versions : replaced'[v] \in Nat /\ replaced'[v] <= replaced[v] + 1
      BY <2>1, Bounds
    <2>4. L1Good
      <3>1. \A p \in Pods : l1[p] \in Entry /\ EntryBounded(l1[p], MaxStale + 1)
        BY DEF StaleInv, TypeOK
      <3>2. \A e \in Entry : EntryBounded(e, MaxStale + 1) =>
               Aged(e) \in Entry /\ EntryBounded(Aged(e), MaxStale + 1)'
        BY <1>1, <2>3, AgedBounded, Bounds
      <3>3. \A p \in Pods : l1'[p] = Aged(l1[p])
        BY <1>19 DEF Tick
      <3>4. QED
        BY <1>19, <3>1, <3>2, <3>3 DEF Tick, EntryBounded
    <2>5. L2Good
      <3>1. /\ l2 \in Entry /\ EntryBounded(l2, OldestFound + 1)
            /\ \A p \in Pods : fallback[p] \in Entry /\ EntryBounded(fallback[p], OldestFound + 1)
        BY DEF StaleInv, TypeOK
      <3>2. \A e \in Entry : EntryBounded(e, OldestFound + 1) =>
               Aged(e) \in Entry /\ EntryBounded(Aged(e), OldestFound + 1)'
        BY <1>1, <2>3, AgedBounded, Bounds
      <3>3. l2' = Aged(l2) /\ \A p \in Pods : fallback'[p] = Aged(fallback[p])
        BY <1>19 DEF Tick
      <3>4. QED
        BY <1>19, <3>1, <3>2, <3>3 DEF Tick, EntryBounded
    <2>6. ASSUME NEW p \in Pods, NEW s \in Slots
          PROVE  req'[p][s] \in Request /\ RequestBounded(req[p][s])'
      <3>1. CASE ~Active(p, s)
        <4>1. req'[p][s] = req[p][s] /\ req[p][s].at = "idle"
          BY <1>19, <3>1 DEF Tick, Active
        <4>2. QED
          BY <1>4, <4>1 DEF RequestBounded
      <3>2. CASE Active(p, s)
        <4>1. /\ req'[p][s] = [req[p][s] EXCEPT !.took = @ + 1]
              /\ req[p][s].at # "served" /\ req[p][s].took < MaxFlight
          BY <1>19, <3>2 DEF Tick
        <4>2. /\ req'[p][s] \in Request
              /\ req'[p][s].at = req[p][s].at /\ req'[p][s].version = req[p][s].version
              /\ req'[p][s].took = req[p][s].took + 1
          BY <1>4, <4>1, Bounds DEF Request
        <4>3. /\ replaced'[req[p][s].version] <= replaced[req[p][s].version] + 1
              /\ replaced'[req[p][s].version] \in Nat
          BY <1>4, <2>3
        <4>4. RequestBounded(req[p][s])'
          BY <1>4, <4>1, <4>2, <4>3, Bounds DEF RequestBounded, OldestFound, LongestL2
        <4>5. QED
          BY <4>2, <4>4
      <3>3. QED
        BY <3>1, <3>2
    <2>7. ReqGood
      <3>1. req' = [p \in Pods |-> [s \in Slots |-> req'[p][s]]]
        BY <1>19 DEF Tick
      <3>2. QED
        BY <2>6, <3>1
    <2>8. QED
      BY <2>2, <2>4, <2>5, <2>7
  <1>20. ASSUME UNCHANGED vars PROVE Good
    BY <1>1, <1>3, <1>20 DEF vars
  <1>21. Good
    BY <1>5, <1>6, <1>7, <1>8, <1>9, <1>10, <1>11, <1>12, <1>13, <1>14, <1>15, <1>16, <1>17,
       <1>18, <1>19, <1>20 DEF Next
  <1>22. QED
    BY <1>21 DEF StaleInv, TypeOK

LEMMA StaleInitially ==
    ASSUME Init
    PROVE  StaleInv
  <1>1. TypeOK
    BY Idle, Bounds DEF Init, TypeOK, Versions
  <1>2. /\ \A p \in Pods : EntryBounded(l1[p], MaxStale + 1)
        /\ EntryBounded(l2, OldestFound + 1)
        /\ \A p \in Pods : EntryBounded(fallback[p], OldestFound + 1)
    BY DEF Init, EntryBounded, NoEntry
  <1>3. \A p \in Pods, s \in Slots : RequestBounded(req[p][s])
    BY DEF Init, RequestBounded, IdleRequest
  <1>4. CurrentIsFresh
    BY DEF Init, CurrentIsFresh
  <1>5. QED
    BY <1>1, <1>2, <1>3, <1>4 DEF StaleInv

(* Every variable stays within its type (TypeOK). *)
THEOREM TypeCorrect == Spec => []TypeOK
  <1>1. Init => StaleInv
    BY StaleInitially
  <1>2. StaleInv /\ [Next]_vars => StaleInv'
    BY StalePreserved
  <1>3. StaleInv => TypeOK
    BY DEF StaleInv
  <1>4. QED
    BY <1>1, <1>2, <1>3, PTL DEF Spec

(***************************************************************************)
(* Whatever evictions are lost and whatever fails, what authorizes a       *)
(* request was replaced at most MaxStale ticks ago: the longest L2 life,   *)
(* the L1 life of a record found in L2 and the flights of the two requests *)
(* that carried it there (StaleBounded).                                   *)
(***************************************************************************)
THEOREM StalenessIsBounded == Spec => []StaleBounded
  <1>1. Init => StaleInv
    BY StaleInitially
  <1>2. StaleInv /\ [Next]_vars => StaleInv'
    BY StalePreserved
  <1>3. StaleInv => StaleBounded
    BY DEF StaleInv, StaleBounded, RequestBounded, Served
  <1>4. QED
    BY <1>1, <1>2, <1>3, PTL DEF Spec
-----------------------------------------------------------------------------
(***************************************************************************)
(* An eviction with Redis in reach that no request overlaps.  All requests *)
(* use Redis; when the eviction for v is done, only L1 entries are older   *)
(* than v, no request holds one, and what they have to live and the ticks  *)
(* since add up to L1Ttl at most.                                          *)
(***************************************************************************)
OnRedis ==
    /\ up /\ \A p \in Pods : ~cooling[p]
    /\ \A p \in Pods, s \in Slots : req[p][s].store = "redis"

(* An eviction is for a version the row has had, and it begins to age when it is done. *)
EvictionsOrdered ==
    \A v \in Versions : /\ eviction[v] # "none" => v <= version
                        /\ eviction[v] # "done" => evicted[v] = 0

(* No other request is under way while one evicts. *)
EvictsAlone ==
    \A p \in Pods, s \in Slots : Evicting(p, s) =>
        /\ req[p][s].version <= version
        /\ \A q \in Pods, x \in Slots : Active(q, x) => q = p /\ x = s

L1Evicted(e) ==
    /\ e.left <= L1Ttl
    /\ \A v \in DoneVersions : e.left > 0 /\ e.version < v => evicted[v] + e.left <= L1Ttl

L2Evicted(e) == \A v \in DoneVersions : e.left > 0 => v <= e.version

RequestEvicted(r) ==
    \A v \in DoneVersions :
        /\ r.at \in {"found", "selected", "storing"} => v <= r.version
        /\ r.at = "served" /\ r.version < v => evicted[v] < L1Ttl

EvictInv ==
    /\ StaleInv /\ OnRedis /\ EvictionsOrdered /\ EvictsAlone
    /\ \A p \in Pods : L1Evicted(l1[p])
    /\ L2Evicted(l2)
    /\ \A p \in Pods, s \in Slots : RequestEvicted(req[p][s])

(* Nothing of an eviction is in an entry or a request that holds nothing. *)
LEMMA NothingEvicted ==
    /\ L1Evicted(NoEntry) /\ L2Evicted(NoEntry) /\ RequestEvicted(IdleRequest)
    /\ IdleRequest.at = "idle" /\ IdleRequest.store = "redis"
  BY DEF L1Evicted, L2Evicted, RequestEvicted, NoEntry, IdleRequest

(* With Redis in reach, the client is Redis. *)
LEMMA ClientIsRedis ==
    ASSUME OnRedis, NEW p \in Pods, NEW c, GetClient(p, c)
    PROVE  c = "redis" /\ cooling' = cooling
  BY DEF OnRedis, GetClient

(* What a request goes on with when it is not evicting. *)
LEMMA MovesOn ==
    ASSUME EvictInv, NEW p \in Pods, NEW s \in Slots, NEW r, Become(p, s, r),
           r.store = "redis", r.at # "deleting", RequestEvicted(r),
           r.at = "idle" \/ Active(p, s) \/ \A q \in Pods, x \in Slots : ~Evicting(q, x),
           UNCHANGED <<version, up, cooling, eviction, evicted>>
    PROVE  /\ OnRedis' /\ EvictionsOrdered' /\ EvictsAlone'
           /\ \A q \in Pods, x \in Slots : RequestEvicted(req[q][x])'
  <1>1. \A q \in Pods, x \in Slots : req'[q][x] = IF q = p /\ x = s THEN r ELSE req[q][x]
    BY DEF Become, EvictInv, StaleInv, TypeOK
  <1>2. OnRedis' /\ EvictionsOrdered'
    BY <1>1 DEF EvictInv, OnRedis, EvictionsOrdered
  <1>3. EvictsAlone'
    <2> SUFFICES ASSUME NEW q \in Pods, NEW x \in Slots, Evicting(q, x)'
                 PROVE  /\ req'[q][x].version <= version'
                        /\ \A a \in Pods, b \in Slots : Active(a, b)' => a = q /\ b = x
      BY DEF EvictsAlone
    <2>1. ~(q = p /\ x = s) /\ req'[q][x] = req[q][x] /\ Evicting(q, x)
      BY <1>1 DEF Evicting
    <2>2. ~Active(p, s) /\ r.at = "idle"
      BY <2>1 DEF EvictInv, EvictsAlone
    <2> QED
      BY <1>1, <2>1, <2>2 DEF EvictInv, EvictsAlone, Active
  <1>4. \A q \in Pods, x \in Slots : RequestEvicted(req[q][x])'
    BY <1>1 DEF RequestEvicted, DoneVersions, EvictInv
  <1> QED
    BY <1>2, <1>3, <1>4

(* The entries, where the evictions stay as they are. *)
LEMMA EntriesStay ==
    ASSUME EvictInv, UNCHANGED <<eviction, evicted>>
    PROVE  /\ \A p \in Pods : l1'[p] = l1[p] \/ L1Evicted(l1'[p]) => L1Evicted(l1[p])'
           /\ l2' = l2 \/ L2Evicted(l2') => L2Evicted(l2)'
  BY DEF EvictInv, L1Evicted, L2Evicted, DoneVersions

(* A request under way is not evicting, if it is where a step finds it. *)
LEMMA EvictedRequests ==
    ASSUME EvictInv, NEW p \in Pods, NEW s \in Slots
    PROVE  /\ req[p][s] \in Request /\ req[p][s].version \in Versions /\ RequestEvicted(req[p][s])
           /\ req[p][s].store = "redis"
           /\ l1[p] \in Entry /\ L1Evicted(l1[p])
           /\ version \in Nat /\ \A v \in Versions : v \in Nat /\ evicted[v] \in Nat
           /\ \A v \in DoneVersions : v \in Versions /\ v <= version
  <1>1. req[p][s] \in Request /\ l1[p] \in Entry /\ version \in Versions
    BY DEF EvictInv, StaleInv, TypeOK
  <1>2. \A v \in Versions : v \in Nat /\ evicted[v] \in Nat
    <2>1. evicted \in [Versions -> 0..L1Ttl] /\ L1Ttl \in Nat
      BY Bounds DEF EvictInv, StaleInv, TypeOK
    <2>2. \A v \in Versions : v \in Nat
      BY DEF Versions
    <2> QED
      BY <2>1, <2>2
  <1>3. \A v \in DoneVersions : v \in Versions /\ v <= version
    BY DEF DoneVersions, EvictInv, EvictionsOrdered
  <1> QED
    BY <1>1, <1>2, <1>3 DEF Request, EvictInv, OnRedis

(* Every step keeps it, where evictions are serial and Redis stays in reach. *)
LEMMA EvictPreserved ==
    ASSUME Serial, ~Outages, EvictInv, [Next]_vars
    PROVE  EvictInv'
  <1> DEFINE L1Kept == \A p \in Pods : L1Evicted(l1[p])'
             L2Kept == L2Evicted(l2)'
             ReqKept == \A p \in Pods, s \in Slots : RequestEvicted(req[p][s])'
             Kept == OnRedis' /\ EvictionsOrdered' /\ EvictsAlone' /\ L1Kept /\ L2Kept /\ ReqKept
  <1> USE DEF caches, history
  <1>0. StaleInv'
    BY StalePreserved DEF EvictInv
  <1>1. ASSUME UNCHANGED <<eviction, evicted>>
        PROVE  /\ (\A p \in Pods : l1'[p] = l1[p] \/ L1Evicted(l1'[p])) => L1Kept
               /\ l2' = l2 \/ L2Evicted(l2') => L2Kept
    BY <1>1, EntriesStay
  <1>2. ASSUME UNCHANGED <<version, up, cooling, eviction, evicted, l1, l2>>,
               NEW p \in Pods, NEW s \in Slots, NEW r, Become(p, s, r),
               r.store = "redis", r.at # "deleting", RequestEvicted(r),
               r.at = "idle" \/ Active(p, s) \/ \A q \in Pods, x \in Slots : ~Evicting(q, x)
        PROVE  Kept
    BY <1>1, <1>2, MovesOn
  <1>3. ASSUME NEW p \in Pods, NEW s \in Slots, Begin(p, s) PROVE Kept
    <2> DEFINE rec == [IdleRequest EXCEPT !.evictions = DoneVersions, !.reach = up]
    <2>0. \A q \in Pods, x \in Slots : ~Evicting(q, x)
      BY <1>3 DEF Begin
    <2>1. CASE l1[p].left > 0 /\ UNCHANGED cooling
               /\ Become(p, s, [rec EXCEPT !.at = "served", !.version = l1[p].version])
      <3> DEFINE r == [rec EXCEPT !.at = "served", !.version = l1[p].version]
      <3>1. r.at = "served" /\ r.version = l1[p].version /\ r.store = "redis"
        BY DEF IdleRequest
      <3>2. l1[p].left \in Nat /\ l1[p].version \in Versions
        BY EvictedRequests, Bounds DEF Entry
      <3>3. RequestEvicted(r)
        <4> SUFFICES ASSUME NEW v \in DoneVersions, l1[p].version < v
                     PROVE  evicted[v] < L1Ttl
          BY <3>1 DEF RequestEvicted
        <4>1. evicted[v] + l1[p].left <= L1Ttl
          BY <2>1, EvictedRequests DEF L1Evicted
        <4>2. evicted[v] \in Nat
          BY EvictedRequests
        <4> QED
          BY <2>1, <3>2, <4>1, <4>2, Bounds
      <3> HIDE DEF r
      <3> QED
        BY <1>2, <1>3, <2>0, <2>1, <3>1, <3>3 DEF Begin, r
    <2>2. ASSUME NEW c \in Stores, GetClient(p, c),
                 Become(p, s, [rec EXCEPT !.at = "reading", !.store = c])
          PROVE  Kept
      <3> DEFINE r == [rec EXCEPT !.at = "reading", !.store = c]
      <3>1. c = "redis" /\ cooling' = cooling
        BY <2>2, ClientIsRedis DEF EvictInv
      <3>2. r.at = "reading" /\ r.store = "redis" /\ RequestEvicted(r)
        BY <3>1 DEF IdleRequest, RequestEvicted
      <3> HIDE DEF r
      <3> QED
        BY <1>2, <1>3, <2>0, <2>2, <3>1, <3>2 DEF Begin, r
    <2> QED
      BY <1>3, <2>1, <2>2 DEF Begin
  <1>4. ASSUME NEW p \in Pods, NEW s \in Slots, ReadL2(p, s) PROVE Kept
    <2>1. /\ req[p][s] \in Request /\ req[p][s].store = "redis" /\ req[p][s].at = "reading"
          /\ Active(p, s)
      BY <1>4, EvictedRequests DEF ReadL2, Active
    <2>2. Held(p, s) = l2
      BY <2>1 DEF Held, EvictInv, OnRedis
    <2>3. CASE l2.left > 0
      <3> DEFINE r == [req[p][s] EXCEPT !.at = "found", !.version = l2.version]
      <3>1. r.at = "found" /\ r.version = l2.version /\ r.store = "redis"
        BY <2>1 DEF Request
      <3>2. RequestEvicted(r)
        BY <2>3, <3>1 DEF RequestEvicted, EvictInv, L2Evicted
      <3>3. Become(p, s, r)
        BY <1>4, <2>2, <2>3 DEF ReadL2
      <3> HIDE DEF r
      <3> QED
        BY <1>2, <1>4, <2>1, <3>1, <3>2, <3>3 DEF ReadL2
    <2>4. CASE ~(l2.left > 0)
      <3> DEFINE r == [req[p][s] EXCEPT !.at = "selecting"]
      <3>1. r.at = "selecting" /\ r.store = "redis" /\ RequestEvicted(r)
        BY <2>1 DEF Request, RequestEvicted
      <3>2. Become(p, s, r)
        BY <1>4, <2>2, <2>4 DEF ReadL2
      <3> HIDE DEF r
      <3> QED
        BY <1>2, <1>4, <2>1, <3>1, <3>2 DEF ReadL2
    <2> QED
      BY <2>3, <2>4
  <1>5. ASSUME NEW p \in Pods, NEW s \in Slots, Repopulate(p, s) PROVE Kept
    <2>1. /\ req[p][s] \in Request /\ req[p][s].store = "redis" /\ req[p][s].at = "found"
          /\ Active(p, s) /\ req[p][s].version \in Versions
          /\ \A v \in DoneVersions : v <= req[p][s].version /\ v \in Nat
      BY <1>5, EvictedRequests DEF Repopulate, Active, RequestEvicted
    <2> DEFINE e == [version |-> req[p][s].version, left |-> RepopTtl]
    <2>2. L1Evicted(e)
      BY <2>1, Bounds DEF L1Evicted, Versions
    <2> DEFINE r == [req[p][s] EXCEPT !.at = "served"]
    <2>3. r.at = "served" /\ r.version = req[p][s].version /\ r.store = "redis"
      BY <2>1 DEF Request
    <2>4. RequestEvicted(r)
      BY <2>1, <2>3 DEF RequestEvicted, Versions
    <2>5. Become(p, s, r) /\ l1' = [l1 EXCEPT ![p] = e]
      BY <1>5 DEF Repopulate
    <2> HIDE DEF r, e
    <2>6. \A q \in Pods : l1'[q] = l1[q] \/ L1Evicted(l1'[q])
      BY <2>2, <2>5 DEF EvictInv, StaleInv, TypeOK
    <2> QED
      BY <1>1, <1>5, <2>1, <2>3, <2>4, <2>5, <2>6, MovesOn DEF Repopulate
  <1>6. ASSUME NEW p \in Pods, NEW s \in Slots, Select(p, s) PROVE Kept
    <2>1. req[p][s] \in Request /\ req[p][s].store = "redis" /\ Active(p, s)
      BY <1>6, EvictedRequests DEF Select, Active
    <2>2. CASE Become(p, s, [req[p][s] EXCEPT !.at = "selected", !.version = version])
      <3> DEFINE r == [req[p][s] EXCEPT !.at = "selected", !.version = version]
      <3>1. r.at = "selected" /\ r.version = version /\ r.store = "redis"
        BY <2>1 DEF Request
      <3>2. RequestEvicted(r)
        BY <3>1, EvictedRequests DEF RequestEvicted
      <3> HIDE DEF r
      <3> QED
        BY <1>2, <1>6, <2>1, <2>2, <3>1, <3>2 DEF Select, r
    <2>3. CASE Become(p, s, IdleRequest)
      BY <1>2, <1>6, <2>3, NothingEvicted DEF Select
    <2> QED
      BY <1>6, <2>2, <2>3 DEF Select
  <1>7. ASSUME NEW p \in Pods, NEW s \in Slots, StoreL1(p, s) PROVE Kept
    <2>1. /\ req[p][s] \in Request /\ req[p][s].at = "selected"
          /\ Active(p, s) /\ req[p][s].version \in Versions
          /\ \A v \in DoneVersions : v <= req[p][s].version /\ v \in Nat
      BY <1>7, EvictedRequests DEF StoreL1, Active, RequestEvicted
    <2> DEFINE e == [version |-> req[p][s].version, left |-> L1Ttl]
    <2>2. L1Evicted(e)
      BY <2>1, Bounds DEF L1Evicted, Versions
    <2>3. PICK c \in Stores : /\ GetClient(p, c)
                              /\ Become(p, s, [req[p][s] EXCEPT !.at = "storing", !.store = c])
      BY <1>7 DEF StoreL1
    <2>4. c = "redis" /\ cooling' = cooling
      BY <2>3, ClientIsRedis DEF EvictInv
    <2> DEFINE r == [req[p][s] EXCEPT !.at = "storing", !.store = c]
    <2>5. r.at = "storing" /\ r.version = req[p][s].version /\ r.store = "redis"
      BY <2>1, <2>4 DEF Request
    <2>6. RequestEvicted(r)
      BY <2>1, <2>5 DEF RequestEvicted
    <2>7. Become(p, s, r) /\ l1' = [l1 EXCEPT ![p] = e]
      BY <1>7, <2>3 DEF StoreL1
    <2> HIDE DEF r, e
    <2>8. \A q \in Pods : l1'[q] = l1[q] \/ L1Evicted(l1'[q])
      BY <2>2, <2>7 DEF EvictInv, StaleInv, TypeOK
    <2> QED
      BY <1>1, <1>7, <2>1, <2>4, <2>5, <2>6, <2>7, <2>8, MovesOn DEF StoreL1
  <1>8. ASSUME NEW p \in Pods, NEW s \in Slots, StoreL2(p, s) PROVE Kept
    <2>1. /\ req[p][s] \in Request /\ req[p][s].store = "redis" /\ req[p][s].at = "storing"
          /\ Active(p, s) /\ req[p][s].version \in Versions
          /\ \A v \in DoneVersions : v <= req[p][s].version /\ v \in Nat
      BY <1>8, EvictedRequests DEF StoreL2, Active, RequestEvicted
    <2>2. PICK ttl \in (L2Ttl - Jitter)..LongestL2 :
             Write(p, s, [version |-> req[p][s].version, left |-> ttl])
      BY <1>8 DEF StoreL2
    <2> DEFINE e == [version |-> req[p][s].version, left |-> ttl]
    <2>3. L2Evicted(e)
      BY <2>1 DEF L2Evicted
    <2> DEFINE r == [req[p][s] EXCEPT !.at = "served"]
    <2>4. r.at = "served" /\ r.version = req[p][s].version /\ r.store = "redis"
      BY <2>1 DEF Request
    <2>5. RequestEvicted(r)
      BY <2>1, <2>4 DEF RequestEvicted, Versions
    <2>6. Become(p, s, r) /\ Write(p, s, e)
      BY <1>8, <2>2 DEF StoreL2
    <2> HIDE DEF r, e
    <2>7. l2' = l2 \/ L2Evicted(l2')
      BY <2>3, <2>6 DEF Write
    <2> QED
      BY <1>1, <1>8, <2>1, <2>4, <2>5, <2>6, <2>7, MovesOn DEF StoreL2
  <1>9. ASSUME NEW p \in Pods, NEW s \in Slots, End(p, s) PROVE Kept
    BY <1>2, <1>9, NothingEvicted DEF End
  <1>10. ASSUME NEW p \in Pods, NEW s \in Slots, NEW v \in Versions, BeginEviction(p, s, v)
         PROVE  Kept
    <2>1. \A q \in Pods, x \in Slots : ~Active(q, x)
      BY <1>10 DEF BeginEviction
    <2>2. PICK c \in Stores :
             /\ GetClient(p, c)
             /\ Become(p, s, [IdleRequest EXCEPT !.at = "deleting", !.version = v, !.store = c])
      BY <1>10 DEF BeginEviction
    <2>3. c = "redis" /\ cooling' = cooling
      BY <2>2, ClientIsRedis DEF EvictInv
    <2> DEFINE r == [IdleRequest EXCEPT !.at = "deleting", !.version = v, !.store = c]
    <2>4. r.at = "deleting" /\ r.version = v /\ r.store = "redis"
      BY <2>3 DEF IdleRequest
    <2>5. \A q \in Pods, x \in Slots : req'[q][x] = IF q = p /\ x = s THEN r ELSE req[q][x]
      BY <2>2 DEF Become, EvictInv, StaleInv, TypeOK
    <2> HIDE DEF r
    <2>6. v <= version /\ version' = version
      BY <1>10 DEF BeginEviction, EvictInv, EvictionsOrdered, StaleInv, TypeOK, Versions
    <2>7. /\ \A w \in Versions : /\ eviction'[w] = "done" <=> eviction[w] = "done"
                                 /\ eviction'[w] # "none" => eviction[w] # "none"
          /\ evicted' = evicted /\ up' = up
      BY <1>10 DEF BeginEviction, EvictInv, StaleInv, TypeOK
    <2>8. DoneVersions' = DoneVersions
      BY <2>7 DEF DoneVersions
    <2>9. OnRedis'
      BY <2>3, <2>4, <2>5, <2>7 DEF OnRedis, EvictInv
    <2>10. EvictionsOrdered'
      BY <2>6, <2>7 DEF EvictionsOrdered, EvictInv
    <2>11. EvictsAlone'
      BY <2>1, <2>4, <2>5, <2>6 DEF EvictsAlone, Evicting, Active
    <2>12. L1Kept /\ L2Kept
      <3>1. l2' = l2 /\ \A q \in Pods : l1'[q] = l1[q] \/ l1'[q] = NoEntry
        BY <1>10 DEF BeginEviction, EvictInv, StaleInv, TypeOK
      <3>2. \A q \in Pods : L1Evicted(l1'[q])
        BY <3>1, NothingEvicted DEF EvictInv
      <3> QED
        BY <2>7, <2>8, <3>1, <3>2 DEF L1Evicted, L2Evicted, EvictInv
    <2>13. ReqKept
      BY <2>4, <2>5, <2>7, <2>8 DEF RequestEvicted, EvictInv
    <2> QED
      BY <2>9, <2>10, <2>11, <2>12, <2>13
  <1>11. ASSUME NEW p \in Pods, NEW s \in Slots, DeleteL2(p, s) PROVE Kept
    <2> DEFINE v == req[p][s].version
    <2>1. /\ v \in Versions /\ v <= version /\ req[p][s].store = "redis"
          /\ \A q \in Pods, x \in Slots : Active(q, x) => q = p /\ x = s
      BY <1>11, EvictedRequests DEF DeleteL2, EvictInv, EvictsAlone
    <2>2. l2' = NoEntry /\ l1' = l1 /\ UNCHANGED <<version, up, cooling, evicted>>
      BY <1>11, <2>1 DEF DeleteL2, Write, EvictInv, OnRedis
    <2>3. \A q \in Pods, x \in Slots : req'[q][x] = IF q = p /\ x = s THEN IdleRequest ELSE req[q][x]
      BY <1>11 DEF DeleteL2, Become, EvictInv, StaleInv, TypeOK
    <2>4. \A q \in Pods, x \in Slots : req'[q][x].at = "idle" /\ req'[q][x].store = "redis"
      BY <2>1, <2>3, NothingEvicted DEF Active, EvictInv, OnRedis
    <2>5. \A w \in Versions : eviction'[w] = eviction[w] \/ (w = v /\ eviction'[w] = "done")
      BY <1>11 DEF DeleteL2, EvictInv, StaleInv, TypeOK
    <2>6. \A w \in DoneVersions' : w \in DoneVersions \/ (w = v /\ evicted[w] = 0)
      BY <2>5 DEF DoneVersions, EvictInv, EvictionsOrdered
    <2> HIDE DEF v
    <2>7. OnRedis'
      BY <2>2, <2>4 DEF OnRedis, EvictInv
    <2>8. EvictionsOrdered'
      BY <2>1, <2>2, <2>5 DEF EvictionsOrdered, EvictInv
    <2>9. EvictsAlone'
      BY <2>4 DEF EvictsAlone, Evicting
    <2>10. L1Kept
      <3> SUFFICES ASSUME NEW q \in Pods PROVE L1Evicted(l1[q])'
        OBVIOUS
      <3>1. L1Evicted(l1[q]) /\ l1'[q] = l1[q] /\ evicted' = evicted /\ l1[q].left \in Nat
        BY <2>2, Bounds DEF EvictInv, StaleInv, TypeOK, Entry
      <3> QED
        BY <2>6, <3>1, Bounds DEF L1Evicted
    <2>11. L2Kept
      BY <2>2 DEF L2Evicted, NoEntry
    <2>12. ReqKept
      BY <2>4 DEF RequestEvicted
    <2> QED
      BY <2>7, <2>8, <2>9, <2>10, <2>11, <2>12
  <1>12. ASSUME NEW p \in Pods, Restart(p) PROVE Kept
    <2>1. \A q \in Pods, x \in Slots : req'[q][x] = IF q = p THEN IdleRequest ELSE req[q][x]
      BY <1>12 DEF Restart, EvictInv, StaleInv, TypeOK
    <2>2. UNCHANGED <<version, up, eviction, evicted, l2>> /\ \A q \in Pods : ~cooling'[q]
      BY <1>12, Zenon DEF Restart, EvictInv, OnRedis, StaleInv, TypeOK
    <2>3. \A q \in Pods : l1'[q] = l1[q] \/ L1Evicted(l1'[q])
      BY <1>12, NothingEvicted DEF Restart, EvictInv, StaleInv, TypeOK
    <2>4. OnRedis' /\ EvictionsOrdered'
      BY <2>1, <2>2, NothingEvicted DEF OnRedis, EvictionsOrdered, EvictInv
    <2>5. EvictsAlone'
      BY <2>1, <2>2, NothingEvicted DEF EvictsAlone, Evicting, Active, EvictInv
    <2>6. ReqKept
      <3>1. \A q \in Pods, x \in Slots : RequestEvicted(req'[q][x])
        BY <2>1, NothingEvicted DEF EvictInv
      <3> QED
        BY <2>2, <3>1 DEF RequestEvicted, DoneVersions
    <2> QED
      BY <1>1, <2>2, <2>3, <2>4, <2>5, <2>6
  <1>13. ASSUME NEW p \in Pods, CooldownOver(p) PROVE Kept
    BY <1>13 DEF CooldownOver, EvictInv, OnRedis
  <1>14. ASSUME ChangeRole PROVE Kept
    <2>1. version' = version + 1 /\ version \in Nat /\ UNCHANGED <<l1, l2, up, cooling, req, evicted>>
      BY <1>14 DEF ChangeRole, EvictInv, StaleInv, TypeOK, Versions
    <2>2. \A w \in Versions : eviction'[w] = eviction[w] \/ (w = version + 1 /\ eviction'[w] = "due")
      BY <1>14 DEF ChangeRole, EvictInv, StaleInv, TypeOK
    <2>3. DoneVersions' \subseteq DoneVersions
      BY <2>2 DEF DoneVersions
    <2>4. \A w \in Versions : eviction[w] = "done" => eviction'[w] = "done"
      <3> SUFFICES ASSUME NEW w \in Versions, eviction[w] = "done"
                   PROVE  eviction'[w] = "done"
        OBVIOUS
      <3>1. w <= version
        BY DEF EvictInv, EvictionsOrdered
      <3> QED
        BY <2>1, <2>2, <3>1 DEF Versions
    <2>5. OnRedis'
      BY <2>1 DEF OnRedis, EvictInv
    <2>6. EvictionsOrdered'
      <3>1. \A w \in Versions : w \in Nat
        BY DEF Versions
      <3> QED
        BY <2>1, <2>2, <2>4, <3>1 DEF EvictionsOrdered, EvictInv
    <2>7. EvictsAlone'
      <3>1. \A q \in Pods, x \in Slots : req[q][x].version \in Nat
        BY EvictedRequests DEF Versions
      <3> QED
        BY <2>1, <3>1 DEF EvictsAlone, Evicting, Active, EvictInv
    <2>8. L1Kept /\ L2Kept /\ ReqKept
      BY <2>1, <2>3 DEF L1Evicted, L2Evicted, RequestEvicted, EvictInv
    <2> QED
      BY <2>5, <2>6, <2>7, <2>8
  <1>15. ASSUME Drop PROVE Kept
    <2>1. UNCHANGED <<version, up, cooling, req, eviction, evicted>>
      BY <1>15 DEF Drop
    <2>2. /\ \A q \in Pods : l1'[q] = l1[q] \/ L1Evicted(l1'[q])
          /\ l2' = l2 \/ L2Evicted(l2')
      BY <1>15, NothingEvicted DEF Drop, EvictInv, StaleInv, TypeOK
    <2>3. OnRedis' /\ EvictionsOrdered' /\ EvictsAlone' /\ ReqKept
      BY <2>1 DEF OnRedis, EvictionsOrdered, EvictsAlone, Evicting, Active, RequestEvicted,
                  DoneVersions, EvictInv
    <2> QED
      BY <1>1, <2>1, <2>2, <2>3
  <1>16. ASSUME Tick PROVE Kept
    <2>1. /\ UNCHANGED <<version, up, cooling, eviction>> /\ DoneVersions' = DoneVersions
          /\ \A w \in Versions : evicted'[w] = IF eviction[w] = "done" THEN Older(evicted[w], L1Ttl) ELSE 0
      BY <1>16 DEF Tick, DoneVersions
    <2>2. \A q \in Pods, x \in Slots :
             /\ req'[q][x].at = req[q][x].at /\ req'[q][x].version = req[q][x].version
             /\ req'[q][x].store = req[q][x].store /\ req[q][x].at # "served"
      <3> SUFFICES ASSUME NEW q \in Pods, NEW x \in Slots
                   PROVE  /\ req'[q][x].at = req[q][x].at /\ req'[q][x].version = req[q][x].version
                          /\ req'[q][x].store = req[q][x].store /\ req[q][x].at # "served"
        OBVIOUS
      <3>1. req[q][x] \in Request
        BY EvictedRequests
      <3>2. req'[q][x] = IF Active(q, x) THEN [req[q][x] EXCEPT !.took = @ + 1] ELSE req[q][x]
        BY <1>16 DEF Tick
      <3>3. req[q][x].at # "served"
        BY <1>16 DEF Tick, Active
      <3> QED
        BY <3>1, <3>2, <3>3 DEF Request
    <2>3. OnRedis' /\ EvictsAlone'
      BY <2>1, <2>2 DEF OnRedis, EvictsAlone, Evicting, Active, EvictInv
    <2>4. EvictionsOrdered'
      BY <2>1 DEF EvictionsOrdered, EvictInv
    <2>5. \A w \in DoneVersions : /\ w \in Versions /\ evicted'[w] \in Nat /\ evicted[w] \in Nat
                                  /\ evicted'[w] <= evicted[w] + 1
      <3> SUFFICES ASSUME NEW w \in DoneVersions
                   PROVE  /\ w \in Versions /\ evicted'[w] \in Nat /\ evicted[w] \in Nat
                          /\ evicted'[w] <= evicted[w] + 1
        OBVIOUS
      <3>1. w \in Versions /\ evicted[w] \in 0..L1Ttl
        BY DEF DoneVersions, EvictInv, StaleInv, TypeOK
      <3>2. evicted'[w] = Older(evicted[w], L1Ttl)
        BY <2>1, <3>1 DEF DoneVersions
      <3> QED
        BY <3>1, <3>2, Bounds DEF Older
    <2>6. L1Kept
      <3> SUFFICES ASSUME NEW q \in Pods PROVE L1Evicted(l1[q])'
        OBVIOUS
      <3>1. l1'[q] = Aged(l1[q]) /\ l1[q] \in Entry /\ L1Evicted(l1[q])
        BY <1>16 DEF Tick, EvictInv, StaleInv, TypeOK
      <3>2. CASE l1[q].left > 1
        <4>1. l1'[q].version = l1[q].version /\ l1'[q].left = l1[q].left - 1 /\ l1[q].left \in Nat
          BY <3>1, <3>2, Bounds DEF Aged, Entry
        <4>2. l1[q].left <= L1Ttl
          BY <3>1 DEF L1Evicted
        <4>3. ASSUME NEW w \in DoneVersions', l1'[q].version < w
              PROVE  evicted'[w] + l1'[q].left <= L1Ttl
          <5>1. w \in DoneVersions /\ evicted[w] + l1[q].left <= L1Ttl
            BY <2>1, <3>1, <3>2, <4>1, <4>3, Bounds DEF L1Evicted
          <5> QED
            BY <2>5, <4>1, <5>1, Bounds
        <4> QED
          BY <4>1, <4>2, <4>3, Bounds DEF L1Evicted
      <3>3. CASE ~(l1[q].left > 1)
        <4>1. l1'[q].left = 0
          BY <3>1, <3>3 DEF Aged, NoEntry
        <4> QED
          BY <4>1, Bounds DEF L1Evicted
      <3> QED
        BY <3>2, <3>3
    <2>7. L2Kept
      <3>1. l2' = Aged(l2) /\ l2 \in Entry /\ L2Evicted(l2)
        BY <1>16 DEF Tick, EvictInv, StaleInv, TypeOK
      <3>2. l2'.left > 0 => l2'.version = l2.version /\ l2.left > 0
        BY <3>1, Bounds DEF Aged, Entry, NoEntry
      <3> QED
        BY <2>1, <3>1, <3>2 DEF L2Evicted
    <2>8. ReqKept
      BY <2>1, <2>2 DEF RequestEvicted, EvictInv
    <2> QED
      BY <2>3, <2>4, <2>6, <2>7, <2>8
  <1>17. ASSUME UNCHANGED vars PROVE Kept
    <2>1. UNCHANGED <<version, up, cooling, req, eviction, evicted, l1, l2>>
      BY <1>17 DEF vars
    <2>2. OnRedis' /\ EvictionsOrdered' /\ EvictsAlone' /\ ReqKept
      BY <2>1 DEF OnRedis, EvictionsOrdered, EvictsAlone, Evicting, Active, RequestEvicted,
                  DoneVersions, EvictInv
    <2> QED
      BY <1>1, <2>1, <2>2
  <1>18. Kept
    BY <1>3, <1>4, <1>5, <1>6, <1>7, <1>8, <1>9, <1>10, <1>11, <1>12, <1>13, <1>14, <1>15,
       <1>16, <1>17 DEF Next, Outage
  <1> QED
    BY <1>0, <1>18 DEF EvictInv

LEMMA EvictInitially ==
    ASSUME Init
    PROVE  EvictInv
  <1>1. OnRedis
    BY DEF Init, OnRedis, IdleRequest
  <1>2. EvictionsOrdered /\ EvictsAlone
    BY DEF Init, EvictionsOrdered, EvictsAlone, Evicting, IdleRequest
  <1>3. \A p \in Pods : L1Evicted(l1[p])
    BY NothingEvicted DEF Init
  <1>4. L2Evicted(l2)
    BY NothingEvicted DEF Init
  <1>5. \A p \in Pods, s \in Slots : RequestEvicted(req[p][s])
    BY NothingEvicted DEF Init
  <1> QED
    BY <1>1, <1>2, <1>3, <1>4, <1>5, StaleInitially DEF EvictInv

(***************************************************************************)
(* Where no request overlaps an eviction and Redis stays in reach, a role  *)
(* change whose eviction is done is known to every pod L1Ttl ticks later:  *)
(* by then no request is authorized by an older record (EvictionBounded).  *)
(***************************************************************************)
THEOREM EvictionIsBounded ==
    ASSUME Serial, ~Outages
    PROVE  Spec => []EvictionBounded
  <1>1. Init => EvictInv
    BY EvictInitially
  <1>2. EvictInv /\ [Next]_vars => EvictInv'
    BY EvictPreserved
  <1>3. EvictInv => EvictionBounded
    BY DEF EvictInv, EvictionBounded, RequestEvicted, Served
  <1>4. QED
    BY <1>1, <1>2, <1>3, PTL DEF Spec
=============================================================================
