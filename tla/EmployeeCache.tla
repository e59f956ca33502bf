---------------------------- MODULE EmployeeCache ----------------------------
(***************************************************************************)
(* The record by which the portal authorizes a user, behind the two-level  *)
(* cache of packages/redis/src/cache.ts: resolveEmployee() of every pod    *)
(* (apps/portal/src/proxy.ts) reads it through the pod's in-process L1,    *)
(* then Redis (L2) or, without Redis, the pod's SQLite fallback, then the  *)
(* employees table; a role change or a sign-out evicts it by cacheDelete().*)
(*                                                                         *)
(* One user: the cache keeps users apart, but for the LRU eviction of L1,  *)
(* which may strike at any time.  The row is known by its version.  Time   *)
(* advances in ticks, and a request takes at most MaxFlight of them.       *)
(***************************************************************************)
EXTENDS Naturals, FiniteSets

CONSTANTS
    Pods,       \* the portal processes
    Slots,      \* the concurrent requests of a pod
    MaxVersion, \* bound on the changes of the row
    L1Ttl,      \* the L1 life of a stored record, min(ttl, 60 s)
    RepopTtl,   \* the L1 life of a record found in L2, 15 s
    L2Ttl,      \* the L2 life of a stored record, 300 s
    Jitter,     \* what jitterTtl() adds or takes at most, 10 %
    MaxFlight,  \* how long a request can be under way
    Outages,    \* whether Redis may be out of reach
    Serial      \* whether no other request is under way during an eviction

ASSUME EmployeeCacheAssumption ==
    /\ {MaxVersion, L1Ttl, RepopTtl, L2Ttl, Jitter, MaxFlight} \subseteq Nat
    /\ 0 < RepopTtl /\ RepopTtl < L1Ttl /\ L1Ttl < L2Ttl /\ Jitter < L2Ttl
    /\ {Outages, Serial} \subseteq BOOLEAN

VARIABLES
    version,  \* the version of the row in employees
    l1,       \* l1[p]: the L1 entry of pod p
    l2,       \* the entry in Redis
    fallback, \* fallback[p]: the entry in the SQLite store of p
    up,       \* whether Redis can be reached
    cooling,  \* cooling[p]: whether p failed to connect less than 10 s ago
    req,      \* req[p][s]: where a request stands
    eviction, \* eviction[v]: "none", "due" once the row became v, "begun", "done"
    replaced, \* history: replaced[v], ticks since version v was replaced
    evicted   \* history: evicted[v], ticks since the eviction for v was done

caches == <<l1, l2, fallback>>
history == <<replaced, evicted>>
vars == <<version, caches, up, cooling, req, eviction, history>>

Versions == 0..MaxVersion

LongestL2 == L2Ttl + Jitter

(* left: the ticks the entry has to live; 0 for no entry. *)
Entry == [version : Versions, left : 0..LongestL2]

NoEntry == [version |-> 0, left |-> 0]

Stores == {"redis", "fallback"}

Request == [at      : {"idle", "reading", "found", "selecting", "selected", "storing",
                       "served", "deleting"},
            version : Versions,              \* of the record it holds
            store   : Stores,                \* the client getRedisClient() gave it
            took    : 0..MaxFlight,          \* ticks since it began
            evictions : SUBSET Versions,     \* history: the evictions done when it began
            reach   : BOOLEAN]               \* history: up when it began

IdleRequest == [at |-> "idle", version |-> 0, store |-> "redis", took |-> 0,
                evictions |-> {}, reach |-> TRUE]

(* The ages saturate where the properties stop telling them apart. *)
MaxStale == 2 * MaxFlight + (LongestL2 - 1) + (RepopTtl - 1)
Older(age, cap) == IF age < cap THEN age + 1 ELSE cap

TypeOK ==
    /\ version \in Versions
    /\ l1 \in [Pods -> Entry]
    /\ l2 \in Entry
    /\ fallback \in [Pods -> Entry]
    /\ up \in BOOLEAN
    /\ cooling \in [Pods -> BOOLEAN]
    /\ req \in [Pods -> [Slots -> Request]]
    /\ eviction \in [Versions -> {"none", "due", "begun", "done"}]
    /\ replaced \in [Versions -> 0..(MaxStale + 1)]
    /\ evicted \in [Versions -> 0..L1Ttl]

Init ==
    /\ version = 0
    /\ l1 = [p \in Pods |-> NoEntry]
    /\ l2 = NoEntry
    /\ fallback = [p \in Pods |-> NoEntry]
    /\ up = TRUE
    /\ cooling = [p \in Pods |-> FALSE]
    /\ req = [p \in Pods |-> [s \in Slots |-> IdleRequest]]
    /\ eviction = [v \in Versions |-> "none"]
    /\ replaced = [v \in Versions |-> 0]
    /\ evicted = [v \in Versions |-> 0]

-----------------------------------------------------------------------------
(* The versions whose eviction is done. *)
DoneVersions == {v \in Versions : eviction[v] = "done"}

Evicting(p, s) == req[p][s].at = "deleting"
Active(p, s) == req[p][s].at # "idle"

Become(p, s, rec) == req' = [req EXCEPT ![p][s] = rec]

(***************************************************************************)
(* getRedisClient(): during an outage the fallback, once the client is     *)
(* seen not to be ready and fails to connect, and for a cooldown after it. *)
(***************************************************************************)
GetClient(p, c) ==
    \/ /\ c = "redis" /\ ~cooling[p]
       /\ UNCHANGED cooling
    \/ /\ c = "fallback" /\ (cooling[p] \/ ~up)
       /\ cooling' = [cooling EXCEPT ![p] = TRUE]

(* What the client of request s holds under the key; an error is a miss. *)
Held(p, s) ==
    IF req[p][s].store = "fallback" THEN fallback[p] ELSE IF up THEN l2 ELSE NoEntry

(* The client writes an entry, or deletes it; without Redis that is an error. *)
Write(p, s, e) ==
    /\ l2' = IF req[p][s].store = "redis" /\ up THEN e ELSE l2
    /\ fallback' = IF req[p][s].store = "fallback" THEN [fallback EXCEPT ![p] = e] ELSE fallback

-----------------------------------------------------------------------------
(* resolveEmployee(): cacheGet() first looks in L1. *)
Begin(p, s) ==
    /\ ~Active(p, s)
    /\ Serial => \A q \in Pods, x \in Slots : ~Evicting(q, x)
    /\ LET rec == [IdleRequest EXCEPT !.evictions = DoneVersions, !.reach = up]
       IN  \/ /\ l1[p].left > 0
              /\ Become(p, s, [rec EXCEPT !.at = "served", !.version = l1[p].version])
              /\ UNCHANGED cooling
           \/ /\ l1[p].left = 0
              /\ \E c \in Stores : /\ GetClient(p, c)
                                    /\ Become(p, s, [rec EXCEPT !.at = "reading", !.store = c])
    /\ UNCHANGED <<version, caches, up, eviction, history>>

ReadL2(p, s) ==
    /\ req[p][s].at = "reading"
    /\ LET e == Held(p, s)
       IN  Become(p, s, IF e.left > 0
                          THEN [req[p][s] EXCEPT !.at = "found", !.version = e.version]
                          ELSE [req[p][s] EXCEPT !.at = "selecting"])
    /\ UNCHANGED <<version, caches, up, cooling, eviction, history>>

(* Faulty variant: stored in L2 anew. *)
RepopulateRenewing(p, s) ==
    /\ req[p][s].at = "found"
    /\ l1' = [l1 EXCEPT ![p] = [version |-> req[p][s].version, left |-> RepopTtl]]
    /\ Write(p, s, [version |-> req[p][s].version, left |-> L2Ttl])
    /\ Become(p, s, [req[p][s] EXCEPT !.at = "served"])
    /\ UNCHANGED <<version, up, cooling, eviction, history>>

(* A record found in L2 is kept in L1 for a while. *)
Repopulate(p, s) ==
    /\ req[p][s].at = "found"
    /\ l1' = [l1 EXCEPT ![p] = [version |-> req[p][s].version, left |-> RepopTtl]]
    /\ Become(p, s, [req[p][s] EXCEPT !.at = "served"])
    /\ UNCHANGED <<version, l2, fallback, up, cooling, eviction, history>>

(* The row as the database has it; a query that fails authorizes nobody. *)
Select(p, s) ==
    /\ req[p][s].at = "selecting"
    /\ \/ Become(p, s, [req[p][s] EXCEPT !.at = "selected", !.version = version])
       \/ Become(p, s, IdleRequest)
    /\ UNCHANGED <<version, caches, up, cooling, eviction, history>>

(* cacheSet(): L1 at once, then L2 with a jittered TTL. *)
StoreL1(p, s) ==
    /\ req[p][s].at = "selected"
    /\ l1' = [l1 EXCEPT ![p] = [version |-> req[p][s].version, left |-> L1Ttl]]
    /\ \E c \in Stores : /\ GetClient(p, c)
                          /\ Become(p, s, [req[p][s] EXCEPT !.at = "storing", !.store = c])
    /\ UNCHANGED <<version, l2, fallback, up, eviction, history>>

(* Faulty variant: a jitter beyond its fraction. *)
StoreL2Longer(p, s) ==
    /\ req[p][s].at = "storing"
    /\ \E ttl \in (L2Ttl - Jitter)..(LongestL2 + 1) :
          Write(p, s, [version |-> req[p][s].version, left |-> ttl])
    /\ Become(p, s, [req[p][s] EXCEPT !.at = "served"])
    /\ UNCHANGED <<version, l1, up, cooling, eviction, history>>

StoreL2(p, s) ==
    /\ req[p][s].at = "storing"
    /\ \E ttl \in (L2Ttl - Jitter)..LongestL2 :
          Write(p, s, [version |-> req[p][s].version, left |-> ttl])
    /\ Become(p, s, [req[p][s] EXCEPT !.at = "served"])
    /\ UNCHANGED <<version, l1, up, cooling, eviction, history>>

End(p, s) ==
    /\ req[p][s].at = "served"
    /\ Become(p, s, IdleRequest)
    /\ UNCHANGED <<version, caches, up, cooling, eviction, history>>

-----------------------------------------------------------------------------
(* handleUpdate() of the admin: the row changes, and an eviction is due. *)
ChangeRole ==
    /\ version < MaxVersion
    /\ version' = version + 1
    /\ eviction' = [eviction EXCEPT ![version + 1] = "due"]
    /\ UNCHANGED <<caches, up, cooling, req, history>>

(***************************************************************************)
(* cacheDelete(): by POST /api/cache/invalidate for version v of the row,  *)
(* or at a sign-out, for no version (0).  L1 at once, then the client.     *)
(***************************************************************************)
BeginEviction(p, s, v) ==
    /\ ~Active(p, s)
    /\ Serial => \A q \in Pods, x \in Slots : ~Active(q, x)
    /\ v = 0 \/ eviction[v] = "due"
    /\ eviction' = IF v = 0 THEN eviction ELSE [eviction EXCEPT ![v] = "begun"]
    /\ l1' = [l1 EXCEPT ![p] = NoEntry]
    /\ \E c \in Stores : /\ GetClient(p, c)
                          /\ Become(p, s, [IdleRequest EXCEPT !.at = "deleting", !.version = v,
                                                              !.store = c])
    /\ UNCHANGED <<version, l2, fallback, up, history>>

(* Faulty variant, cacheEvictL1ByPrefix() as it once was: L2 keeps its entry. *)
DeleteL1Only(p, s) ==
    /\ Evicting(p, s)
    /\ LET v == req[p][s].version
       IN  eviction' = IF v = 0 THEN eviction ELSE [eviction EXCEPT ![v] = "done"]
    /\ Become(p, s, IdleRequest)
    /\ UNCHANGED <<version, caches, up, cooling, history>>

DeleteL2(p, s) ==
    /\ Evicting(p, s)
    /\ Write(p, s, NoEntry)
    /\ LET v == req[p][s].version
       IN  eviction' = IF v = 0 THEN eviction ELSE [eviction EXCEPT ![v] = "done"]
    /\ Become(p, s, IdleRequest)
    /\ UNCHANGED <<version, l1, up, cooling, history>>

-----------------------------------------------------------------------------
(* An entry is dropped early: LRU eviction of L1, memory pressure in L2. *)
Drop ==
    /\ \/ \E p \in Pods : /\ l1[p].left > 0
                          /\ l1' = [l1 EXCEPT ![p] = NoEntry]
                          /\ UNCHANGED l2
       \/ l2.left > 0 /\ l2' = NoEntry /\ UNCHANGED l1
    /\ UNCHANGED <<version, fallback, up, cooling, req, eviction, history>>

(* A pod restarts; an eviction it was about to make is not made. *)
Restart(p) ==
    /\ l1' = [l1 EXCEPT ![p] = NoEntry]
    /\ req' = [req EXCEPT ![p] = [s \in Slots |-> IdleRequest]]
    /\ cooling' = [cooling EXCEPT ![p] = FALSE]
    /\ UNCHANGED <<version, l2, fallback, up, eviction, history>>

(* Redis goes out of reach, or comes back with what it held. *)
Outage ==
    /\ Outages
    /\ up' = ~up
    /\ UNCHANGED <<version, caches, cooling, req, eviction, history>>

CooldownOver(p) ==
    /\ cooling[p]
    /\ cooling' = [cooling EXCEPT ![p] = FALSE]
    /\ UNCHANGED <<version, caches, up, req, eviction, history>>

Aged(e) == IF e.left > 1 THEN [e EXCEPT !.left = @ - 1] ELSE NoEntry

Tick ==
    /\ \A p \in Pods, s \in Slots :
          Active(p, s) => req[p][s].at # "served" /\ req[p][s].took < MaxFlight
    /\ l1' = [p \in Pods |-> Aged(l1[p])]
    /\ l2' = Aged(l2)
    /\ fallback' = [p \in Pods |-> Aged(fallback[p])]
    /\ req' = [p \in Pods |-> [s \in Slots |->
                 IF Active(p, s) THEN [req[p][s] EXCEPT !.took = @ + 1] ELSE req[p][s]]]
    /\ replaced' = [v \in Versions |-> IF v < version THEN Older(replaced[v], MaxStale + 1) ELSE 0]
    /\ evicted' = [v \in Versions |-> IF eviction[v] = "done" THEN Older(evicted[v], L1Ttl) ELSE 0]
    /\ UNCHANGED <<version, up, cooling, eviction>>

-----------------------------------------------------------------------------
Next ==
    \/ \E p \in Pods :
         \/ \E s \in Slots : \/ Begin(p, s)
                             \/ ReadL2(p, s)
                             \/ Repopulate(p, s)
                             \/ Select(p, s)
                             \/ StoreL1(p, s)
                             \/ StoreL2(p, s)
                             \/ End(p, s)
                             \/ \E v \in Versions : BeginEviction(p, s, v)
                             \/ DeleteL2(p, s)
         \/ Restart(p)
         \/ CooldownOver(p)
    \/ ChangeRole
    \/ Drop
    \/ Outage
    \/ Tick

Spec == Init /\ [][Next]_vars

-----------------------------------------------------------------------------
Served(p, s) == req[p][s].at = "served"

(***************************************************************************)
(* The backstop: whatever evictions are lost, outages and restarts there   *)
(* are, no request is authorized by a record replaced longer ago than the  *)
(* chain of TTLs and of the two requests that carried it can account for.  *)
(***************************************************************************)
StaleBounded ==
    \A p \in Pods, s \in Slots : Served(p, s) => replaced[req[p][s].version] <= MaxStale

(***************************************************************************)
(* An eviction that no request overlaps, with Redis in reach, leaves the   *)
(* old record only in the L1 of other pods, for what is left of L1Ttl.     *)
(***************************************************************************)
EvictionBounded ==
    \A p \in Pods, s \in Slots : Served(p, s) =>
        \A v \in DoneVersions : req[p][s].version < v => evicted[v] < L1Ttl

(***************************************************************************)
(* "the role change is already live once Redis recovers": a request that   *)
(* begins with Redis in reach, after the eviction for a version was done   *)
(* (during an outage or not), is served that version at least.             *)
(***************************************************************************)
LiveOnceRecovered ==
    \A p \in Pods, s \in Slots :
        Served(p, s) /\ req[p][s].reach =>
            \A v \in req[p][s].evictions : req[p][s].version >= v
=============================================================================
