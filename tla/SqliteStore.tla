----------------------------- MODULE SqliteStore -----------------------------
(***************************************************************************)
(* The fallback store: the worker of packages/redis/src/sqlite-worker.ts,  *)
(* which SQLiteCacheEngine (sqlite-client.ts) sends the commands to.  The  *)
(* worker handles one message at a time, so a command is a step, but for   *)
(* what it removes: the row of an expired key, or of the keys that are too *)
(* many, goes by one statement, and what the key holds by others, outside  *)
(* of a transaction.  The process may die in between; the file stays.      *)
(*                                                                         *)
(* Every key is used with the commands of one type, as all callers do.  A  *)
(* hash is known by one field, a list by its length; what DEL and EXPIRE   *)
(* answer is left out.                                                     *)
(***************************************************************************)
EXTENDS Naturals, FiniteSets

CONSTANTS
    StoreKeys,
    StoreKind,   \* StoreKind[k]: "string", "counter", "set", "hash" or "list"
    Items,       \* the values of strings and the members of sets
    MaxStored,   \* maxL2Entries
    MaxNumber,   \* bound on counters and lengths
    MaxClock,    \* bound on time
    MaxKills,    \* bound on the deaths of the process
    NoKey, NoReply

ASSUME SqliteStoreAssumption ==
    /\ StoreKind \in [StoreKeys -> {"string", "counter", "set", "hash", "list"}]
    /\ IsFiniteSet(StoreKeys) /\ NoKey \notin StoreKeys
    /\ Items \subseteq Nat \ {0}
    /\ MaxStored \in Nat \ {0} /\ MaxNumber \in Nat \ {0} /\ MaxClock \in Nat /\ MaxKills \in Nat

VARIABLES
    clock,     \* Date.now(), in ticks
    keyRow,    \* keyRow[k]: the row of k in cache_store
    held,      \* held[k]: the rows of k in set_store, hash_store or list_store
    doomed,    \* the keys the command under way has yet to remove
    halfway,   \* the one of them whose row in cache_store is gone, or NoKey
    reply,     \* the last command, with the content or number sent back
    kills      \* how often the process died

storeVars == <<clock, keyRow, held, doomed, halfway, reply, kills>>

Scalars == {k \in StoreKeys : StoreKind[k] \in {"string", "counter"}}
Collections == StoreKeys \ Scalars

(* value: {} for a collection; expires: expires_at, 0 for NULL; accessed: last_accessed. *)
Row == [stored : BOOLEAN, value : SUBSET Nat, expires : Nat, accessed : Nat]
NoRow == [stored |-> FALSE, value |-> {}, expires |-> 0, accessed |-> 0]

Present == {k \in StoreKeys : keyRow[k].stored}

(* isExpired() *)
Expired == {k \in Present : keyRow[k].expires # 0 /\ clock > keyRow[k].expires}

Reply == [do : {"read", "set", "count", "add", "trim", "expire", "del"}, key : StoreKeys, told : SUBSET Nat]

(* Types; and there are no more rows than the limit, but for what a death left unpruned. *)
SqliteTypeOK ==
    /\ clock \in 0..MaxClock
    /\ keyRow \in [StoreKeys -> Row]
    /\ \A k \in StoreKeys : ~keyRow[k].stored => keyRow[k] = NoRow
    /\ held \in [StoreKeys -> SUBSET Nat]
    /\ \A k \in Scalars : held[k] = {}
    /\ doomed \subseteq StoreKeys
    /\ halfway \in doomed \cup {NoKey}
    /\ reply \in {NoReply} \cup Reply
    /\ kills \in 0..MaxKills
    /\ Cardinality(Present \ doomed) <= MaxStored + kills

SqliteInit ==
    /\ clock = 0
    /\ keyRow = [k \in StoreKeys |-> NoRow]
    /\ held = [k \in StoreKeys |-> {}]
    /\ doomed = {} /\ halfway = NoKey
    /\ reply = NoReply
    /\ kills = 0

-----------------------------------------------------------------------------
(* The next message is handled when all that the last one removes is removed. *)
Idle == doomed = {}

(* The expires_at of a TTL, 0 for none. *)
Until(ttl) == IF ttl = 0 THEN 0 ELSE clock + ttl

(* updateLastAccessed() *)
Touched(k) == IF k \in Present THEN [keyRow[k] EXCEPT !.accessed = clock] ELSE NoRow

(* INSERT ... ON CONFLICT: a row that is new or has another value; its life stays. *)
Upserted(k, v) == [stored |-> TRUE, value |-> v, accessed |-> clock,
                   expires |-> IF k \in Present THEN keyRow[k].expires ELSE 0]

Answer(do, k, told) == reply' = [do |-> do, key |-> k, told |-> told]

(* pruneIfNecessary(): the rows beyond the limit, the least recently accessed; ties in any order. *)
Excess(rows) ==
    LET there == {k \in StoreKeys : rows[k].stored}
    IN  {old \in SUBSET there :
            /\ IF Cardinality(there) <= MaxStored THEN old = {}
                 ELSE Cardinality(old) = Cardinality(there) - MaxStored
            /\ \A j \in old, k \in there \ old : rows[j].accessed <= rows[k].accessed}

(* A command writes k; then the excess is pruned. *)
Write(k, row, content) ==
    /\ Idle
    /\ keyRow' = [keyRow EXCEPT ![k] = row]
    /\ held' = [held EXCEPT ![k] = content]
    /\ doomed' \in Excess(keyRow')
    /\ UNCHANGED <<clock, halfway, kills>>

-----------------------------------------------------------------------------
(* cleanKey(), where the commands below begin, but SET, SETEX and DEL. *)
CleanKey(k) ==
    /\ Idle /\ k \in Expired
    /\ doomed' = {k}
    /\ UNCHANGED <<clock, keyRow, held, halfway, reply, kills>>

(* DELETE FROM cache_store *)
RemoveRow(k) ==
    /\ k \in doomed /\ halfway = NoKey
    /\ keyRow' = [keyRow EXCEPT ![k] = NoRow]
    /\ halfway' = k
    /\ UNCHANGED <<clock, held, doomed, reply, kills>>

(* Faulty variant: what the key holds is forgotten. *)
RemoveRowOnly ==
    /\ halfway # NoKey
    /\ doomed' = doomed \ {halfway}
    /\ halfway' = NoKey
    /\ UNCHANGED <<clock, keyRow, held, reply, kills>>

(* DELETE FROM set_store, hash_store and list_store *)
RemoveRest ==
    /\ halfway # NoKey
    /\ held' = [held EXCEPT ![halfway] = {}]
    /\ doomed' = doomed \ {halfway}
    /\ halfway' = NoKey
    /\ UNCHANGED <<clock, keyRow, reply, kills>>

(* GET, HGETALL, LRANGE and SSCAN: the other tables are read whether there is a row or not. *)
StoreRead(k) ==
    /\ Idle /\ k \notin Expired
    /\ Answer("read", k, IF k \in Scalars THEN keyRow[k].value ELSE held[k])
    /\ keyRow' = [keyRow EXCEPT ![k] = Touched(k)]
    /\ UNCHANGED <<clock, held, doomed, halfway, kills>>

(* SET and SETEX *)
StoreSet(k, v, ttl) ==
    /\ StoreKind[k] = "string"
    /\ Write(k, [stored |-> TRUE, value |-> {v}, expires |-> Until(ttl), accessed |-> clock], held[k])
    /\ Answer("set", k, {})

(* One more than n, or the first. *)
OneMore(content) == IF content = {} THEN {1} ELSE {n + 1 : n \in content}

StoreIncr(k) ==
    /\ StoreKind[k] = "counter" /\ k \notin Expired
    /\ keyRow[k].value # {MaxNumber}
    /\ Write(k, Upserted(k, OneMore(keyRow[k].value)), held[k])
    /\ Answer("count", k, OneMore(keyRow[k].value))

StoreExpire(k, ttl) ==
    /\ Idle /\ k \notin Expired
    /\ keyRow' = [keyRow EXCEPT ![k] = IF k \in Present THEN [Touched(k) EXCEPT !.expires = Until(ttl)]
                                      ELSE NoRow]
    /\ Answer("expire", k, {})
    /\ UNCHANGED <<clock, held, doomed, halfway, kills>>

(* SADD of one member *)
StoreSadd(k, i) ==
    /\ StoreKind[k] = "set" /\ k \notin Expired
    /\ Write(k, Upserted(k, {}), held[k] \cup {i})
    /\ Answer("add", k, {i} \ held[k])

(* HINCRBY of a field by 1, LPUSH of one value *)
StoreCount(k) ==
    /\ StoreKind[k] \in {"hash", "list"} /\ k \notin Expired
    /\ held[k] # {MaxNumber}
    /\ Write(k, Upserted(k, {}), OneMore(held[k]))
    /\ Answer("count", k, OneMore(held[k]))

(* LTRIM to the first n *)
StoreLtrim(k, n) ==
    /\ StoreKind[k] = "list" /\ k \notin Expired
    /\ Idle
    /\ keyRow' = [keyRow EXCEPT ![k] = Touched(k)]
    /\ held' = [held EXCEPT ![k] = {IF m < n THEN m ELSE n : m \in @}]
    /\ Answer("trim", k, {})
    /\ UNCHANGED <<clock, doomed, halfway, kills>>

(* The rows of ks, and what they hold, go in one transaction. *)
RemoveAll(ks) ==
    /\ Idle
    /\ keyRow' = [k \in StoreKeys |-> IF k \in ks THEN NoRow ELSE keyRow[k]]
    /\ held' = [k \in StoreKeys |-> IF k \in ks THEN {} ELSE held[k]]
    /\ UNCHANGED <<clock, doomed, halfway, kills>>

(* DEL, of an expired key as well *)
StoreDel(k) == RemoveAll({k}) /\ Answer("del", k, {})

(* cleanupInterval *)
StoreCleanup == RemoveAll(Expired) /\ UNCHANGED reply

StoreClear == RemoveAll(StoreKeys) /\ UNCHANGED reply

-----------------------------------------------------------------------------
StoreTick ==
    /\ clock < MaxClock
    /\ clock' = clock + 1
    /\ UNCHANGED <<keyRow, held, doomed, halfway, reply, kills>>

(* The process dies and another opens the file; an SQL error among the statements leaves the same. *)
Killed ==
    /\ kills < MaxKills
    /\ doomed' = {} /\ halfway' = NoKey
    /\ kills' = kills + 1
    /\ UNCHANGED <<clock, keyRow, held, reply>>

KeyCommand(k) ==
    \/ CleanKey(k) \/ StoreRead(k) \/ StoreIncr(k) \/ StoreCount(k) \/ StoreDel(k)
    \/ \E v \in Items, ttl \in 0..1 : StoreSet(k, v, ttl)
    \/ StoreExpire(k, 1)
    \/ \E i \in Items : StoreSadd(k, i)
    \/ StoreLtrim(k, 1)

SqliteNext ==
    \/ \E k \in StoreKeys : KeyCommand(k) \/ RemoveRow(k)
    \/ RemoveRest \/ StoreCleanup \/ StoreClear \/ StoreTick \/ Killed

SqliteSpec == SqliteInit /\ [][SqliteNext]_storeVars

-----------------------------------------------------------------------------
(* What a caller may find: rows that have not expired. *)
Visible == [k \in StoreKeys |-> IF k \notin Present \ Expired THEN {}
                                ELSE IF k \in Scalars THEN keyRow[k].value ELSE held[k]]

(* What nothing is about to remove although it has no row. *)
Orphaned == {k \in StoreKeys \ doomed : k \notin Present /\ held[k] # {}}

Contract == INSTANCE KeyStore
              WITH Keys <- StoreKeys, Kind <- StoreKind, content <- Visible, unknown <- Orphaned

(***************************************************************************)
(* The worker keeps the contract of a store of keys, one by one: whatever  *)
(* expires, is pruned, deleted and written again, a key never holds, nor a *)
(* read tells, what it held before it was lost, but for a key whose        *)
(* removal the death of the process cut in two (sqlite-worker.ts, 64-98).  *)
(***************************************************************************)
KeepsContract == Contract!Spec
=============================================================================
