# Formal models of the Arch-Systems portal

TLA+ specifications of the stateful core of the portal (`apps/portal`, a Next.js
application that runs as several pods over one Redis and one Supabase database) and of
its `packages/`: what the code does, which properties hold of it on small instances
(TLC) and which of them for every instance (TLAPS), and where the code and its own
documentation disagree. Paths below are relative to the repository.

## 1. Inventory

### The system

A *pod* is one Node.js process of the portal. It is single-threaded: code between two
`await`s is atomic, and everything else interleaves. Pods share Redis (`packages/redis`),
the database, and nothing else; they talk through Redis keys and pub/sub channels. When a
pod finds no Redis it falls back to a store of its own, SQLite in a worker thread. The
browser side keeps state of its own in IndexedDB.

| Component | State | Operations | Talks to | What is hard |
|---|---|---|---|---|
| Cache-handler breaker, `lib/next-cache-handler.ts` 107-415 | state, failure count and time of the last failure per pod; pub/sub clients | allowRequest, onSuccess, onFailure, reset, forceOpen, forceHalfOpen | the other pods over a channel; Redis | late results, crossing and lost events, echoes, lazy HALF_OPEN |
| Cache handler, same file 430-762 | manifest of tag timestamps, promises of pending sets (pod); entries, tag timestamps, tag index (Redis) | get, set, refreshTags, updateTags, with retries | Redis, Next.js | stale manifests, commands lost before or after their effect, promises never released |
| Offline queue, `hooks/useOfflineQueue.ts` | IndexedDB store, run of syncAll, pending count, syncing flag | enqueue, syncAll, syncNow, clearQueue, 'online' listener, auto-sync effect | the server, other tabs through the store | reload in mid-run, transactions that fail or never settle, two runs at once, retries |
| Two-level cache, `packages/redis/src/{cache,l1,invalidation}.ts` | L1 map and tag index (pod), L2 keys and tag sets (Redis), fetches in flight, safe-client breaker | cacheGet, cacheSet, cacheDelete, cacheWrap, tag and prefix invalidation | Redis, SQLite fallback, database | a fetch that overtakes an invalidation, TTLs that add up, L1 of other pods |
| Employee authorization record, `proxy.ts`, `api/cache/invalidate`, `UsersTab.tsx` | the record in every level of the cache | resolveEmployee, role change, eviction, sign-out | two-level cache, database | lost evictions, outages, requests under way during one |
| Distributed lock, `cache.ts` 284-414 | lock key with TTL | acquire, wait, release | Redis | expiry while the holder works |
| Redis client, `client.ts`, `native-client.ts` | client, promise of a connection, cooldown | getRedisClient, createPubSubClient | Redis | orphaned clients |
| SQLite fallback store, `sqlite-client.ts`, `sqlite-worker.ts` | a row per key and the rows of sets, hashes and lists, in a file; pending requests | the commands of Redis, pruning, clean-up | a worker thread | removals in several statements, death in between, requests to a dead worker |
| Portal supervisor, `scripts/monorepo-supervisor.mjs` | counts in a file, and the copy last read | run, crash, heal, wake the agent, reset | the application, an agent, the user | a copy saved long after it was read, being killed while it waits |
| Rate limiter, `packages/rate-limiter`, `lib/api/rate-limit-middleware.ts` | counters and buckets in a store | fixed window, token bucket, sliding window | Redis or memory | read-modify-write races, crash between INCR and EXPIRE, paths of different windows over one log |
| Modbus client, `lib/modbus-client.ts` | connections, intervals, error counts | connect, startReading, reconnect, disconnect | field devices | overlapping polls, reconnects that stop |
| Telemetry and alarms, `api/telemetry/push`, `alarm-pubsub.ts`, `event-bus.ts` | two-level deduplication, subscribers | push, publish, subscribe | Redis | deduplication across pods |
| Control-room sessions, migration 079 | hauling sessions, assignments, activities | end_hauling_session, update_material, reassign_excavator | database | concurrent calls under READ COMMITTED |
| Shift sheet, `control-room/actions.ts`, `MachineOpsClient.tsx` | row of a machine's shift, cached meter reading, delay note | load, save, close | database under row-level policies | statements of one call, each its own transaction, over what the sheet showed earlier |
| Sync playback, `lib/jobs/sync-playback.ts` | rows with idempotency keys | replay of a mutation | offline queue, database | duplicate deliveries, updates that repeat or match nothing |
| Client data cache, service worker | IndexedDB and Cache Storage | read, revalidate | server | staleness |
| Jobs, webhooks, AI, guards, pages, scripts, Rust tools | none, or outside the request path | - | - | not concurrent on state of their own |

### What makes each part correct

- **Breaker**: consecutive failures open it, Redis working closes it, all pods end up in
  the same condition, and their events die out.
- **Cache handler**: no request is served an entry revalidated before it began; nobody
  waits for a promise that is never released; every request ends, unless the store it
  asked is gone for good.
- **Offline queue**: a mutation is kept until it is accepted or used up its retries, is
  not accepted twice, is not forgotten, and no failure that is heard of stops a run.
- **Employee record**: a bound on the age of what a request is authorized by, whatever
  fails; evictions take effect where they can.
- **Two-level cache, lock**: an invalidated value does not come back; one computation at
  a time while the lock holds; nobody waits for a computation that is over, and nobody
  loses a lock to another.
- **Redis client**: one connection per pod; callers share attempts that are under way.
- **Rate limiter**: no more than the limit per window, the shortest of those that share a
  log; nobody refused without reason, no counter for ever.
- **Modbus**: one client and one reading loop per device, none left behind.
- **SQLite store**: a key never brings back what it held before it was lost.
- **Supervisor**: crashes and wakes of the agent keep to their limits until a reset.
- **Telemetry**: a value is suppressed only if it is the one shown.
- **Sessions**: every hour is open in one session, every session has one assignment.
- **Shift sheet**: no negative total; the cached meter is the reading closed with last.
- **Playback**: what is inserted is there at most once, has been when its event is done, and
  is not given up for nothing.

`PROJECT.json` lists the components with their sources and the hazards at their lines.

## 2. Plan

Ordered by how much of the portal depends on the part and how hard it is to test.

1. `CircuitBreaker`, `CircuitBreaker_proofs` - done.
2. `TagCache`, `TagCache_proofs` - done.
3. `OfflineQueue`, `OfflineQueue_proofs` - done.
4. `EmployeeCache`, `EmployeeCache_proofs` - done.
5. `CacheWrap`, `CacheWrap_proofs` - done: cacheWrap with coalescing and the distributed
   lock, tag, prefix and key invalidation of both levels.
6. `RateLimiter` - done.
7. `SyncPlayback`, refining `ExactlyOnce` - done.
8. `Modbus`, 9. `RedisClient`, 10. `Telemetry`, 11. `Supervisor`, with `Backend_proofs` - done.
12. `HaulingSessions`, 13. `ShiftSheet`, with `Records_proofs` - done.
14. `SqliteStore`, refining `KeyStore`; `Routes_proofs` about it, `SyncPlayback`
    and `RateLimiter` - done.

Next: `OfflineQueue` composed with `SyncPlayback` as the sender of its events, once the
application mounts the queue over that route; two supervisors of one state file; the lazy
writes of the SQLite client, once some code asks for `durability: 'lazy'`.

Every safety property and refinement that the passing runs check is stated by a theorem;
what is left to prove are the invariants of these, once written.

## 3. The modules

Each module names its constants and bounds where it declares them; `MC*` modules add
symmetry and constants for TLC and nothing else. Definitions marked "faulty variant" are
not part of any specification: they are plausible slips, kept to show that a property
would catch them.

### CircuitBreaker

`breaker[p]` is the singleton of pod `p`: its fields `state`, `failureCount` (saturating
at the threshold, the only value it is compared with) and `lastFailureTime`, modelled by
the ticks of the cooldown that are left. The class methods are operators from breaker to
breaker; `Become` adds the publication the methods make when the state changes.
`call[p][c]` is a `get`, `set` or `updateTags` between `allowRequest()` and the report of
its outcome; since those are separate steps, late results of calls admitted in an earlier
phase occur. `link[p]` follows `ensureBreakerPubSub()`: publisher set before the
subscription is confirmed, both given up for good without Redis, a subscriber that loses
its connection "deaf" since its `retryStrategy` returns null. An event goes through the
`outbox` of its pod (Redis keeps the order of one connection) to the `inbox` of the others.
`FailRender` is the path of `set()` whose catch block reports a failure although what
failed is the entry it awaited. `redis` may be up, answer with errors, or be out of reach,
in which case calls go to the fallback store.

Left out: audit list and metrics (nothing reads them back), the rate limit on audit rows.

### TagCache

Several pods serve page requests (`refreshTags`, `get`, on a miss a render whose result
goes to `set`) and revalidations (`updateTags`). A Redis command is three steps: sent,
executed, its reply handled; `sent[p]` and `replies[p]` are the two directions of the
pod's one connection. A command may fail before or after it took effect. `manifest[p]` is
`localTagTimestamps`, `pending[p][k]` is `pendingSets`; the promise itself is the slot of
its `set()`. The breaker is not repeated here: `Refusing` lets it refuse at the places
where the code asks it, and lets a client be missing or a render fail. `Outages` lets
`getRedisClient()` hand out the pod's SQLite fallback instead of Redis, for any call:
`local[p]` is what that store holds, which survives a restart, and `refreshTags()` returns
at once, as the fallback has neither SMEMBERS nor MGET. Its worker replies with the error
of a statement (`sqlite-worker.ts:418-427`), which `Execute` treats like an error of Redis.
It may also die (`WorkerDies`): the client logs that and leaves what is in
`pendingRequests` unsettled (`sqlite-client.ts:84-86`), so the commands sent to it, before
or after, get no answer any more (`Drop`) until the pod restarts. `Hung` names who waits
for one, and who waits for the `set()` of such a one. `revalidated` and the floors of a
request are history.

`Serial` keeps revalidations of one tag from overlapping. It is an assumption, not
something the code ensures: see section 6.

### OfflineQueue

`store` is the IndexedDB store, shared by tabs; `run[t][l]` a run of `syncAll()`, of the
hook of a tab (at most one, `syncingRef`) or of its 'online' listener (any number, the
model bounds them by `Listeners`). A run holds snapshots of the records it read, the one
it is at and those to come, and takes the oldest by `createdAt` next; every transaction
and every request is a step, and replies may be lost. A transaction may fail, which its
`onerror` turns into a rejection; and one that writes may be aborted when it commits, for
want of space, which is no error of a request, so that neither `oncomplete` nor `onerror`
is called and the promise never settles (`useOfflineQueue.ts:97-155`; of a reading one the
request itself is told). A run that waits for such a promise is `stuck` (`Hang`); a hook's
run blocks the hook's others with it until the tab is reloaded, a listener's blocks
nobody. In `enqueue()` the caller waits for nothing (`Add`, "dead"), in `clearQueue()` the
deletion under way is the last (`ClearOne`). `effect[t]` is set when a dependency of the
auto-sync effect changes, `recount[t]` when `refreshCount()` is due. Ties of `createdAt`
are ignored. The application itself mounts the listener (`ClientProviders.tsx:48`); the
hook is library code, exercised by its tests.

### EmployeeCache

The record of one user (keys do not interact, except by LRU eviction, which `Drop` allows
at any time) in L1 of each pod, Redis, the fallback store of each pod, and the `employees`
row known by its version. `Begin` to `End` is `resolveEmployee()` with one step per await;
`GetClient` decides between Redis and the fallback as `getRedisClient()` does, with its
cooldown. `ChangeRole` is the admin's update, which makes an eviction due;
`BeginEviction`/`DeleteL2` is `cacheDelete()`, for a role change or a sign-out, and never
comes when the browser or pod goes away. TTLs are scaled and keep their order
(15 s < 60 s < 300 s). A request takes at most `MaxFlight` ticks: without such a bound no
bound on staleness holds, since a request may carry a record for ever.

### CacheWrap

One key of the two-level cache, with `Calls` of `cacheWrap()` from any pod. `call[c].at`
names the `await` a call is at: the first lookup, SET NX, the polls of
`waitForLockRelease()`, the lookup after them, the one under the lock, the promise of
another call, `fn()`, the two halves of `cacheSet()`, the SADD of
`indexCacheKeyByTags()`, the release script. `fetch[p]` is `activeFetches`, `lock` the
key with its life, `inv[p]` an invalidation between the clearing of its own L1 and the
last command. A setting says whether ENABLE_DISTRIBUTED_LOCK is on, whether commands and
computations fail and pods crash, and whether the data changes and is invalidated.
`calm`, `removed`, `tainted` and `overlap` are history, and name the ways in which the
code gives up what the properties promise: an expired lock, an impatient waiter, a
failure; a computation or a SADD that overlaps an invalidation. Only one key, since
keys meet only in an invalidation of several, which handles each by itself.

### RateLimiter

Up to `MaxRequests` checks of one client, of the three strategies. The limit and the
window are those of a check's path, chosen from `Configs` (`rate-limit-config.ts`, a
route's `customLimit`, or half of either under high load) when it begins: all paths behind
the sliding log share the key `ratelimit:<client>`, so each check filters and writes back
one log by its own window (`InWindow(x, r)`) and gives it a life of twice that. All paths
behind the bucket (`/api/ai/`) have one limit and window, but for the halving, as have the
callers of the package; the bucket and the log have keys of their own.

`Get`/`Set` are the two awaits of the middleware's sliding log and token bucket,
`Incr`/`Expire` those of the package's fixed window. Tokens are counted in units of
`1/Window`, so that the refill is exact. `chosen[p]` is the module variable
`globalRedisStore`, kept from the first check of the pod on. A command to a Redis out of
reach fails, with or without effect; the middleware then throws, the package lets the
request pass (`waved`). `lost`, `late` and `rewound` are history and name what the
read-compute-write of the code loses: an admission another check did not know when it
wrote; a check that reads a window or more after it began, the shortest of those that
share the log, or after a check of a later time was through with the log and may have
dropped what the earlier still counts (`Overtaken`; looking at the last writer alone is
not enough, which takes five checks to show and came out of the proof); the ticks a bucket
refills twice.

### SyncPlayback and ExactlyOnce

`event[m][e]` is an event of the job `sync-playback` from the moment the route queued it.
`Look` and `Insert` are the two statements of an insertion; `Refused` is what
the tables' unique constraints refuse: `idempotency_key` for breakdowns and incidents,
department, date and shift for logs, whose key has an index and no constraint. A statement
may fail before or after it took effect; an error of the look is ignored by the code.
Refusals by row-level security or by a CHECK are no reasons of their own: they are failing
statements (`InsertFails`, `hit`), and a row the policies hide from the look is a look that
fails. `Resolve` is the UPDATE of a breakdown by its id: it writes the time of the
resolution again in every attempt (`updates` counts them), and where it matches no row -
gone, or hidden by 043:148-152 - it changes nothing and the event is done all the same.
`Remove` is an administrator deleting a row, after which a late event brings it again.

`ExactlyOnce` is the promise of the route's description, three stages per mutation, with
mutations that exclude each other, and effects that may be withdrawn from outside; `View`
maps the rows and events of the insertions to it. Resolutions are left out of it on
purpose: for them the code does not keep it (`ResolvedOnce`, section 6).

### HaulingSessions

The rows of one dumper's shift. Statements of the functions are steps: the SELECT without
a lock, the UPDATE that takes the row, the commit that makes all writes visible. `OldKeys`
says whether the constraint 079 means to drop is there. It is (section 6), and then no
second session exists; the properties are checked of the schema 079 describes, with
`OldKeys = FALSE`. `OnTime` says that a session is ended with the hour it is, the default
of the form. An assignment has an id, as `control_room_reassign_excavator` keeps the id it
found and acts on that row as it is when it writes; a call that finds the unique key of the
assignments taken is rolled back (`Distinct`). `raced` is history: the sessions of which two
reassignments overlapped, both of which may find nothing and insert; `MaxRaced` bounds them.

### ShiftSheet

One machine, `MaxShift` shifts, and clerks whose `sheet` shows what was loaded. `Save` and
`Close` are the two server actions up to their first write; the upsert, the mirrored note
and `current_smr` follow as steps of their own, each of which may fail. Non-admins are
refused by the policies of 043 - an upsert with an error, an update by matching no row.
`WholeKey` says that the conflict target of the upsert is an index PostgreSQL can infer;
with the partial index of 077 it is not, and every save fails, so the properties are
checked with `WholeKey = TRUE`. `rebased` and `lastClose = Lost` are history.

### Modbus

`client[k]` joins a modbus-serial client with its connection record. `entry` and
`registered` are the two maps at one equipment, `running` the intervals not cleared,
`timers` the pending reconnects. A call is at the close of the old client or the dialling
of the new. Ids of clients nobody refers to are used again, so behaviours are not bounded
in length.

### RedisClient

Every ioredis object of a pod, adopted or abandoned, with its status; an object goes on
reconnecting after `getRedisClient()` gave it up, and its events act on the module
variables whoever they belong to: `Ended` clears `connecting`, `Reconnected` takes over
the health check, as the handlers do.

### Telemetry

One tag: what FUXA shows, `localLastValues` of each pod, `telemetry:last:<tag>` in Redis,
and requests between their awaits, with lost answers, failing Redis, expiry and restarts.

### SqliteStore and KeyStore

`keyRow[k]` is the row of `k` in `cache_store`, `held[k]` its rows in `set_store`,
`hash_store` or `list_store`. The worker handles a message at a time, so a command is a
step and several commands do not interleave; but `cleanKey()` and `pruneIfNecessary()`
remove a key by statements outside of a transaction (`RemoveRow`, `RemoveRest`), and the
process may die between them (`Killed`), after which another opens the same file. `DEL`
and the clean-up interval use a transaction and are one step. A collection is read whether
it has a row or not, which is how members orphaned by such a death are seen again.

`KeyStore` is what a caller may rely on, without rows, expiry times or statements: a key
holds what was put there since it was last lost; it may be lost at any time; and when the
process dies with a key lost, that key may hold anything until a command makes it known.
The refinement maps the content to the rows that have not expired (`Visible`) and the
unknown keys to those with members but no row, which nothing is about to remove
(`Orphaned`).

### Supervisor

`stateFile` is the file with the counts, `supervisor[s]` what a supervisor waits for and
the copy of the counts it holds. A step ends where the process waits: the application, a
healing command, the agent, the 1.5 s before a restart. There it may be killed and started
again, and `ResetByHand` may run. `crashes` and `wakes` are history. One supervisor is
checked: two on one file overwrite each other's counts, and the code has nothing against
that. A write of the file that is itself cut off, after which the counts start from zero
(`loadState()`, 181-183), is left out.

### The compositions

`MCServer` and `MCApiRoutes` put modules that share no state side by side: `part` says
which of them steps in a behaviour, so a run's states are the sum of theirs and not the
product. Of the playback either the breakdown and its resolution step or the two logs:
they share no row.

## 4. What is checked

| Run | Instance | Shows |
|---|---|---|
| BreakerAgreement | 3 pods, threshold 1, Redis errors, failing renders, reliable channel | `Agreement` |
| BreakerRecovery | 2 pods from a fresh start, threshold 2, errors, outages, lost events | `TypeOK`, `ClosedBelowThreshold`, `RecoveryCloses` |
| TagCacheFaults | 2 pods x 2 slots, 2 requests at once, 2 instants, lost commands and replies, restarts | `TypeOK`, `RevalidationRespected` |
| TagCacheEnds | 1 pod, 2 slots, 1 retry, all of these, refusals, the fallback store and the death of its worker | `NoOrphanPromise`, `RequestsEnd` |
| QueueKept | hook and listener run, 1 mutation, 1 retry, lost requests, failing and aborted transactions, reloads | `TypeOK`, `NotDroppedEarly`, `RunsEnd` |
| QueueOnce | hook runs, 2 mutations, 2 retries, reloads, clearing | `AcceptedOnce` |
| EmployeeDown | 1 pod, outages, L1 3, L2 4 +/- 1, overlapping evictions | `TypeOK`, `StaleBounded` |
| EmployeeEvict | 2 pods, 2 role changes, no overlap with evictions | `EvictionBounded` |
| CacheWrap | 2 pods, 2 calls; the lock (life 2, patience 1) with faults, and no lock with faults and 2 versions of the data | `CacheWrapTypeOK`, `SingleFlight`, `Coalesced`, `RemovedForGood`, `LockKept` |
| ApiRoutes, playback | a breakdown and its resolution, or two logs of a shift; 2 posts, 2 attempts, 2 failing statements, 1 row deleted | `PlaybackTypeOK`, `AppliedOnce`, `GivenUpForReason`, `DoneMeansApplied` |
| ApiRoutes, limiter | 1 pod with Redis and its fallback, 3 requests; log: paths with 2 per tick and 1 per 2 ticks; bucket and fixed window: 2, halved 1, per 2 ticks | `RoutesTypeOK`, `SlidingBound`, `BucketBound`, `FixedBound`, `RefusedForReason` |
| ApiRoutes, store | a string, a counter, a set and a list; room for 1 key, 2 items, numbers to 2, 2 ticks, 1 death | `RoutesTypeOK`, `KeepsContract` |
| Server, sessions | 2 clerks, 2 excavators, 2 hours, 3 sessions, 1 of them with overlapping reassignments | `HoursPartitioned`, `AssignedOnce` |
| Server, sheet | an admin and another clerk, 2 shifts of a date, 3 loads, failing statements | `TotalNotNegative`, `MeterIsLastClose` |
| Server, Modbus | 2 calls, 2 clients, 2 timers, 1 error before a reconnect | `NothingLeaks` |
| Server, client | 4 ioredis objects | `Singleton`, `AttemptUnderWay` |
| Server, telemetry | 2 pods, 2 requests, 2 values | `SuppressedIsShown` |
| Server, supervisor | 1 supervisor, 5 starts, 3 restarts, 1 wake of the agent | `RecoveryBounded` |
| HaulingStuck (violation) | 1 clerk, the old constraint in place | `SessionEnds` fails |

**Why the bounds are enough.** *Breaker*: three pods are the least in which an event meets
a third party that disagrees with both ends; a threshold of 2 distinguishes counting from
opening; `MaxMessages` only keeps new call results from being handled while that many
events are in transit, with 2 two transitions cross, and the theorem `PodsAgree` has no
such need for small numbers. *TagCache*: two pods and two requests at once are a writer
and a reader, two instants a before and an at-the-same-time; one key with one tag is the
finest grain at which staleness is decided, tags do not interact except in the loop of
`updateTags`. Refusals and the fallback store are left to TagCacheEnds, since with them
two pods of two slots have too many states for a run; `RevalidationRespected` is not
checked with them there (under `Serial` it also holds with `Outages` for two pods of one
slot, and for one pod of two: change the constants of TagCacheFaults to see it).
*OfflineQueue*: one mutation and two concurrent runs give every interleaving over a
record; two mutations the loop's order. One retry makes the second replay the last.
*EmployeeCache*: with L1 3, L2 4 and one tick of flight, the longest chain (request, L2,
request, L1) fits below the saturation of the ages and every link of it can expire first.
*CacheWrap*: two calls are a holder and a waiter, or a leader and one that joins; a life
of 2 and a patience of 1 keep the order of 5 s and 4 s and let either come first. Two
versions tell the value removed from the one it is recomputed to. Locks with invalidations
are not checked together, as the lock knows nothing of what is removed; the theorems cover
them. *RateLimiter*: three requests are one more than the limit, and two ticks let the
oldest leave the window; two paths, one with the lower limit and the longer window as
those of authentication have it, are enough for one to drop what the other counts.
*SyncPlayback*: two events of a mutation race between look and insertion, each with a
retry; two failing statements use up the attempts of an event, and one deleted row lets a
late event bring it again. More of each are the theorems'. *Sessions*: two clerks race on
a row; three sessions let one end twice with another after it, and overlapping
reassignments of one leave the others to be checked. *ShiftSheet*: one reading above the
first makes a reading go back. *Modbus*: two calls overlap, or a timer and a call.
*RedisClient*: four objects are the adopted one, the attempt, and two orphans that end and
reconnect at any time. *Telemetry*: two of each make the pods and the requests disagree.
*SqliteStore*: with room for one key every second write prunes, and two ticks let a life
of one tick end; a key of each kind but the hash, which is counted like a list, and one
death, which orphans one key. *Supervisor*: five starts are two more than the crashes
allowed, so that it is started and refused, and killed in between.

**Fairness.** Weak fairness of what the runtime does by itself: promises settle, replies
and messages are handled, timers fire, `useEffect` callbacks run. Two kinds of promises do
not settle, and fairness asks nothing of them: those of aborted transactions (a stuck run
has no step left) and those of requests to a dead SQLite worker (`Drop` is fair, an answer
is not given). Redis does answer in the end, if only with an error: ioredis fails what is
outstanding when its connection goes, which its keep-alive notices (`client.ts:86`). So
`RunsEnd` and `RequestsEnd` say that a run or a request ends *or hangs in one of these two
ways*, and nothing else - an error, a retry, a concurrent `set()` - keeps it from its end.
Pods keep being asked for pages (`AllowRequest`), which is what moves an open breaker to
half-open. Redis, the network, the user, reloads and crashes owe nothing; properties that
need them to behave say so (`<>[](redis = "up")`). `BreakerRecovery` assumes that renders
succeed, since failing ones may keep a breaker open for ever.

`CacheWrap`, `RateLimiter`, `SqliteStore` and the modules of Server and ApiRoutes state
safety alone, and no fairness.

**Deadlock** is checked in every run. `SyncPlayback` and `ShiftSheet` have a stuttering
step for the state in which the bounds leave nothing to do.

## 5. What is proved

`CircuitBreaker_proofs`, for any sets of pods and calls, any threshold and cooldown:

- `TypeCorrect`: `Spec => []TypeOK`.
- `BelowThreshold`: `Spec => []ClosedBelowThreshold`. Inductive with the types: a method
  that leaves the breaker closed either resets the count or has just compared it.
- `PodsAgree`: `ReliableChannel => (Spec => []Agreement)`. Agreement is far from
  inductive, as it speaks of quiet states only. `AgreementInv` says why disagreement
  cannot outlive the events: if `p` is not closed and `q` is, a CLOSED event is coming to
  `p` or an OPEN event to `q` (`DisagreementHeals`); an OPEN event `p` has yet to handle
  is followed by a CLOSED one, or else every closed pod has an OPEN coming too
  (`OpenEventsHeal`); what a closed pod has still to send of its openings ends in CLOSED
  (`OwnOpenFollowed`). Lemmas say how appending to and taking from the queues preserve
  these, and one step per action puts them together.

The assumptions are those of `BreakerAssumption` (threshold and cooldown positive).
`ReliableChannel` - all pods subscribed, no event lost - is what the property needs; the
code does not keep it after an outage (section 6).

`TagCache_proofs`, for any pods, slots, keys, tags, retries and any combination of faults
(`TagCacheAssumption`):

- `TypeCorrect`: `Spec => []TypeOK`. It needs `QueueInv`, which the other proofs rest on
  too: whoever is in one of the two queues of its pod is in one alone, once, and waits for
  a command. One lemma per action says what the step makes of the request it moves;
  `Drop` only takes from a queue (`DropKept`).
- `PromisesReleased`: `Spec => []NoOrphanPromise`, inductive with the types.
- `RevalidationsRespected`: `Serial => (Spec => []RevalidationRespected)`. `StampInv` is
  about the revalidations: those under way share no tag (`Alone`), so a timestamp in Redis
  only grows (`TimesPast`), and what has succeeded is in Redis and in the index
  (`TagsDone`). `SyncInv` is about the requests: the replies to `refreshTags()` hold all
  that had succeeded when the request began (`Told`); a reply that holds less than another
  request must know is handled before the last reply to that one (`Ordered`), as commands
  and replies keep their order, so the manifest never falls behind a request that has
  synchronized (`Known`). Without `Serial` the older of two timestamps may be written last,
  and the property fails.

`OfflineQueue_proofs`, for any sets of tabs and listener runs, any finite set of
mutations, any `MaxRetries` and any combination of faults:

- `TypeCorrect`: `Spec => []TypeOK`.
- `KeptUntilUsedUp`: `Spec => []NotDroppedEarly`. Not inductive, as a run acts on the
  retry count it read, which may be older than the record. `KeptInv` adds `Covered`: no
  count, in a record or in a snapshot, is ahead of the replays made, it is behind them
  once the request of this round was made, and a run about to delete a record knows of an
  acceptance. So whoever finds the retries used up is right, however old its snapshot.
  `RunsStayCovered` is proved action by action; `StepOnRecords` says what a step may make
  of a record (written covered, or deleted with an excuse), and the rest follows from
  these two and from `HistoryGrows`.
- `AcceptedAtMostOnce`: `OneRunAtATime => (Spec => []AcceptedOnce)`. `OnceInv` says that an
  accepted mutation is not pending, that the snapshots of a run are of different
  mutations, none of them accepted nor still in the hands of `enqueue()`, and that what
  is being fetched is not marked pending. `OneRunAtATime` is needed: the listener has no
  `syncingRef`, a lost reply or a failed deletion is replayed.

`EmployeeCache_proofs`, for any sets of pods and requests, any number of role changes and
any TTLs that keep their order (`EmployeeCacheAssumption`):

- `TypeCorrect`: `Spec => []TypeOK`.
- `StalenessIsBounded`: `Spec => []StaleBounded`. `StaleInv` follows the record along the
  chain: selected, it is no older than its request; in a cache, its age and the life left
  to the entry add up to a bound that a tick does not change, `OldestFound + 1` in L2 and
  the fallback, `MaxStale + 1` in L1; found in L2, it is at most `OldestFound` old plus
  the flight of the request that found it, and starts a life of `RepopTtl`.
- `EvictionIsBounded`: `Serial /\ ~Outages => (Spec => []EvictionBounded)`. `EvictInv` adds
  that everybody uses Redis (`OnRedis`), that a request that evicts is alone
  (`EvictsAlone`), and that once the eviction for a version is done L2 and whoever goes to
  it hold that version at least, while the life left to an older entry of L1 and the ticks
  since add up to `L1Ttl` at most. Both hypotheses are needed: a request under way stores
  the old record again, in either cache, and during an outage the eviction reaches only
  the fallback store (section 6 and the hazards).

`CacheWrap_proofs`, for any sets of calls and pods, any versions, settings with their
faults, and a patience below the life of the lock (`CacheWrapAssumption`):

- `WrapTypeCorrect`: `WrapSpec => []CacheWrapTypeOK`.
- `LockIsKept`: `WrapSpec => LockKept`, an action property that follows from the types.
- `JoinsUnderWay`: `WrapSpec => []Coalesced`. `CoalescedInv` says that a promise in
  `activeFetches` is that of a call of the pod that computes or stores and has no lock -
  with the lock it would settle only after the release - and that who joins has one.
- `RemovedStays`: `WrapSpec => []RemovedForGood`. An entry nothing taints is listed by the
  tag's set as soon as it is indexed, and no invalidation has got past the scan while it
  is there (`EntryKept`); a computation that overlaps no invalidation has read what none
  has removed since (`InTime`). So an invalidation finds what it must remove.
- `OneFlight`: `WrapSpec => []SingleFlight`. While it is `calm`, whoever holds the lock
  knows it, computations are under it with no entry stored, and a waiter that sees the
  lock released finds the entry (`Flight`). One lemma (`OneCallMoves`) says when the step of
  a call leaves the others in order; the actions are instances of it.

`Routes_proofs`, for any mutations, targets, posts, attempts and failing statements
(`SyncPlaybackAssumption`):

- `PlaybackTypeCorrect` and `DoneIsApplied` (`[]DoneMeansApplied`): an insertion is done
  with its row found or written, and from then on `Brought`, deleted since or not. Neither
  it nor the next says anything of resolutions, which repeat and may do nothing.
- `ImplementsPromise`: `PlaybackSpec => AppliedOnce`, the refinement of `ExactlyOnce`. What
  makes it work is `OneRow`: an insertion has at most one row and one log of a shift has
  any, which the unique keys see to. With it the abstract stage of a mutation is what the
  posts and rows say (`StagesKnown`), and every step maps: the insertion to `Apply`, the
  deletion by hand to `Withdraw`, whatever only moves an event to a stutter.
- `NothingGivenUp`: `MaxAttempts > 1 => (PlaybackSpec => []GivenUpForReason)`, since the
  refusals and overtakings that fail an attempt last until the next (`RefusedBefore`), or
  the row in the way was deleted meanwhile.

and for any finite set of keys of any kinds, any items, limits, times and deaths
(`SqliteStoreAssumption`):

- `StoreKeepsContract`: `SqliteSpec => KeepsContract`, the refinement of `KeyStore`.
  `StoreInv` says that a key without a row has no value, no scalar has rows in the other
  tables, a list is known by one length, and of the keys a command removes only the one
  under way has lost its row. `Performed` says once for all commands that a write to one key
  is the command of the contract, if it is right where the key was not orphaned; `Lost` that
  every removal is a loss. Then one lemma per command.
- `StoreTypeCorrect`: `SqliteSpec => []SqliteTypeOK`. That the rows stay below the limit,
  one more and the deaths of the worker needs `RowsBound`, which counts the rows without
  those about to be pruned.

and for any pods, requests, limits, windows and times, and any paths with limits and windows
of their own (`RateLimiterAssumption`):

- `LimiterTypeCorrect`, `SlidingIsBounded`, `BucketIsBounded`, `FixedIsBounded` and
  `RefusedWithReason`: `LimiterSpec` implies `[]SlidingBound` and so on, by one inductive
  invariant, `LimiterInv`, with a part for each strategy. *Fixed*: until a window is over
  its counter has not expired and is at least the number of those that reached it in time,
  so those let in are at most the limit (`WindowsInv`). *Sliding*: any path's check may
  drop what its own window has left behind, so the log lacks only an admission that has
  `PassedBy` one of the windows in use - a check that far later is through, or the key was
  that long without a write; what is still `Near`, within all of them, a check that is
  deciding has in its copy (`LogInv`). So among the admissions of a span no path has lost
  sight of, those with a limit of at most `l` are at most `l` (`SpanInv`): the last of
  them to be admitted saw the others. *Bucket*: `Backed`, that for every time `t` the
  tokens left and the admissions since `t` are no more than the capacity and the refill
  since `t`; it holds of what the store has, or, where that has expired, of the full
  bucket from the time it would have been full (`BucketInv`), and a copy that is being
  decided on is backed by what it knew. A bucket with less than a token has been drawn on
  in its last window (`DrawnInv`), hence the reason for a refusal.

Of the three side by side, `PartsBehave`: `RoutesSpec` implies the specification of each, so
that all of this holds of the composition; with it `RoutesTypeCorrect`, `[]RoutesTypeOK`.

`Backend_proofs`, for any numbers of objects, pods, requests, values, clients, polls,
timers, failures and limits:

- `ClientTypeCorrect`, `AttemptsUnderWay` (the object of `connecting` is connecting) and
  `OneConnection` (`ClientSpec => []Singleton`). Until the first failure or close, a live
  object is either the attempt under way or the adopted one, and there is no attempt once
  one is adopted (`OneHolder`).
- `ModbusTypeCorrect`, and `LeaksNothing` (`ModbusSpec => []NothingLeaks`). As long as calls
  did not overlap there is at most one under way, the only open client is the one in
  `connections`, and the only running interval the registered one of that client
  (`OneAtATime`).
- `SuppressedAreShown`: `TelemetrySpec => []SuppressedIsShown`. The property speaks of what
  is remembered when no answer is outstanding. Inductive is `Certain`: until something is
  uncertain, at most one request has been accepted by FUXA and not yet stored, nobody has
  looked meanwhile (`OneUnsettled`), its value is the one shown, the other pods remember
  nothing until its pod does (`OthersForget`), and apart from it both levels, and whoever
  looked, hold what is shown.
- `RecoveryIsBounded`: `OneSupervisor => (SupervisorSpec => []RecoveryBounded)`. What was
  counted since the reset is covered by the file and by the copy a supervisor holds and may
  write back, so a kill forgets nothing; the application runs only below the limit
  (`RecoveryInv`). Two supervisors of one file overwrite each other's counts, hence
  `OneSupervisor`.
- `TelemetryTypeCorrect`, and `SupervisorTypeCorrect` for any number of supervisors.
- `MechanismsBehave`: `ServerSpec` implies the specifications of these four and of the two
  of `Records_proofs`, which the module extends; and `ServerTypeCorrect`, `[]ServerTypeOK`.

`Records_proofs`, for any finite set of clerks, any excavators, materials, writers, hours,
sessions, shifts and readings (`HaulingAssumption`, `SheetAssumption`, and `RowAssumption`,
that the absent row is no row):

- `HaulingTypeCorrect`, with `HaulingInv`: calls carry what their writes need, and finitely
  many assignments leave an id for the next.
- `AssignedAtMostOnce`: `HaulingSpec => []AssignedOnce`. An assignment and a call belong
  to a session that exists (`Belongs`), so a new session has neither; and where
  reassignments never overlapped one call at a time reassigns (`OneReassigns`), so what it
  found or did not find is still right when it writes (`NothingMissed`).
- `HoursArePartitioned`: `HaulingSpec => []HoursPartitioned`. Beyond the property itself
  (`OpenOnce`), the hours to come are open in the last session (`LastIsOpen`), also for a
  call that has read it and may be late (`EndIsOpen`); ending another session than the last
  is refused by the unique key.
- `SheetTypeCorrect`, `TotalsNotNegative` (`SheetSpec => []TotalNotNegative`) and
  `MeterFollowsCloses` (`SheetSpec => []MeterIsLastClose`). A save carries readings compared
  with its own start, a close ones compared with that of the row, which only a save with
  another start changes (`SavingAccepted`, `ClosingAccepted`, `RowsAccepted`); and at most
  one call has a reading that is written and not yet cached, the last one (`OnePending`).

Only model-checked: liveness (`RecoveryCloses`, `RequestsEnd`, `RunsEnd`). Liveness under
fairness and ENABLED are out of the prover's reach, as is induction over data. No module
uses a RECURSIVE operator.

## 6. Where code and documentation disagree

- **A dumper has no second session** (run HaulingStuck; quoted in `PROJECT.json`). 079:13
  drops the constraint without `session_index` by the name it has in migration 003. But
  020:14-24 renamed that table to `hourly_loads_legacy`, which kept its constraint, so the
  constraint of the new table got a generated name and stays; the INSERT at 079:70 is
  refused and the whole function rolled back.

Six more are stated as properties of the modules and fail there. To see one, run its
module with the constants given and the property:

- **Coordination ends with the first lost connection**: `CoordinationResumes` of
  `CircuitBreaker`, under `FairSpec` with the constants of BreakerRecovery,
  `InitialLink = "joined"` and `Faults = {"down"}`. The subscriber's
  `retryStrategy` returns null (`client.ts:284`) and `breakerSubscriptionInitiated` is
  never reset, against `next-cache-handler.ts:141-142`.
- **refreshTags() undoes a local revalidation** that Redis did not get:
  `ManifestForward` of `TagCache`, under `Spec` with the constants of TagCacheEnds and
  `MaxTime = 2`. `updateTags()` sets the manifest before it writes to Redis, and the next
  `refreshTags()` sets it to what Redis has (709); against `next-cache-handler.ts:727-729`.
- **Entries left 'syncing' are never retried**: `StaleRetried` of `OfflineQueue`, under
  `FairSpec` with one mutation and `Reloading` alone; against `useOfflineQueue.ts:268`.
- **An eviction during an outage is not live once Redis recovers**: `LiveOnceRecovered` of
  `EmployeeCache`, with the constants of EmployeeDown and `Serial = TRUE`; against
  `docs/runbooks/evict-employee-auth-cache.md:112-114`.
- **A path's own rate limit does not hold in its own window**: `OwnWindowBound` of
  `RateLimiter`, under `LimiterSpec` with four requests, `MaxTime = 1`, the sliding log
  alone and paths of 2 requests per tick and 2 per 2 ticks. A check of a path with a
  window of a minute drops from the shared log what is older (158) and writes it back
  (184), and with it what a path with a window of 15 minutes still counts. Authentication
  (`rate-limit-config.ts:17-21`, "restrictive to prevent brute force"; the login's "5
  attempts per 15 minutes", `auth/login/route.ts:176`) so admits more than its limit as
  soon as other requests of the client come in between, and no race is needed. What does
  hold is `SlidingBound`, within the shortest window in use. The other way round, requests
  on lenient paths count against a strict one (`RefusedForReason` says "on whatever
  paths").
- **A resolution is not processed once**: `ResolvedOnce` of `SyncPlayback`, under
  `PlaybackSpec` with the constants of ApiRoutes. Every duplicate event and every retry of
  RESOLVE_BREAKDOWN sets `date_out` and `time_out` to its own time
  (`sync-playback.ts:42-53`); against the route's "Uses idempotency keys to prevent
  duplicate processing".

Seen while modelling, and stated as assumptions or hazards instead of runs: overlapping
revalidations of a tag may leave the older timestamp in Redis (`Serial`); a `set()` that
ends first removes the promise of a later one; a dead worker of the SQLite fallback leaves
`get()`, `set()` and `updateTags()` waiting until the pod restarts
(`sqlite-client.ts:84-86`); an IndexedDB transaction aborted at commit leaves `syncAll()`
waiting, and the hook without another run until the tab is reloaded; a probe answered by
the fallback store closes the breaker; failing renders open it (`FailRender`); a mutation
that is out of retries is deleted at the end of the same run; a run under way writes back
what `clearQueue()` deleted; jitter and L1 repopulation let a record outlive the 300 s the
documentation gives (`StaleBounded` states the bound that does hold); the L1 of other pods
outlasts an eviction by up to 60 s, not 30 s (`EvictionBounded`). The upsert of the shift
sheet names columns of which 077:58-60 has only a partial unique index, which PostgreSQL
does not infer, so it is refused (`WholeKey`); the update of a non-admin matches no row
and reports no error (043:71-77), and `current_smr` changes all the same; saving a sheet
again reopens a note that was resolved, and a stale sheet may erase a close. A second log
of a shift is queued, refused in every attempt and lost, although its client was told it
was accepted. A resolution whose breakdown is gone, or hidden from who resolves it
(043:148-152), is reported done without effect; a row deleted by an administrator comes
back with a late duplicate of its event. A value that alternates between pods is
suppressed by what each pod remembers. A Modbus reconnect does not resume reading, and
after a failed one nothing tries again. The middleware fails requests when Redis fails in
mid-check, the package's limiter lets them pass. A SIGINT or SIGTERM that reaches the
supervisor while it heals finds the child gone and is forgotten, and the application is
started again (`monorepo-supervisor.mjs:532-538`); a supervisor reset while it heals saves
the counts it read before (583). Members of a set whose removal from the SQLite file was
cut in two come back with the next write of the key (`sqlite-worker.ts:67-70`).
`adjustHourlyLoad` writes `total_loads`, which 020:41 generates always, so it always
fails.

## 7. What is not modelled

Of the modelled files: `getExpiration`, audit rows and metrics of the cache handler; the
statistics of the two-level cache; the clean-up of the memory store; the numbering of
requests and the lazy writes of the SQLite client, whose errors and dead worker TagCache
has (elsewhere such a request would just take no further step, and others come after it);
the alarm stream, which keeps nothing; the actions of `control-room/actions.ts` that are
one insert, update or query.

The implementation has some 84 000 lines, of which the modules model a few thousand. The
rest has no state that outlives a request or a rendering and nothing that interleaves with
it: generated types (`database.types.ts`, `db-types.ts`, `generated-sd.ts`, 14 000 lines),
React pages, tables, forms and themes, chart and report layout, single-query handlers. A
model of these would restate them line by line and say nothing a test does not.

Out of scope: rendering, pages and forms; SQL migrations other than the functions of 079
and the idempotency keys; Supabase's own sessions and cookies; report and maintenance
jobs, which are sequential queries; webhooks, plugins and AI routes, which are stateless
calls to services; shell scripts, which act on OS processes; the Rust tools; the guards
under `tools/`. Data is abstracted throughout: payloads, compression, serialization and
user-visible texts do not influence control in the modelled parts, except that an entry
that fails to parse would be a miss, which an expired one stands for.

## Running

    tlc -workers 2 -config BreakerAgreement.cfg MCCircuitBreaker.tla
    tlapm CircuitBreaker_proofs.tla
    tlapm OfflineQueue_proofs.tla

and so on, with the module and the configuration of `PROJECT.json`: the module of a run is
the `MC` module of its component (MCServer for Server, MCApiRoutes for ApiRoutes), and
HaulingSessions itself for HaulingStuck.
