------------------------------ MODULE TagCache ------------------------------
(***************************************************************************)
(* The distributed tag invalidation of the portal's Next.js cache handler  *)
(* (apps/portal/src/lib/next-cache-handler.ts): get(), set(),              *)
(* refreshTags() and updateTags() of several pods over one Redis.          *)
(*                                                                         *)
(* A request slot of a pod lives through what Next.js does with one page   *)
(* request: refreshTags(), get(), and on a miss a render whose result is   *)
(* passed to set().  It may instead serve one revalidateTag(), that is one *)
(* updateTags().  Every Redis command is three steps: the pod sends it,    *)
(* Redis executes it, the pod resumes.  A pod has one connection, so its   *)
(* commands are executed, and their replies handled, in the order sent.    *)
(* When getRedisClient() finds no Redis, get(), set() and updateTags() use *)
(* the pod's own SQLite fallback, which keeps what it stores in a file and *)
(* runs in a worker thread: a dead worker answers no command any more.     *)
(***************************************************************************)
EXTENDS Naturals, Sequences, FiniteSets

CONSTANTS
    Pods,        \* the portal processes
    Slots,       \* the concurrent requests of a pod
    Keys,        \* cache keys
    Tags,        \* cache tags
    TagsOf,      \* TagsOf[k]: the tags of the entries under k, soft tags included
    MaxRetries,  \* RETRY_OPTIONS.maxRetries
    MaxTime,     \* bound on the clock
    MaxBusy,     \* bound on the requests under way in all pods together
    Failing,     \* whether commands, and with Outages the worker of a fallback, may fail
    Refusing,    \* whether the breaker may refuse, no client be found, a render fail
    Outages,     \* whether getRedisClient() may hand out the fallback store
    Crashing,    \* whether a pod may restart
    Serial       \* whether revalidations of one tag never overlap

None == "none"

ASSUME TagCacheAssumption ==
    /\ TagsOf \in [Keys -> SUBSET Tags]
    /\ MaxRetries \in Nat /\ MaxTime \in Nat \ {0} /\ MaxBusy \in Nat
    /\ {Failing, Refusing, Outages, Crashing, Serial} \subseteq BOOLEAN
    /\ None \notin Slots

VARIABLES
    clock,       \* Date.now() of every pod
    entry,       \* entry[k]: timestamp of the entry Redis holds under k, 0 for none
    local,       \* local[p][k]: the same of the fallback store of pod p
    worker,      \* worker[p]: whether the worker thread of that store is alive
    stamp,       \* stamp[t]: what Redis holds under next:tag:<t>, 0 for nothing
    indexed,     \* the set next:revalidated-tags
    manifest,    \* manifest[p]: localTagTimestamps of pod p, 0 for an absent tag
    pending,     \* pending[p][k]: the slot whose set() promise pendingSets holds for k
    slot,        \* slot[p][s]: the local state of a request
    sent,        \* sent[p]: the slots whose command Redis has yet to execute
    replies,     \* replies[p]: the slots whose reply the pod has yet to handle
    revalidated  \* history: revalidated[t], the last revalidation of t that succeeded

vars == <<clock, entry, local, worker, stamp, indexed, manifest, pending, slot, sent,
          replies, revalidated>>

Time == 0..MaxTime

(* Where a request stands; in a Commands state it waits for a Redis command. *)
Commands == {"smembers", "mget", "read", "store", "stamp", "index"}
Steps == {"idle", "ready", "awaiting", "missed", "rendering", "served"} \cup Commands

(* The clients getRedisClient() may hand out. *)
Stores == {"redis"} \cup (IF Outages THEN {"fallback"} ELSE {})

Slot == [at      : Steps,
         key     : Keys \cup {None},
         time    : Time,                 \* timestamp of the entry or of the revalidation
         tags    : SUBSET Tags,          \* tags to revalidate, or the smembers reply
         todo    : SUBSET Tags,          \* tags whose turn in updateTags() is to come
         tag     : Tags \cup {None},     \* tag whose turn it is
         values  : [Tags -> Time],       \* the mget reply
         store   : Stores,               \* the client getRedisClient() handed out
         tries   : 0..MaxRetries,        \* retries made by withRetry()
         backoff : BOOLEAN,              \* whether a retry waits for its delay
         ok      : BOOLEAN,              \* whether the reply is no error
         waitsOn : Slots \cup {None},    \* the set() promise get() awaits
         synced  : BOOLEAN,              \* history: whether refreshTags() succeeded
         floor   : [Tags -> Time]]       \* history: revalidated when the request began

Zero == [t \in Tags |-> 0]

Idle == [at |-> "idle", key |-> None, time |-> 0, tags |-> {}, todo |-> {}, tag |-> None,
         values |-> Zero, store |-> "redis", tries |-> 0, backoff |-> FALSE, ok |-> TRUE,
         waitsOn |-> None, synced |-> FALSE, floor |-> Zero]

TypeOK ==
    /\ clock \in Time \ {0}
    /\ entry \in [Keys -> Time]
    /\ local \in [Pods -> [Keys -> Time]]
    /\ worker \in [Pods -> BOOLEAN]
    /\ stamp \in [Tags -> Time]
    /\ indexed \in SUBSET Tags
    /\ manifest \in [Pods -> [Tags -> Time]]
    /\ pending \in [Pods -> [Keys -> Slots \cup {None}]]
    /\ slot \in [Pods -> [Slots -> Slot]]
    /\ sent \in [Pods -> Seq(Slots)]
    /\ replies \in [Pods -> Seq(Slots)]
    /\ revalidated \in [Tags -> Time]

Init ==
    /\ clock = 1
    /\ entry = [k \in Keys |-> 0]
    /\ local = [p \in Pods |-> [k \in Keys |-> 0]]
    /\ worker = [p \in Pods |-> TRUE]
    /\ stamp = Zero
    /\ indexed = {}
    /\ manifest = [p \in Pods |-> Zero]
    /\ pending = [p \in Pods |-> [k \in Keys |-> None]]
    /\ slot = [p \in Pods |-> [s \in Slots |-> Idle]]
    /\ sent = [p \in Pods |-> <<>>]
    /\ replies = [p \in Pods |-> <<>>]
    /\ revalidated = Zero

-----------------------------------------------------------------------------
server == <<entry, local, worker, stamp, indexed>>

(* The pod moves request s on, without or with a command to Redis. *)
Continue(p, s, rec) ==
    /\ slot' = [slot EXCEPT ![p][s] = rec]
    /\ UNCHANGED sent

Send(p, s, rec) ==
    /\ slot' = [slot EXCEPT ![p][s] = rec]
    /\ sent' = [sent EXCEPT ![p] = Append(@, s)]

(* The reply to s is the oldest one pod p has yet to handle. *)
Reply(p, s, at) ==
    /\ replies[p] # <<>> /\ Head(replies[p]) = s
    /\ slot[p][s].at = at
    /\ replies' = [replies EXCEPT ![p] = Tail(@)]

(* A free slot of pod p takes a request, within the bound. *)
Free(p, s) ==
    /\ slot[p][s].at = "idle"
    /\ Cardinality({q \in Pods \X Slots : slot[q[1]][q[2]].at # "idle"}) < MaxBusy

(* withRetry(): the command failed and is issued again after a delay. *)
CanRetryOnceMore(rec) == ~rec.ok /\ rec.tries <= MaxRetries \* faulty variant

CanRetry(rec) == ~rec.ok /\ rec.tries < MaxRetries
Backoff(rec) == [rec EXCEPT !.tries = @ + 1, !.backoff = TRUE, !.ok = TRUE]

Reissue(p, s) ==
    /\ slot[p][s].backoff
    /\ Send(p, s, [slot[p][s] EXCEPT !.backoff = FALSE])
    /\ UNCHANGED <<clock, server, manifest, pending, replies, revalidated>>

-----------------------------------------------------------------------------
(* refreshTags(), called by Next.js before each request; without Redis it returns: *)
(* the fallback has neither SMEMBERS nor MGET.                                     *)
BeginRequest(p, s, k) ==
    /\ Free(p, s)
    /\ LET rec == [Idle EXCEPT !.key = k, !.floor = revalidated]
       IN  \/ Send(p, s, [rec EXCEPT !.at = "smembers"])
           \/ (Refusing \/ Outages) /\ Continue(p, s, [rec EXCEPT !.at = "ready"])
    /\ UNCHANGED <<clock, server, manifest, pending, replies, revalidated>>

(* An error is swallowed: the request goes on with the manifest as it is. *)
ResumeSmembers(p, s) ==
    /\ Reply(p, s, "smembers")
    /\ LET rec == slot[p][s]
       IN  IF rec.ok /\ rec.tags # {}
             THEN Send(p, s, [rec EXCEPT !.at = "mget"])
             ELSE Continue(p, s, [rec EXCEPT !.at = "ready", !.synced = rec.ok,
                                             !.tags = {}, !.ok = TRUE])
    /\ UNCHANGED <<clock, server, manifest, pending, revalidated>>

(* Faulty variant: a tag the manifest already holds is not updated. *)
ResumeMgetKnownTagsKept(p, s) ==
    /\ Reply(p, s, "mget")
    /\ LET rec == slot[p][s]
       IN  /\ manifest' =
                [manifest EXCEPT ![p] =
                   [t \in Tags |-> IF rec.ok /\ @[t] = 0 THEN rec.values[t] ELSE @[t]]]
           /\ Continue(p, s, [rec EXCEPT !.at = "ready", !.synced = rec.ok, !.tags = {},
                                         !.values = Zero, !.ok = TRUE])
    /\ UNCHANGED <<clock, server, pending, revalidated>>

(* Every tag that has a value is set in the manifest, whatever it held. *)
ResumeMget(p, s) ==
    /\ Reply(p, s, "mget")
    /\ LET rec == slot[p][s]
       IN  /\ manifest' =
                IF rec.ok
                  THEN [manifest EXCEPT ![p] =
                          [t \in Tags |-> IF rec.values[t] > 0 THEN rec.values[t] ELSE @[t]]]
                  ELSE manifest
           /\ Continue(p, s, [rec EXCEPT !.at = "ready", !.synced = rec.ok, !.tags = {},
                                         !.values = Zero, !.ok = TRUE])
    /\ UNCHANGED <<clock, server, pending, revalidated>>

-----------------------------------------------------------------------------
(* get(): picks up the promise of a pending set() on the key, if any. *)
CallGet(p, s) ==
    /\ slot[p][s].at = "ready"
    /\ LET k == slot[p][s].key
       IN  Continue(p, s, [slot[p][s] EXCEPT !.at = "awaiting", !.waitsOn = pending[p][k]])
    /\ UNCHANGED <<clock, server, manifest, pending, replies, revalidated>>

Miss(rec) == [Idle EXCEPT !.at = "missed", !.key = rec.key]

ProceedGet(p, s) ==
    /\ slot[p][s].at = "awaiting" /\ slot[p][s].waitsOn = None
    /\ \/ \E c \in Stores : Send(p, s, [slot[p][s] EXCEPT !.at = "read", !.store = c])
       \/ Refusing /\ Continue(p, s, Miss(slot[p][s]))
    /\ UNCHANGED <<clock, server, manifest, pending, replies, revalidated>>

(* isStaleByTags() *)
IsStaleByTags(p, k, timestamp) ==
    \E t \in TagsOf[k] : manifest[p][t] > 0 /\ manifest[p][t] >= timestamp

ResumeRead(p, s) ==
    /\ Reply(p, s, "read")
    /\ LET rec == slot[p][s]
       IN  Continue(p, s,
             CASE CanRetry(rec) -> Backoff(rec)
               [] ~rec.ok /\ ~CanRetry(rec) -> Miss(rec)
               [] rec.ok /\ (rec.time = 0 \/ IsStaleByTags(p, rec.key, rec.time)) -> Miss(rec)
               [] OTHER -> [rec EXCEPT !.at = "served"])
    /\ UNCHANGED <<clock, server, manifest, pending, revalidated>>

EndRequest(p, s) ==
    /\ slot[p][s].at \in {"served", "missed"}
    /\ Continue(p, s, Idle)
    /\ UNCHANGED <<clock, server, manifest, pending, replies, revalidated>>

-----------------------------------------------------------------------------
(***************************************************************************)
(* set(): called when the render of a missed entry begins, whose timestamp *)
(* is that moment; its promise replaces the one pendingSets held.          *)
(***************************************************************************)
CallSet(p, s) ==
    /\ slot[p][s].at = "missed"
    /\ Continue(p, s, [slot[p][s] EXCEPT !.at = "rendering", !.time = clock])
    /\ pending' = [pending EXCEPT ![p][slot[p][s].key] = s]
    /\ UNCHANGED <<clock, server, manifest, replies, revalidated>>

(* release(): the requests of p when the set() of s is over. *)
Awaits(rec, s) == IF rec.waitsOn = s THEN None ELSE rec.waitsOn
Released(p, s) == [x \in Slots |-> IF x = s THEN Idle
                                   ELSE [slot[p][x] EXCEPT !.waitsOn = Awaits(slot[p][x], s)]]

(* Faulty variants: the promise is not deleted, or not released. *)
FinishSetWithoutDelete(p, s) ==
    /\ slot' = [slot EXCEPT ![p] = Released(p, s)]
    /\ UNCHANGED pending

FinishSetWithoutRelease(p, s) ==
    /\ slot' = [slot EXCEPT ![p][s] = Idle]
    /\ pending' = [pending EXCEPT ![p][slot[p][s].key] = None]

(* The finally block: release() the waiting get()s, pendingSets.delete(key). *)
FinishSet(p, s) ==
    /\ slot' = [slot EXCEPT ![p] = Released(p, s)]
    /\ pending' = [pending EXCEPT ![p][slot[p][s].key] = None]

(* The entry has rendered and its stream is drained, or that failed. *)
Rendered(p, s) ==
    /\ slot[p][s].at = "rendering"
    /\ \/ /\ \E c \in Stores : Send(p, s, [slot[p][s] EXCEPT !.at = "store", !.store = c])
          /\ UNCHANGED pending
       \/ /\ Refusing
          /\ FinishSet(p, s)
          /\ UNCHANGED sent
    /\ UNCHANGED <<clock, server, manifest, replies, revalidated>>

ResumeStore(p, s) ==
    /\ Reply(p, s, "store")
    /\ IF CanRetry(slot[p][s])
         THEN Continue(p, s, Backoff(slot[p][s])) /\ UNCHANGED pending
         ELSE FinishSet(p, s) /\ UNCHANGED sent
    /\ UNCHANGED <<clock, server, manifest, revalidated>>

-----------------------------------------------------------------------------
Revalidating(t) ==
    \E p \in Pods, s \in Slots :
        slot[p][s].at \in {"stamp", "index"} /\ t \in slot[p][s].tags

(* updateTags(): the manifest at once, then Redis tag by tag. *)
CallUpdateTags(p, s, T) ==
    /\ Free(p, s)
    /\ Serial => \A t \in T : ~Revalidating(t)
    /\ manifest' = [manifest EXCEPT ![p] = [t \in Tags |-> IF t \in T THEN clock ELSE @[t]]]
    /\ \/ \E t \in T, c \in Stores :
             Send(p, s, [Idle EXCEPT !.at = "stamp", !.time = clock, !.tags = T,
                                     !.todo = T \ {t}, !.tag = t, !.store = c])
       \/ Refusing /\ Continue(p, s, Idle)
    /\ UNCHANGED <<clock, server, pending, replies, revalidated>>

(* After an error withRetry() runs the whole loop over the tags again. *)
RetryTags(p, s) ==
    LET rec == slot[p][s]
    IN  IF CanRetry(rec)
          THEN \E t \in rec.tags :
                  Continue(p, s, [Backoff(rec) EXCEPT !.at = "stamp", !.tag = t,
                                                      !.todo = rec.tags \ {t}])
          ELSE Continue(p, s, Idle)

ResumeStamp(p, s) ==
    /\ Reply(p, s, "stamp")
    /\ IF slot[p][s].ok THEN Send(p, s, [slot[p][s] EXCEPT !.at = "index"])
                        ELSE RetryTags(p, s)
    /\ UNCHANGED <<clock, server, manifest, pending, revalidated>>

ResumeIndex(p, s) ==
    /\ Reply(p, s, "index")
    /\ LET rec == slot[p][s]
       IN  \/ /\ rec.ok /\ rec.todo # {}
              /\ \E t \in rec.todo : Send(p, s, [rec EXCEPT !.at = "stamp", !.tag = t,
                                                            !.todo = @ \ {t}])
              /\ UNCHANGED revalidated
           \/ /\ rec.ok /\ rec.todo = {}
              /\ Continue(p, s, Idle)
              /\ revalidated' = [t \in Tags |->
                   IF rec.store = "redis" /\ t \in rec.tags /\ rec.time > revalidated[t]
                     THEN rec.time ELSE revalidated[t]]
           \/ /\ ~rec.ok
              /\ RetryTags(p, s)
              /\ UNCHANGED revalidated
    /\ UNCHANGED <<clock, server, manifest, pending>>

-----------------------------------------------------------------------------
(***************************************************************************)
(* What the command of a request does to Redis, and its reply.  Nobody     *)
(* reads the tag timestamps of the fallback store: they are left out.      *)
(***************************************************************************)
Effect(rec) ==
    /\ entry' = IF rec.at = "store" THEN [entry EXCEPT ![rec.key] = rec.time] ELSE entry
    /\ stamp' = IF rec.at = "stamp" THEN [stamp EXCEPT ![rec.tag] = rec.time] ELSE stamp
    /\ indexed' = IF rec.at = "index" THEN indexed \cup {rec.tag} ELSE indexed
    /\ UNCHANGED <<local, worker>>

EffectLocal(p, rec) ==
    /\ local' = IF rec.at = "store" THEN [local EXCEPT ![p][rec.key] = rec.time] ELSE local
    /\ UNCHANGED <<entry, worker, stamp, indexed>>

Answer(p, rec) ==
    CASE rec.at = "smembers" -> [rec EXCEPT !.tags = indexed]
      [] rec.at = "mget" -> [rec EXCEPT !.values =
                               [t \in Tags |-> IF t \in rec.tags THEN stamp[t] ELSE 0]]
      [] rec.at = "read" -> [rec EXCEPT !.time = IF rec.store = "redis" THEN entry[rec.key]
                                                 ELSE local[p][rec.key]]
      [] OTHER -> rec

(***************************************************************************)
(* The store executes the oldest command of p.  When commands may fail, it *)
(* may have failed before it took effect, or its reply been lost after;    *)
(* the worker replies with the error of a statement, after which the       *)
(* others of the command have taken effect or not.                         *)
(***************************************************************************)
Execute(p) ==
    /\ sent[p] # <<>>
    /\ slot[p][Head(sent[p])].store = "redis" \/ worker[p]
    /\ sent' = [sent EXCEPT ![p] = Tail(@)]
    /\ replies' = [replies EXCEPT ![p] = Append(@, Head(sent[p]))]
    /\ LET s == Head(sent[p])
           rec == slot[p][s]
           Does == IF rec.store = "redis" THEN Effect(rec) ELSE EffectLocal(p, rec)
       IN  \/ Does /\ slot' = [slot EXCEPT ![p][s] = Answer(p, rec)]
           \/ /\ Failing
              /\ Does \/ UNCHANGED server
              /\ slot' = [slot EXCEPT ![p][s].ok = FALSE]
    /\ UNCHANGED <<clock, manifest, pending, revalidated>>

(* A command to a dead worker: nothing settles the promise in pendingRequests. *)
Drop(p) ==
    /\ sent[p] # <<>>
    /\ slot[p][Head(sent[p])].store = "fallback" /\ ~worker[p]
    /\ sent' = [sent EXCEPT ![p] = Tail(@)]
    /\ UNCHANGED <<clock, server, manifest, pending, slot, replies, revalidated>>

(* The worker dies of an uncaught error, which its 'error' listener logs; nobody *)
(* starts another one before the pod restarts.                                   *)
WorkerDies(p) ==
    /\ Failing /\ Outages /\ worker[p]
    /\ worker' = [worker EXCEPT ![p] = FALSE]
    /\ UNCHANGED <<clock, entry, local, stamp, indexed, manifest, pending, slot, sent,
                   replies, revalidated>>

(* Redis or a fallback store drops an entry: its TTL ran out, or there was no room.  For *)
(* get() an entry past its own expire is as good as dropped.                            *)
Expire(k) ==
    /\ \/ /\ entry[k] > 0
          /\ entry' = [entry EXCEPT ![k] = 0]
          /\ UNCHANGED local
       \/ \E p \in Pods : /\ local[p][k] > 0
                          /\ local' = [local EXCEPT ![p][k] = 0]
                          /\ UNCHANGED entry
    /\ UNCHANGED <<clock, worker, stamp, indexed, manifest, pending, slot, sent, replies,
                   revalidated>>

Tick ==
    /\ clock < MaxTime
    /\ clock' = clock + 1
    /\ UNCHANGED <<server, manifest, pending, slot, sent, replies, revalidated>>

(* A pod restarts: its memory is gone, its SQLite file is not, commands may be lost. *)
Restart(p) ==
    /\ Crashing
    /\ worker' = [worker EXCEPT ![p] = TRUE]
    /\ manifest' = [manifest EXCEPT ![p] = Zero]
    /\ pending' = [pending EXCEPT ![p] = [k \in Keys |-> None]]
    /\ slot' = [slot EXCEPT ![p] = [s \in Slots |-> Idle]]
    /\ sent' = [sent EXCEPT ![p] = <<>>]
    /\ replies' = [replies EXCEPT ![p] = <<>>]
    /\ UNCHANGED <<clock, entry, local, stamp, indexed, revalidated>>

-----------------------------------------------------------------------------
(* The steps by which a request makes progress once it has begun. *)
Progress(p, s) ==
    \/ Reissue(p, s)
    \/ ResumeSmembers(p, s)
    \/ ResumeMget(p, s)
    \/ CallGet(p, s)
    \/ ProceedGet(p, s)
    \/ ResumeRead(p, s)
    \/ EndRequest(p, s)
    \/ Rendered(p, s)
    \/ ResumeStore(p, s)
    \/ ResumeStamp(p, s)
    \/ ResumeIndex(p, s)

Next ==
    \/ \E p \in Pods :
         \/ \E s \in Slots : \/ \E k \in Keys : BeginRequest(p, s, k)
                             \/ \E T \in SUBSET Tags \ {{}} : CallUpdateTags(p, s, T)
                             \/ CallSet(p, s)
                             \/ Progress(p, s)
         \/ Execute(p)
         \/ Drop(p)
         \/ WorkerDies(p)
         \/ Restart(p)
    \/ \E k \in Keys : Expire(k)
    \/ Tick

Spec == Init /\ [][Next]_vars

(* Timers fire, renders end; Redis and a worker that lives reply, with a result or an *)
(* error, and replies are handled.                                                    *)
Fairness ==
    \A p \in Pods :
        WF_vars(Execute(p) \/ Drop(p)) /\ \A s \in Slots : WF_vars(Progress(p, s))

FairSpec == Spec /\ Fairness

-----------------------------------------------------------------------------
(***************************************************************************)
(* "every pod syncs those timestamps in refreshTags() ... and rejects      *)
(* cache entries older than a tag's revalidation timestamp": a request     *)
(* whose refreshTags() succeeded is never served an entry as old as a      *)
(* revalidation that had succeeded, on any pod, when the request began.    *)
(***************************************************************************)
RevalidationRespected ==
    \A p \in Pods, s \in Slots :
        LET rec == slot[p][s]
        IN  rec.at = "served" /\ rec.synced =>
                \A t \in TagsOf[rec.key] : rec.floor[t] < rec.time

(***************************************************************************)
(* "Record revalidation timestamps ... locally and in Redis": what a pod   *)
(* knows of a revalidation is never replaced by an older one, short of a   *)
(* restart.                                                                *)
(***************************************************************************)
ManifestForward ==
    [][\A p \in Pods, t \in Tags : manifest'[p][t] >= manifest[p][t] \/ Restart(p)]_vars

(* The set()s of key k under way in pod p. *)
SettingKey(p, k) == {s \in Slots : slot[p][s].at \in {"rendering", "store"} /\ slot[p][s].key = k}

(***************************************************************************)
(* A promise in pendingSets belongs to a set() of that key under way, and  *)
(* so does the one a get() awaits: nobody waits for a promise that no      *)
(* set() is left to release.                                               *)
(***************************************************************************)
NoOrphanPromise ==
    \A p \in Pods :
        /\ \A k \in Keys : pending[p][k] # None => pending[p][k] \in SettingKey(p, k)
        /\ \A s \in Slots : slot[p][s].waitsOn # None =>
              slot[p][s].waitsOn \in SettingKey(p, slot[p][s].key)

(* The command of s went to a worker that is dead, or s waits for a set() whose did. *)
Unanswered(p, s) ==
    /\ slot[p][s].at \in Commands /\ ~slot[p][s].backoff
    /\ slot[p][s].store = "fallback" /\ ~worker[p]
    /\ \A i \in DOMAIN sent[p] : sent[p][i] # s
    /\ \A i \in DOMAIN replies[p] : replies[p][i] # s

Hung(p, s) ==
    \/ Unanswered(p, s)
    \/ slot[p][s].waitsOn # None /\ Unanswered(p, slot[p][s].waitsOn)

(***************************************************************************)
(* Every request and every revalidation ends, or hangs on the dead worker  *)
(* of the fallback store: retries are bounded, errors are handled whoever  *)
(* replies with one, and no get() waits for ever on a set() that is over.  *)
(***************************************************************************)
RequestsEnd ==
    \A p \in Pods, s \in Slots :
        slot[p][s].at # "idle" ~> slot[p][s].at = "idle" \/ Hung(p, s)
=============================================================================
