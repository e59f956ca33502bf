---------------------------- MODULE OfflineQueue ----------------------------
(***************************************************************************)
(* The offline mutation queue of the portal's browser side                 *)
(* (apps/portal/src/hooks/useOfflineQueue.ts): mutations that could not be *)
(* sent wait in one IndexedDB store, shared by the tabs of the browser,    *)
(* until a run of syncAll() replays them to the server.                    *)
(*                                                                         *)
(* The hook of a tab has at most one run of syncAll() under way            *)
(* (syncingRef); the listener installed by initOfflineQueueListeners()     *)
(* starts one at every 'online' event, whatever is under way.  Every       *)
(* IndexedDB transaction and every request is a step of its own.  A        *)
(* transaction that fails rejects its promise; a writing one that is       *)
(* aborted when it commits (no space left) has no handler, and its promise *)
(* never settles.                                                          *)
(***************************************************************************)
EXTENDS Naturals, FiniteSets

CONSTANTS
    Tabs,         \* the tabs of the browser
    Listeners,    \* the runs a tab's listener can have under way at once
    Mutations,    \* the mutations the user makes
    MaxRetries,   \* MAX_RETRIES
    Lossy,        \* whether a request or its reply may be lost while online
    StoreFails,   \* whether a transaction of enqueue() or a run may fail, or be aborted
    Reloading,    \* whether a tab may be reloaded
    Clearing      \* whether the user may clear the queue, which may fail too

Hook == "hook"
None == "none"

ASSUME OfflineQueueAssumption ==
    /\ MaxRetries \in Nat
    /\ IsFiniteSet(Mutations)
    /\ {Lossy, StoreFails, Reloading, Clearing} \subseteq BOOLEAN
    /\ Hook \notin Listeners
    /\ None \notin Tabs \cup Mutations

Lanes == {Hook} \cup Listeners

VARIABLES
    store,     \* store[m]: the record of m in IndexedDB
    createdAt, \* createdAt[m]: when m was queued, counted in mutations, 0 for never
    calls,     \* calls[m]: where the enqueue() of m stands, and in which tab
    run,       \* run[t][l]: where a run of syncAll() stands
    clearing,  \* clearing[t]: what the clearQueue() of t has yet to delete
    count,     \* count[t]: pendingCount of the hook in t
    recount,   \* recount[t]: whether a refreshCount() is under way outside a run
    effect,    \* effect[t]: whether the auto-sync effect is due in t
    ring,      \* ring[t]: whether the listener of t is to handle an 'online' event
    online,    \* navigator.onLine
    server,    \* whether the server accepts the requests that reach it
    accepted,  \* history: how often the server accepted m (up to 2)
    attempts,  \* history: how often m was replayed (up to MaxRetries + 1)
    cleared    \* history: the mutations clearQueue() deleted

queue == <<store, createdAt>>
hooks == <<count, recount, effect, ring>>
network == <<online, server>>
history == <<accepted, attempts, cleared>>
vars == <<queue, calls, run, clearing, hooks, network, history>>

Record == [status : {"absent", "pending", "syncing", "failed"}, retries : 0..MaxRetries]

Absent == [status |-> "absent", retries |-> 0]

(* What a run holds of a mutation is what it read, whatever happened since. *)
Snapshot == [id : Mutations, retries : 0..MaxRetries]

Nothing == [id |-> None, retries |-> 0]

(* In a Replaying state a run is at a mutation, and has the ones in todo yet to come to. *)
(* A run is stuck for good when it waits for a promise that never settles.               *)
Resting == {"idle", "reading", "cleaning", "counting", "stuck"}
Replaying == {"marking", "unmarking", "fetching", "ok", "rejected", "errored"}

Run == [at : Resting, current : {Nothing}, todo : {{}}]
         \cup [at : Replaying, current : Snapshot, todo : SUBSET Snapshot]

(* "done": settled for the caller; "dead": failed, never to settle, or ended by a reload. *)
Call == [at : {"new", "sending", "adding", "done", "dead"}, tab : Tabs \cup {None}]

IdleRun == [at |-> "idle", current |-> Nothing, todo |-> {}]

TypeOK ==
    /\ store \in [Mutations -> Record]
    /\ createdAt \in [Mutations -> Nat]
    /\ calls \in [Mutations -> Call]
    /\ run \in [Tabs -> [Lanes -> Run]]
    /\ clearing \in [Tabs -> SUBSET Mutations]
    /\ count \in [Tabs -> 0..Cardinality(Mutations)]
    /\ recount \in [Tabs -> BOOLEAN]
    /\ effect \in [Tabs -> BOOLEAN]
    /\ ring \in [Tabs -> BOOLEAN]
    /\ online \in BOOLEAN /\ server \in BOOLEAN
    /\ accepted \in [Mutations -> 0..2]
    /\ attempts \in [Mutations -> 0..(MaxRetries + 1)]
    /\ cleared \in SUBSET Mutations

Init ==
    /\ store = [m \in Mutations |-> Absent]
    /\ createdAt = [m \in Mutations |-> 0]
    /\ calls = [m \in Mutations |-> [at |-> "new", tab |-> None]]
    /\ run = [t \in Tabs |-> [l \in Lanes |-> IdleRun]]
    /\ clearing = [t \in Tabs |-> {}]
    /\ count = [t \in Tabs |-> 0]
    /\ recount = [t \in Tabs |-> FALSE]
    /\ effect = [t \in Tabs |-> FALSE]
    /\ ring = [t \in Tabs |-> FALSE]
    /\ online \in BOOLEAN
    /\ server \in BOOLEAN
    /\ accepted = [m \in Mutations |-> 0]
    /\ attempts = [m \in Mutations |-> 0]
    /\ cleared = {}

-----------------------------------------------------------------------------
(***************************************************************************)
(* A request for m and what its sender hears: "ok", "rejected" (an HTTP    *)
(* error) or "errored" (fetch() throws).                                   *)
(***************************************************************************)
Request(m, answer) ==
    \/ /\ online /\ server /\ answer \in {"ok"} \cup (IF Lossy THEN {"errored"} ELSE {})
       /\ accepted' = [accepted EXCEPT ![m] = IF @ < 2 THEN @ + 1 ELSE 2]
    \/ /\ online /\ ~server /\ answer = "rejected"
       /\ UNCHANGED accepted
    \/ /\ ~online \/ Lossy
       /\ answer = "errored"
       /\ UNCHANGED accepted

Calling(t, m, at) == calls[m] = [at |-> at, tab |-> t]

CallBecomes(m, at, t) == calls' = [calls EXCEPT ![m] = [at |-> at, tab |-> t]]

(* enqueue(): sent at once when online, and kept when that fails. *)
Enqueue(t, m) ==
    /\ calls[m].at = "new"
    /\ CallBecomes(m, IF online THEN "sending" ELSE "adding", t)
    /\ UNCHANGED <<queue, run, clearing, hooks, network, history>>

Send(t, m) ==
    /\ Calling(t, m, "sending")
    /\ \E answer \in {"ok", "rejected", "errored"} :
          /\ Request(m, answer)
          /\ CallBecomes(m, IF answer = "ok" THEN "done" ELSE "adding", t)
    /\ UNCHANGED <<queue, run, clearing, hooks, network, attempts, cleared>>

Queued(m) == createdAt[m] > 0

(* addMutation(); when it fails the caller is told, when it is aborted the caller waits. *)
Add(t, m) ==
    /\ Calling(t, m, "adding")
    /\ \/ /\ store' = [store EXCEPT ![m] = [status |-> "pending", retries |-> 0]]
          /\ createdAt' = [createdAt EXCEPT ![m] = Cardinality({x \in Mutations : Queued(x)}) + 1]
          /\ recount' = [recount EXCEPT ![t] = TRUE]
          /\ CallBecomes(m, "done", t)
       \/ /\ StoreFails
          /\ CallBecomes(m, "dead", t)
          /\ UNCHANGED <<queue, recount>>
    /\ UNCHANGED <<run, clearing, count, effect, ring, network, history>>

-----------------------------------------------------------------------------
Pending == {m \in Mutations : store[m].status = "pending"}

(* setPendingCount(); a count that did change makes the effect due. *)
ShowCount(t) ==
    /\ count' = [count EXCEPT ![t] = Cardinality(Pending)]
    /\ effect' = [effect EXCEPT ![t] = @ \/ count[t] # Cardinality(Pending)]

(* refreshCount() on mount, after enqueue() and after clearQueue(). *)
RefreshCount(t) ==
    /\ recount[t]
    /\ recount' = [recount EXCEPT ![t] = FALSE]
    /\ \/ ShowCount(t)
       \/ StoreFails /\ UNCHANGED <<count, effect>>
    /\ UNCHANGED <<queue, calls, run, clearing, ring, network, history>>

StartRun(t, l) == run' = [run EXCEPT ![t][l] = [IdleRun EXCEPT !.at = "reading"]]

(* The auto-sync effect: does nothing when a run of the hook is under way. *)
AutoSync(t) ==
    /\ effect[t]
    /\ effect' = [effect EXCEPT ![t] = FALSE]
    /\ IF online /\ count[t] > 0 /\ run[t][Hook].at = "idle"
         THEN StartRun(t, Hook)
         ELSE UNCHANGED run
    /\ UNCHANGED <<queue, calls, clearing, count, recount, ring, network, history>>

(* syncNow(), online or not. *)
SyncNow(t) ==
    /\ run[t][Hook].at = "idle"
    /\ StartRun(t, Hook)
    /\ UNCHANGED <<queue, calls, clearing, hooks, network, history>>

(* The 'online' listener of initOfflineQueueListeners(); a run that is stuck does not hold it up. *)
HandleOnline(t, l) ==
    /\ ring[t]
    /\ run[t][l].at \in {"idle", "stuck"}
    /\ ring' = [ring EXCEPT ![t] = FALSE]
    /\ StartRun(t, l)
    /\ UNCHANGED <<queue, calls, clearing, count, recount, effect, network, history>>

-----------------------------------------------------------------------------
(* The runs of syncAll(). *)
Current(t, l) == run[t][l].current

(* What follows syncAll(): a run of the hook refreshes its count. *)
End(l) == [IdleRun EXCEPT !.at = IF l = Hook THEN "counting" ELSE "idle"]

(* A syncAll() that throws goes to .catch(), and the hook's count stays. *)
Abort(t, l) == run' = [run EXCEPT ![t][l] = IdleRun]

GoTo(t, l, at) == run' = [run EXCEPT ![t][l].at = at]

(* The loop over todo by createdAt; clearCompleted() comes after the last. *)
Loop(t, l, todo) ==
    \/ /\ todo = {}
       /\ run' = [run EXCEPT ![t][l] = [IdleRun EXCEPT !.at = "cleaning"]]
    \/ \E next \in todo :
          /\ \A other \in todo : createdAt[next.id] <= createdAt[other.id]
          /\ run' = [run EXCEPT ![t][l] =
                        [at |-> "marking", current |-> next, todo |-> todo \ {next}]]

Advance(t, l) == Loop(t, l, run[t][l].todo)

(* updateMutation(): put() writes the whole record, present or not. *)
Put(m, status, retries) ==
    store' = [store EXCEPT ![m] = [status |-> status, retries |-> retries]]

ReadPending(t, l) ==
    /\ run[t][l].at = "reading"
    /\ \/ /\ Pending # {}
          /\ Loop(t, l, {[id |-> m, retries |-> store[m].retries] : m \in Pending})
       \/ /\ Pending = {} \/ StoreFails
          /\ run' = [run EXCEPT ![t][l] = End(l)]
    /\ UNCHANGED <<queue, calls, clearing, hooks, network, history>>

MarkSyncing(t, l) ==
    /\ run[t][l].at = "marking"
    /\ \/ /\ Put(Current(t, l).id, "syncing", Current(t, l).retries)
          /\ GoTo(t, l, "fetching")
       \/ /\ StoreFails
          /\ GoTo(t, l, "unmarking")
          /\ UNCHANGED store
    /\ UNCHANGED <<createdAt, calls, clearing, hooks, network, history>>

(* Faulty variant: tries the same mutation again instead of skipping it. *)
UnmarkAndRepeat(t, l) ==
    /\ run[t][l].at = "unmarking"
    /\ \/ Put(Current(t, l).id, "pending", Current(t, l).retries)
       \/ StoreFails /\ UNCHANGED store
    /\ GoTo(t, l, "marking")
    /\ UNCHANGED <<createdAt, calls, clearing, hooks, network, history>>

(* The mutation could not be marked: reset it to pending, if possible, and skip it. *)
Unmark(t, l) ==
    /\ run[t][l].at = "unmarking"
    /\ \/ Put(Current(t, l).id, "pending", Current(t, l).retries)
       \/ StoreFails /\ UNCHANGED store
    /\ Advance(t, l)
    /\ UNCHANGED <<createdAt, calls, clearing, hooks, network, history>>

(* Faulty variant: a success other than the expected one counts as rejected. *)
ReplayDistrusting(t, l) ==
    /\ run[t][l].at = "fetching"
    /\ \E answer \in {"ok", "rejected", "errored"} :
          /\ Request(Current(t, l).id, answer)
          /\ GoTo(t, l, IF answer = "ok" THEN "rejected" ELSE answer)
    /\ attempts' = [attempts EXCEPT ![Current(t, l).id] = IF @ <= MaxRetries THEN @ + 1 ELSE @]
    /\ UNCHANGED <<queue, calls, clearing, hooks, network, cleared>>

(* replayMutation(): the request, then the transaction its outcome calls for. *)
Replay(t, l) ==
    /\ run[t][l].at = "fetching"
    /\ \E answer \in {"ok", "rejected", "errored"} :
          /\ Request(Current(t, l).id, answer)
          /\ GoTo(t, l, answer)
    /\ attempts' = [attempts EXCEPT ![Current(t, l).id] = IF @ <= MaxRetries THEN @ + 1 ELSE @]
    /\ UNCHANGED <<queue, calls, clearing, hooks, network, cleared>>

(* A deletion that fails is handled as if the request had failed. *)
DeleteReplayed(t, l) ==
    /\ run[t][l].at = "ok"
    /\ \/ /\ store' = [store EXCEPT ![Current(t, l).id] = Absent]
          /\ Advance(t, l)
       \/ /\ StoreFails
          /\ GoTo(t, l, "errored")
          /\ UNCHANGED store
    /\ UNCHANGED <<createdAt, calls, clearing, hooks, network, history>>

(* Faulty variants: one retry too many, one too few. *)
PutBackLate(mutation) ==
    IF mutation.retries > MaxRetries
      THEN Put(mutation.id, "failed", mutation.retries)
      ELSE Put(mutation.id, "pending", mutation.retries + 1)

PutBackEarly(mutation) ==
    IF mutation.retries + 1 >= MaxRetries
      THEN Put(mutation.id, "failed", mutation.retries)
      ELSE Put(mutation.id, "pending", mutation.retries + 1)

PutBack(mutation) ==
    IF mutation.retries >= MaxRetries
      THEN Put(mutation.id, "failed", mutation.retries)
      ELSE Put(mutation.id, "pending", mutation.retries + 1)

(* When this fails in the try block the catch block tries it again. *)
Retry(t, l) ==
    /\ run[t][l].at \in {"rejected", "errored"}
    /\ \/ PutBack(Current(t, l)) /\ Advance(t, l)
       \/ /\ StoreFails
          /\ IF run[t][l].at = "rejected" THEN GoTo(t, l, "errored") ELSE Abort(t, l)
          /\ UNCHANGED store
    /\ UNCHANGED <<createdAt, calls, clearing, hooks, network, history>>

ClearCompleted(t, l) ==
    /\ run[t][l].at = "cleaning"
    /\ \/ store' = [m \in Mutations |-> IF store[m].status = "failed" THEN Absent ELSE store[m]]
       \/ StoreFails /\ UNCHANGED store
    /\ run' = [run EXCEPT ![t][l] = End(l)]
    /\ UNCHANGED <<createdAt, calls, clearing, hooks, network, history>>

(***************************************************************************)
(* The transaction a run waits for is aborted when it commits.  It has     *)
(* oncomplete and onerror, and an abort is neither: nothing is written and *)
(* syncAll() waits for ever.  With it a hook's syncingRef stays set, so    *)
(* that the hook starts no other run before the tab is reloaded.           *)
(***************************************************************************)
Hang(t, l) ==
    /\ StoreFails
    /\ run[t][l].at \in {"marking", "unmarking", "ok", "rejected", "errored", "cleaning"}
    /\ run' = [run EXCEPT ![t][l] = [IdleRun EXCEPT !.at = "stuck"]]
    /\ UNCHANGED <<queue, calls, clearing, hooks, network, history>>

CountAfterSync(t) ==
    /\ run[t][Hook].at = "counting"
    /\ \/ ShowCount(t)
       \/ StoreFails /\ UNCHANGED <<count, effect>>
    /\ GoTo(t, Hook, "idle")
    /\ UNCHANGED <<queue, calls, clearing, recount, ring, network, history>>

-----------------------------------------------------------------------------
(* clearQueue(): reads the store, then deletes what it read one by one. *)
ClearQueue(t) ==
    /\ Clearing /\ clearing[t] = {}
    /\ clearing' = [clearing EXCEPT ![t] = {m \in Mutations : store[m] # Absent}]
    /\ clearing'[t] # {}
    /\ UNCHANGED <<queue, calls, run, hooks, network, history>>

(* A deletion that fails or is aborted is the last: clearQueue() throws, or waits for ever. *)
ClearOne(t, m) ==
    /\ m \in clearing[t]
    /\ \/ /\ store' = [store EXCEPT ![m] = Absent]
          /\ cleared' = cleared \cup {m}
          /\ clearing' = [clearing EXCEPT ![t] = @ \ {m}]
          /\ recount' = [recount EXCEPT ![t] = @ \/ clearing'[t] = {}]
       \/ /\ clearing' = [clearing EXCEPT ![t] = {}]
          /\ UNCHANGED <<store, cleared, recount>>
    /\ UNCHANGED <<createdAt, calls, run, count, effect, ring, network, accepted, attempts>>

(* A reload ends whatever the tab was doing; IndexedDB and the server remain. *)
Reload(t) ==
    /\ Reloading
    /\ run' = [run EXCEPT ![t] = [l \in Lanes |-> IdleRun]]
    /\ calls' = [m \in Mutations |->
                   IF Calling(t, m, "sending") \/ Calling(t, m, "adding")
                     THEN [at |-> "dead", tab |-> t] ELSE calls[m]]
    /\ clearing' = [clearing EXCEPT ![t] = {}]
    /\ count' = [count EXCEPT ![t] = 0]
    /\ recount' = [recount EXCEPT ![t] = TRUE]
    /\ effect' = [effect EXCEPT ![t] = FALSE]
    /\ ring' = [ring EXCEPT ![t] = FALSE]
    /\ UNCHANGED <<queue, network, history>>

(* The browser goes online or offline; both make the effect due. *)
ConnectivityChanges ==
    /\ online' = ~online
    /\ effect' = [t \in Tabs |-> TRUE]
    /\ ring' = [t \in Tabs |-> ring[t] \/ online']
    /\ UNCHANGED <<queue, calls, run, clearing, count, recount, server, history>>

ServerChanges ==
    /\ server' = ~server
    /\ UNCHANGED <<queue, calls, run, clearing, hooks, online, history>>

-----------------------------------------------------------------------------
(* The steps of a run once it has started. *)
RunStep(t, l) ==
    \/ ReadPending(t, l)
    \/ MarkSyncing(t, l)
    \/ Unmark(t, l)
    \/ Replay(t, l)
    \/ DeleteReplayed(t, l)
    \/ Retry(t, l)
    \/ ClearCompleted(t, l)
    \/ Hang(t, l)
    \/ l = Hook /\ CountAfterSync(t)

Next ==
    \/ \E t \in Tabs : \/ \E m \in Mutations : \/ Enqueue(t, m)
                                              \/ Send(t, m)
                                              \/ Add(t, m)
                                              \/ ClearOne(t, m)
                       \/ \E l \in Listeners : HandleOnline(t, l)
                       \/ \E l \in Lanes : RunStep(t, l)
                       \/ RefreshCount(t)
                       \/ AutoSync(t)
                       \/ SyncNow(t)
                       \/ ClearQueue(t)
                       \/ Reload(t)
    \/ ConnectivityChanges
    \/ ServerChanges

Spec == Init /\ [][Next]_vars

(* Promises settle, those of aborted transactions apart, and events are handled; the user *)
(* and the network owe nothing.                                                           *)
Fairness ==
    \A t \in Tabs :
        /\ WF_vars(RefreshCount(t))
        /\ WF_vars(AutoSync(t))
        /\ \A l \in Listeners : WF_vars(HandleOnline(t, l))
        /\ \A l \in Lanes : WF_vars(RunStep(t, l))
        /\ \A m \in Mutations : WF_vars(Send(t, m)) /\ WF_vars(Add(t, m)) /\ WF_vars(ClearOne(t, m))

FairSpec == Spec /\ Fairness

-----------------------------------------------------------------------------
(***************************************************************************)
(* No queued mutation is given up early: one that has left the store was   *)
(* accepted, was cleared by the user, or was replayed MAX_RETRIES + 1      *)
(* times, whatever runs, reloads and failing transactions came between.    *)
(***************************************************************************)
NotDroppedEarly ==
    \A m \in Mutations : Queued(m) /\ store[m] = Absent =>
        accepted[m] > 0 \/ m \in cleared \/ attempts[m] = MaxRetries + 1

(* One run of syncAll() at a time, of one hook; replies and transactions are reliable. *)
OneRunAtATime ==
    /\ \A t, u \in Tabs : t = u
    /\ Listeners = {}
    /\ ~Lossy /\ ~StoreFails

(***************************************************************************)
(* A mutation that a run of syncAll() has deleted because the server       *)
(* accepted it is not replayed again: under OneRunAtATime the server       *)
(* accepts every mutation at most once, whatever is cleared or reloaded.   *)
(***************************************************************************)
AcceptedOnce == \A m \in Mutations : accepted[m] <= 1

(***************************************************************************)
(* Every run of syncAll() ends, whatever fails under it, or hangs on an    *)
(* aborted transaction: nothing else makes syncingRef block the runs to    *)
(* come for ever.                                                          *)
(***************************************************************************)
RunsEnd ==
    \A t \in Tabs, l \in Lanes : run[t][l].at # "idle" ~> run[t][l].at \in {"idle", "stuck"}

(* A run of a hook has got to its end. *)
Synced == \E t \in Tabs : run[t][Hook].at = "counting"

(***************************************************************************)
(* "stale entries will be retried on next sync": if runs of syncAll() keep *)
(* being completed, no entry stays marked syncing for ever.                *)
(***************************************************************************)
StaleRetried ==
    []<>Synced =>
        \A m \in Mutations : store[m].status = "syncing" ~> store[m].status # "syncing"
=============================================================================
