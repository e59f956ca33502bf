------------------------ MODULE OfflineQueue_proofs ------------------------
(***************************************************************************)
(* Proofs about the offline queue, for any number of tabs, listener runs   *)
(* and mutations and any number of retries: type correctness and           *)
(* NotDroppedEarly; and, for one run at a time, AcceptedOnce.              *)
(***************************************************************************)
EXTENDS OfflineQueue, FiniteSetTheorems, TLAPS

USE OfflineQueueAssumption DEF OfflineQueueAssumption

-----------------------------------------------------------------------------
(* Lemmas about the operators the actions share. *)

(* There are no more pending mutations than mutations. *)
LEMMA PendingBounded ==
    Cardinality(Pending) \in 0..Cardinality(Mutations)
  <1>1. Pending \in SUBSET Mutations
    BY DEF Pending
  <1>2. /\ IsFiniteSet(Pending)
        /\ Cardinality(Pending) <= Cardinality(Mutations)
    BY <1>1, FS_Subset, Zenon
  <1>3. Cardinality(Pending) \in Nat /\ Cardinality(Mutations) \in Nat
    BY <1>2, FS_CardinalityType, Zenon
  <1>4. QED
    BY <1>2, <1>3

(* The rank a newly queued mutation gets is a positive number. *)
LEMMA RankIsPositive ==
    /\ Cardinality({x \in Mutations : Queued(x)}) + 1 \in Nat
    /\ Cardinality({x \in Mutations : Queued(x)}) + 1 > 0
  <1>1. {x \in Mutations : Queued(x)} \in SUBSET Mutations
    OBVIOUS
  <1>2. IsFiniteSet({x \in Mutations : Queued(x)})
    BY <1>1, FS_Subset, Zenon
  <1>3. Cardinality({x \in Mutations : Queued(x)}) \in Nat
    BY <1>2, FS_CardinalityType, Zenon
  <1>4. QED
    BY <1>3

(* What a run is at. *)
LEMMA RunParts ==
    ASSUME TypeOK, NEW t \in Tabs, NEW l \in Lanes
    PROVE  /\ run[t][l] \in Run
           /\ run[t][l].at \in Resting \cup Replaying
           /\ run[t][l].todo \in SUBSET Snapshot
           /\ run[t][l].at \in Replaying =>
                 /\ Current(t, l) \in Snapshot
                 /\ Current(t, l).id \in Mutations
                 /\ Current(t, l).retries \in 0..MaxRetries
  <1>1. run[t][l] \in Run
    BY DEF TypeOK
  <1>2. /\ run[t][l].at \in Resting \cup Replaying
        /\ run[t][l].todo \in SUBSET Snapshot
    BY <1>1 DEF Run
  <1>3. ASSUME run[t][l].at \in Replaying
        PROVE  Current(t, l) \in Snapshot
    BY <1>1, <1>3 DEF Run, Current, Resting, Replaying
  <1>4. QED
    BY <1>1, <1>2, <1>3 DEF Snapshot

(* A run that is moved keeps the type of run. *)
LEMMA RunMoves ==
    ASSUME TypeOK, NEW t \in Tabs, NEW l \in Lanes, NEW r \in Run,
           run' = [run EXCEPT ![t][l] = r]
    PROVE  run' \in [Tabs -> [Lanes -> Run]]
  BY DEF TypeOK

LEMMA RestingRuns ==
    /\ IdleRun \in Run
    /\ \A at \in Resting : [IdleRun EXCEPT !.at = at] \in Run
    /\ \A l \in Lanes : End(l) \in Run
  BY DEF IdleRun, Run, Resting, End, Nothing

LEMMA GoToType ==
    ASSUME TypeOK, NEW t \in Tabs, NEW l \in Lanes, NEW at, GoTo(t, l, at),
           \/ run[t][l].at \in Replaying /\ at \in Replaying
           \/ run[t][l].at \in Resting /\ at \in Resting
    PROVE  run' \in [Tabs -> [Lanes -> Run]]
  <1>1. run[t][l] \in Run
    BY RunParts
  <1>2. [run[t][l] EXCEPT !.at = at] \in Run
    BY <1>1 DEF Run, Resting, Replaying
  <1>3. run' = [run EXCEPT ![t][l] = [run[t][l] EXCEPT !.at = at]]
    BY DEF GoTo, TypeOK
  <1>4. QED
    BY <1>2, <1>3, RunMoves

LEMMA LoopType ==
    ASSUME TypeOK, NEW t \in Tabs, NEW l \in Lanes, NEW todo \in SUBSET Snapshot,
           Loop(t, l, todo)
    PROVE  run' \in [Tabs -> [Lanes -> Run]]
  <1>1. CASE run' = [run EXCEPT ![t][l] = [IdleRun EXCEPT !.at = "cleaning"]]
    <2>1. [IdleRun EXCEPT !.at = "cleaning"] \in Run
      BY RestingRuns DEF Resting
    <2>2. QED
      BY <1>1, <2>1, RunMoves
  <1>2. ASSUME NEW next \in todo,
               run' = [run EXCEPT ![t][l] =
                         [at |-> "marking", current |-> next, todo |-> todo \ {next}]]
        PROVE  run' \in [Tabs -> [Lanes -> Run]]
    <2>1. [at |-> "marking", current |-> next, todo |-> todo \ {next}] \in Run
      BY DEF Run, Replaying
    <2>2. QED
      BY <1>2, <2>1, RunMoves
  <1>3. QED
    BY <1>1, <1>2 DEF Loop

LEMMA AdvanceType ==
    ASSUME TypeOK, NEW t \in Tabs, NEW l \in Lanes, Advance(t, l)
    PROVE  run' \in [Tabs -> [Lanes -> Run]]
  BY RunParts, LoopType DEF Advance

LEMMA CallBecomesType ==
    ASSUME TypeOK, NEW m \in Mutations, NEW t \in Tabs,
           NEW at \in {"new", "sending", "adding", "done", "dead"}, CallBecomes(m, at, t)
    PROVE  calls' \in [Mutations -> Call]
  BY DEF CallBecomes, TypeOK, Call

(* What put() writes is a record. *)
LEMMA PutType ==
    ASSUME TypeOK, NEW m \in Mutations, NEW retries \in 0..MaxRetries,
           NEW status \in {"absent", "pending", "syncing", "failed"}, Put(m, status, retries)
    PROVE  store' \in [Mutations -> Record]
  BY DEF TypeOK, Put, Record

LEMMA RequestType ==
    ASSUME TypeOK, NEW m \in Mutations, NEW answer, Request(m, answer)
    PROVE  accepted' \in [Mutations -> 0..2]
  BY DEF TypeOK, Request

(* Showing the count keeps the types of the hook's state. *)
LEMMA ShowCountType ==
    ASSUME TypeOK, NEW t \in Tabs, ShowCount(t) \/ UNCHANGED <<count, effect>>
    PROVE  /\ count' \in [Tabs -> 0..Cardinality(Mutations)]
           /\ effect' \in [Tabs -> BOOLEAN]
  <1>1. CASE ShowCount(t)
    <2>1. count' \in [Tabs -> 0..Cardinality(Mutations)]
      BY <1>1, PendingBounded DEF ShowCount, TypeOK
    <2>2. (effect[t] \/ count[t] # Cardinality(Pending)) \in BOOLEAN
      BY DEF TypeOK
    <2>3. effect' = [effect EXCEPT ![t] = (effect[t] \/ count[t] # Cardinality(Pending))]
      BY <1>1 DEF ShowCount
    <2>4. effect' \in [Tabs -> BOOLEAN]
      BY <2>2, <2>3, Zenon DEF TypeOK
    <2>5. QED
      BY <2>1, <2>4
  <1>2. CASE UNCHANGED <<count, effect>>
    BY <1>2 DEF TypeOK
  <1>3. QED
    BY <1>1, <1>2

(* What a run of the hook or a listener starts with. *)
LEMMA StartRunType ==
    ASSUME TypeOK, NEW t \in Tabs, NEW l \in Lanes, StartRun(t, l)
    PROVE  run' \in [Tabs -> [Lanes -> Run]]
  <1>1. [IdleRun EXCEPT !.at = "reading"] \in Run
    BY RestingRuns DEF Resting
  <1>2. QED
    BY <1>1, RunMoves DEF StartRun

(* An IndexedDB transaction of a run puts a record back within the type. *)
LEMMA PutBackType ==
    ASSUME TypeOK, NEW s \in Snapshot, PutBack(s)
    PROVE  store' \in [Mutations -> Record]
  <1>1. s.id \in Mutations /\ s.retries \in 0..MaxRetries
    BY DEF Snapshot
  <1>2. CASE s.retries >= MaxRetries
    BY <1>1, <1>2, PutType DEF PutBack
  <1>3. CASE ~(s.retries >= MaxRetries)
    <2>1. s.retries + 1 \in 0..MaxRetries
      BY <1>1, <1>3
    <2>2. QED
      BY <1>1, <1>3, <2>1, PutType DEF PutBack
  <1>4. QED
    BY <1>2, <1>3

-----------------------------------------------------------------------------
(* Every step keeps the types. *)
LEMMA TypePreserved ==
    ASSUME TypeOK, [Next]_vars
    PROVE  TypeOK'
  <1> USE DEF queue, hooks, network, history
  <1>1. ASSUME NEW t \in Tabs, NEW m \in Mutations, Enqueue(t, m) PROVE TypeOK'
    BY <1>1 DEF Enqueue, CallBecomes, TypeOK, Call
  <1>2. ASSUME NEW t \in Tabs, NEW m \in Mutations, Send(t, m) PROVE TypeOK'
    <2>1. PICK answer : Request(m, answer) /\ CallBecomes(m, IF answer = "ok" THEN "done" ELSE "adding", t)
      BY <1>2 DEF Send
    <2>2. accepted' \in [Mutations -> 0..2]
      BY <2>1, RequestType
    <2>3. calls' \in [Mutations -> Call]
      BY <2>1 DEF CallBecomes, TypeOK, Call
    <2>4. QED
      BY <1>2, <2>2, <2>3 DEF Send, TypeOK
  <1>3. ASSUME NEW t \in Tabs, NEW m \in Mutations, Add(t, m) PROVE TypeOK'
    <2>1. store' \in [Mutations -> Record]
      BY <1>3 DEF Add, TypeOK, Record
    <2>2. createdAt' \in [Mutations -> Nat]
      BY <1>3, RankIsPositive DEF Add, TypeOK
    <2>3. calls' \in [Mutations -> Call]
      BY <1>3, CallBecomesType DEF Add
    <2>4. recount' \in [Tabs -> BOOLEAN]
      BY <1>3 DEF Add, TypeOK
    <2>5. QED
      BY <1>3, <2>1, <2>2, <2>3, <2>4 DEF Add, TypeOK
  <1>4. ASSUME NEW t \in Tabs, NEW m \in Mutations, ClearOne(t, m) PROVE TypeOK'
    <2> USE DEF queue
    <2>1. store' \in [Mutations -> Record]
      <3>1. Absent \in Record
        BY DEF Record, Absent
      <3>2. UNCHANGED store \/ store' = [store EXCEPT ![m] = Absent]
        BY <1>4 DEF ClearOne
      <3>3. QED
        BY <3>1, <3>2, Zenon DEF TypeOK
    <2>2. clearing' \in [Tabs -> SUBSET Mutations] /\ cleared' \in SUBSET Mutations
      BY <1>4 DEF ClearOne, TypeOK
    <2>3. recount' \in [Tabs -> BOOLEAN]
      <3>1. \/ recount' = [recount EXCEPT ![t] = (recount[t] \/ clearing'[t] = {})]
            \/ UNCHANGED recount
        BY <1>4 DEF ClearOne
      <3>2. (recount[t] \/ clearing'[t] = {}) \in BOOLEAN
        BY DEF TypeOK
      <3>3. QED
        BY <3>1, <3>2, Zenon DEF TypeOK
    <2>4. QED
      BY <1>4, <2>1, <2>2, <2>3 DEF ClearOne, TypeOK
  <1>5. ASSUME NEW t \in Tabs, NEW l \in Listeners, HandleOnline(t, l) PROVE TypeOK'
    <2>1. run' \in [Tabs -> [Lanes -> Run]]
      BY <1>5, StartRunType DEF HandleOnline, Lanes
    <2>2. ring' \in [Tabs -> BOOLEAN]
      BY <1>5, Zenon DEF HandleOnline, TypeOK
    <2>3. QED
      BY <1>5, <2>1, <2>2 DEF HandleOnline, TypeOK
  <1>6. ASSUME NEW t \in Tabs, NEW l \in Lanes, RunStep(t, l) PROVE TypeOK'
    <2> USE RunParts
    <2>1. CASE ReadPending(t, l)
      <3>1. {[id |-> m, retries |-> store[m].retries] : m \in Pending} \in SUBSET Snapshot
        BY DEF Pending, Snapshot, TypeOK, Record
      <3>2. run' \in [Tabs -> [Lanes -> Run]]
        BY <2>1, <3>1, LoopType, RestingRuns, RunMoves DEF ReadPending
      <3>3. QED
        BY <2>1, <3>2 DEF ReadPending, TypeOK
    <2>2. CASE MarkSyncing(t, l)
      <3>1. run[t][l].at \in Replaying
        BY <2>2 DEF MarkSyncing, Replaying
      <3>2. run' \in [Tabs -> [Lanes -> Run]]
        BY <2>2, <3>1, GoToType DEF MarkSyncing, Replaying
      <3>3. store' \in [Mutations -> Record]
        BY <2>2, <3>1, PutType DEF MarkSyncing, TypeOK
      <3>4. QED
        BY <2>2, <3>2, <3>3 DEF MarkSyncing, TypeOK
    <2>3. CASE Unmark(t, l)
      <3>1. run[t][l].at \in Replaying
        BY <2>3 DEF Unmark, Replaying
      <3>2. run' \in [Tabs -> [Lanes -> Run]]
        BY <2>3, AdvanceType DEF Unmark
      <3>3. store' \in [Mutations -> Record]
        BY <2>3, <3>1, PutType DEF Unmark, TypeOK
      <3>4. QED
        BY <2>3, <3>2, <3>3 DEF Unmark, TypeOK
    <2>4. CASE Replay(t, l)
      <3>1. run[t][l].at \in Replaying
        BY <2>4 DEF Replay, Replaying
      <3>2. PICK answer \in {"ok", "rejected", "errored"} :
               Request(Current(t, l).id, answer) /\ GoTo(t, l, answer)
        BY <2>4 DEF Replay
      <3>3. run' \in [Tabs -> [Lanes -> Run]]
        BY <3>1, <3>2, GoToType DEF Replaying
      <3>4. accepted' \in [Mutations -> 0..2]
        BY <3>1, <3>2, RequestType
      <3>5. attempts' \in [Mutations -> 0..(MaxRetries + 1)]
        <4>1. attempts[Current(t, l).id] \in 0..(MaxRetries + 1)
          BY <3>1 DEF TypeOK
        <4>2. (IF attempts[Current(t, l).id] <= MaxRetries THEN attempts[Current(t, l).id] + 1
                 ELSE attempts[Current(t, l).id]) \in 0..(MaxRetries + 1)
          BY <4>1
        <4>3. attempts' = [attempts EXCEPT ![Current(t, l).id] =
                 IF attempts[Current(t, l).id] <= MaxRetries THEN attempts[Current(t, l).id] + 1
                 ELSE attempts[Current(t, l).id]]
          BY <2>4 DEF Replay
        <4>4. QED
          BY <4>2, <4>3, Zenon DEF TypeOK
      <3>6. QED
        BY <2>4, <3>3, <3>4, <3>5 DEF Replay, TypeOK
    <2>5. CASE DeleteReplayed(t, l)
      <3>1. run[t][l].at \in Replaying
        BY <2>5 DEF DeleteReplayed, Replaying
      <3>2. run' \in [Tabs -> [Lanes -> Run]]
        BY <2>5, <3>1, AdvanceType, GoToType DEF DeleteReplayed, Replaying
      <3>3. store' \in [Mutations -> Record]
        <4>1. Absent \in Record
          BY DEF Record, Absent
        <4>2. UNCHANGED store \/ store' = [store EXCEPT ![Current(t, l).id] = Absent]
          BY <2>5 DEF DeleteReplayed
        <4>3. QED
          BY <4>1, <4>2, Zenon DEF TypeOK
      <3>4. QED
        BY <2>5, <3>2, <3>3 DEF DeleteReplayed, TypeOK
    <2>6. CASE Retry(t, l)
      <3>1. run[t][l].at \in Replaying
        BY <2>6 DEF Retry, Replaying
      <3>2. run' \in [Tabs -> [Lanes -> Run]]
        <4>1. CASE Advance(t, l)
          BY <4>1, AdvanceType
        <4>2. CASE GoTo(t, l, "errored")
          BY <3>1, <4>2, GoToType DEF Replaying
        <4>3. CASE Abort(t, l)
          BY <4>3, RestingRuns, RunMoves DEF Abort
        <4>4. QED
          BY <2>6, <4>1, <4>2, <4>3 DEF Retry
      <3>3. store' \in [Mutations -> Record]
        BY <2>6, <3>1, PutBackType DEF Retry, TypeOK
      <3>4. QED
        BY <2>6, <3>2, <3>3 DEF Retry, TypeOK
    <2>7. CASE ClearCompleted(t, l)
      <3>1. run' \in [Tabs -> [Lanes -> Run]]
        BY <2>7, RestingRuns, RunMoves DEF ClearCompleted
      <3>2. store' \in [Mutations -> Record]
        BY <2>7 DEF ClearCompleted, TypeOK, Record, Absent
      <3>3. QED
        BY <2>7, <3>1, <3>2 DEF ClearCompleted, TypeOK
    <2>8. CASE l = Hook /\ CountAfterSync(t)
      <3>1. run' \in [Tabs -> [Lanes -> Run]]
        BY <2>8, GoToType DEF CountAfterSync, Resting
      <3>2. /\ count' \in [Tabs -> 0..Cardinality(Mutations)]
            /\ effect' \in [Tabs -> BOOLEAN]
        BY <2>8, ShowCountType DEF CountAfterSync
      <3>3. QED
        BY <2>8, <3>1, <3>2 DEF CountAfterSync, TypeOK
    <2>9. CASE Hang(t, l)
      <3>1. run' \in [Tabs -> [Lanes -> Run]]
        BY <2>9, RestingRuns, RunMoves DEF Hang, Resting
      <3>2. QED
        BY <2>9, <3>1 DEF Hang, TypeOK
    <2>10. QED
      BY <1>6, <2>1, <2>2, <2>3, <2>4, <2>5, <2>6, <2>7, <2>8, <2>9 DEF RunStep
  <1>7. ASSUME NEW t \in Tabs, RefreshCount(t) PROVE TypeOK'
    <2>1. /\ count' \in [Tabs -> 0..Cardinality(Mutations)]
          /\ effect' \in [Tabs -> BOOLEAN]
      BY <1>7, ShowCountType DEF RefreshCount
    <2>2. recount' \in [Tabs -> BOOLEAN]
      BY <1>7, Zenon DEF RefreshCount, TypeOK
    <2>3. QED
      BY <1>7, <2>1, <2>2 DEF RefreshCount, TypeOK
  <1>8. ASSUME NEW t \in Tabs, AutoSync(t) PROVE TypeOK'
    <2>1. run' \in [Tabs -> [Lanes -> Run]]
      BY <1>8, StartRunType DEF AutoSync, Lanes, TypeOK
    <2>2. effect' \in [Tabs -> BOOLEAN]
      BY <1>8, Zenon DEF AutoSync, TypeOK
    <2>3. QED
      BY <1>8, <2>1, <2>2 DEF AutoSync, TypeOK
  <1>9. ASSUME NEW t \in Tabs, SyncNow(t) PROVE TypeOK'
    <2>1. run' \in [Tabs -> [Lanes -> Run]]
      BY <1>9, StartRunType DEF SyncNow, Lanes
    <2>2. QED
      BY <1>9, <2>1 DEF SyncNow, TypeOK
  <1>10. ASSUME NEW t \in Tabs, ClearQueue(t) PROVE TypeOK'
    <2>1. clearing' \in [Tabs -> SUBSET Mutations]
      BY <1>10 DEF ClearQueue, TypeOK
    <2>2. QED
      BY <1>10, <2>1 DEF ClearQueue, TypeOK
  <1>11. ASSUME NEW t \in Tabs, Reload(t) PROVE TypeOK'
    <2>1. run' \in [Tabs -> [Lanes -> Run]]
      BY <1>11, RestingRuns DEF Reload, TypeOK
    <2>2. calls' \in [Mutations -> Call]
      BY <1>11 DEF Reload, TypeOK, Call
    <2>3. count' \in [Tabs -> 0..Cardinality(Mutations)]
      <3>1. Cardinality(Mutations) \in Nat
        BY FS_CardinalityType, Zenon
      <3>2. QED
        BY <1>11, <3>1 DEF Reload, TypeOK
    <2>4. /\ recount' \in [Tabs -> BOOLEAN]
          /\ effect' \in [Tabs -> BOOLEAN]
          /\ ring' \in [Tabs -> BOOLEAN]
      BY <1>11, Zenon DEF Reload, TypeOK
    <2>5. clearing' \in [Tabs -> SUBSET Mutations]
      BY <1>11 DEF Reload, TypeOK
    <2>6. QED
      BY <1>11, <2>1, <2>2, <2>3, <2>4, <2>5 DEF Reload, TypeOK
  <1>12. CASE ConnectivityChanges
    <2>1. ring' \in [Tabs -> BOOLEAN] /\ effect' \in [Tabs -> BOOLEAN]
      BY <1>12, Zenon DEF ConnectivityChanges, TypeOK
    <2>2. online' \in BOOLEAN
      BY <1>12, Zenon DEF ConnectivityChanges, TypeOK
    <2>3. QED
      BY <1>12, <2>1, <2>2 DEF ConnectivityChanges, TypeOK
  <1>13. CASE ServerChanges
    <2>1. server' \in BOOLEAN
      BY <1>13, Zenon DEF ServerChanges, TypeOK
    <2>2. QED
      BY <1>13, <2>1 DEF ServerChanges, TypeOK
  <1>14. CASE UNCHANGED vars
    BY <1>14 DEF vars, TypeOK
  <1>15. QED
    BY <1>1, <1>2, <1>3, <1>4, <1>5, <1>6, <1>7, <1>8, <1>9, <1>10, <1>11, <1>12, <1>13,
       <1>14 DEF Next

LEMMA InitTyped ==
    ASSUME Init
    PROVE  TypeOK
  <1>1. run \in [Tabs -> [Lanes -> Run]]
    BY RestingRuns DEF Init
  <1>2. Cardinality(Mutations) \in Nat
    BY FS_CardinalityType, Zenon
  <1>3. QED
    BY <1>1, <1>2 DEF Init, TypeOK, Record, Absent, Call

(* Every variable stays within its type (TypeOK). *)
THEOREM TypeCorrect == Spec => []TypeOK
  <1>1. Init => TypeOK
    BY InitTyped
  <1>2. TypeOK /\ [Next]_vars => TypeOK'
    BY TypePreserved
  <1>3. QED
    BY <1>1, <1>2, PTL DEF Spec

-----------------------------------------------------------------------------
(***************************************************************************)
(* NotDroppedEarly.  What makes it inductive is that no retry count, in a  *)
(* record or in the snapshot of a run, is ahead of the replays made: so    *)
(* whoever finds the retries used up, with however old a snapshot, is      *)
(* right.                                                                  *)
(***************************************************************************)
RecordCovered(m) ==
    /\ store[m].retries <= attempts[m]
    /\ store[m].status = "failed" => attempts[m] = MaxRetries + 1

RunCovered(r) ==
    /\ \A s \in r.todo : s.retries <= attempts[s.id]
    /\ r.at \in Replaying => r.current.retries <= attempts[r.current.id]
    /\ r.at \in {"ok", "rejected", "errored"} => r.current.retries < attempts[r.current.id]
    /\ r.at = "ok" => accepted[r.current.id] > 0

Covered ==
    /\ \A m \in Mutations : RecordCovered(m)
    /\ \A t \in Tabs, l \in Lanes : RunCovered(run[t][l])

Excused(m) == accepted[m] > 0 \/ m \in cleared \/ attempts[m] = MaxRetries + 1

KeptInv == TypeOK /\ Covered /\ NotDroppedEarly

(* What is known of the past of a mutation only grows. *)
LEMMA HistoryGrows ==
    ASSUME TypeOK, [Next]_vars, NEW m \in Mutations
    PROVE  /\ attempts[m] \in 0..(MaxRetries + 1) /\ attempts'[m] \in 0..(MaxRetries + 1)
           /\ attempts[m] <= attempts'[m]
           /\ accepted[m] > 0 => accepted'[m] > 0
           /\ Excused(m) => Excused(m)'
  <1> USE DEF queue, hooks, network, history
  <1>1. TypeOK'
    BY TypePreserved
  <1>2. ASSUME NEW x \in Mutations, NEW answer, Request(x, answer)
        PROVE  accepted[m] > 0 => accepted'[m] > 0
    <2>1. accepted[m] \in 0..2 /\ accepted[x] \in 0..2
      BY DEF TypeOK
    <2>2. \/ accepted' = [accepted EXCEPT ![x] = IF @ < 2 THEN @ + 1 ELSE 2]
          \/ UNCHANGED accepted
      BY <1>2 DEF Request
    <2>3. accepted'[m] = accepted[m] \/ accepted'[m] > 0
      BY <2>1, <2>2 DEF TypeOK
    <2>4. QED
      BY <2>3
  <1>3. ASSUME NEW t \in Tabs, NEW l \in Lanes, Replay(t, l)
        PROVE  /\ attempts[m] <= attempts'[m]
               /\ accepted[m] > 0 => accepted'[m] > 0
               /\ UNCHANGED cleared
    <2>1. Current(t, l).id \in Mutations
      BY <1>3, RunParts DEF Replay, Replaying
    <2>2. accepted[m] > 0 => accepted'[m] > 0
      BY <1>3, <2>1, <1>2 DEF Replay
    <2>3. attempts[m] <= attempts'[m]
      BY <1>3, <2>1 DEF Replay, TypeOK
    <2>4. QED
      BY <1>3, <2>2, <2>3 DEF Replay
  <1>4. ASSUME NEW t \in Tabs, NEW x \in Mutations, Send(t, x)
        PROVE  /\ accepted[m] > 0 => accepted'[m] > 0
               /\ UNCHANGED <<attempts, cleared>>
    BY <1>4, <1>2 DEF Send
  <1>5. ASSUME NEW t \in Tabs, NEW x \in Mutations, ClearOne(t, x)
        PROVE  /\ m \in cleared => m \in cleared'
               /\ UNCHANGED <<attempts, accepted>>
    BY <1>5 DEF ClearOne
  <1>6. \/ \E t \in Tabs, l \in Lanes : Replay(t, l)
        \/ \E t \in Tabs, x \in Mutations : Send(t, x) \/ ClearOne(t, x)
        \/ UNCHANGED history
    <2>1. ASSUME NEW t \in Tabs, NEW l \in Lanes, RunStep(t, l)
          PROVE  Replay(t, l) \/ UNCHANGED history
      BY <2>1, Zenon DEF RunStep, ReadPending, MarkSyncing, Unmark, DeleteReplayed, Retry,
                         ClearCompleted, CountAfterSync, Hang
    <2>2. ASSUME NEW t \in Tabs, NEW x \in Mutations, Enqueue(t, x) \/ Add(t, x)
          PROVE  UNCHANGED history
      BY <2>2 DEF Enqueue, Add
    <2>3. ASSUME NEW t \in Tabs, NEW l \in Listeners, HandleOnline(t, l)
          PROVE  UNCHANGED history
      BY <2>3 DEF HandleOnline
    <2>4. ASSUME NEW t \in Tabs,
                 RefreshCount(t) \/ AutoSync(t) \/ SyncNow(t) \/ ClearQueue(t) \/ Reload(t)
          PROVE  UNCHANGED history
      BY <2>4 DEF RefreshCount, AutoSync, SyncNow, ClearQueue, Reload
    <2>5. ASSUME ConnectivityChanges \/ ServerChanges \/ UNCHANGED vars
          PROVE  UNCHANGED history
      BY <2>5 DEF ConnectivityChanges, ServerChanges, vars
    <2>6. QED
      BY <2>1, <2>2, <2>3, <2>4, <2>5, Zenon DEF Next
  <1>7. /\ attempts[m] <= attempts'[m]
        /\ accepted[m] > 0 => accepted'[m] > 0
        /\ m \in cleared => m \in cleared'
    BY <1>1, <1>3, <1>4, <1>5, <1>6 DEF TypeOK
  <1>8. QED
    BY <1>1, <1>7 DEF TypeOK, Excused

(* A run that does not move stays covered. *)
LEMMA CoverageLasts ==
    ASSUME TypeOK, [Next]_vars, NEW r \in Run, RunCovered(r)
    PROVE  RunCovered(r)'
  <1>1. \A s \in r.todo : s \in Snapshot
    BY DEF Run
  <1>2. r.at \in Replaying => r.current \in Snapshot
    BY DEF Run, Resting, Replaying
  <1>3. \A s \in Snapshot : /\ s.id \in Mutations /\ s.retries \in Nat
                            /\ attempts[s.id] <= attempts'[s.id]
                            /\ attempts[s.id] \in Nat /\ attempts'[s.id] \in Nat
                            /\ accepted[s.id] > 0 => accepted'[s.id] > 0
    BY HistoryGrows DEF Snapshot
  <1>4. \A s \in r.todo : s.retries <= attempts'[s.id]
    BY <1>1, <1>3 DEF RunCovered
  <1>5. r.at \in Replaying => r.current.retries <= attempts'[r.current.id]
    BY <1>2, <1>3 DEF RunCovered
  <1>6. r.at \in {"ok", "rejected", "errored"} => r.current.retries < attempts'[r.current.id]
    BY <1>2, <1>3 DEF RunCovered, Replaying
  <1>7. r.at = "ok" => accepted'[r.current.id] > 0
    BY <1>2, <1>3 DEF RunCovered, Replaying
  <1>8. QED
    BY <1>4, <1>5, <1>6, <1>7 DEF RunCovered

(* One run moves, to a state that is covered. *)
LEMMA OneRunMoves ==
    ASSUME TypeOK, [Next]_vars, Covered, NEW t \in Tabs, NEW l \in Lanes, NEW r \in Run,
           run' = [run EXCEPT ![t][l] = r], RunCovered(r)'
    PROVE  \A u \in Tabs, k \in Lanes : RunCovered(run[u][k])'
  <1> SUFFICES ASSUME NEW u \in Tabs, NEW k \in Lanes
               PROVE  RunCovered(run[u][k])'
    OBVIOUS
  <1>1. run'[u][k] = IF u = t /\ k = l THEN r ELSE run[u][k]
    BY DEF TypeOK
  <1>2. RunCovered(run[u][k]) /\ run[u][k] \in Run
    BY RunParts DEF Covered
  <1>3. CASE u = t /\ k = l
    BY <1>1, <1>3 DEF RunCovered
  <1>4. CASE ~(u = t /\ k = l)
    <2>1. run'[u][k] = run[u][k]
      BY <1>1, <1>4
    <2>2. \A q \in Run : RunCovered(q) => RunCovered(q)'
      BY CoverageLasts
    <2>3. QED
      BY <1>2, <2>1, <2>2 DEF RunCovered
  <1>5. QED
    BY <1>3, <1>4

LEMMA RestingCovered ==
    /\ RunCovered(IdleRun)'
    /\ \A at \in Resting : RunCovered([IdleRun EXCEPT !.at = at])'
    /\ \A l \in Lanes : RunCovered(End(l))'
  BY DEF RunCovered, IdleRun, Resting, Replaying, End

LEMMA LoopCovered ==
    ASSUME TypeOK, [Next]_vars, Covered, NEW t \in Tabs, NEW l \in Lanes,
           NEW todo \in SUBSET Snapshot, Loop(t, l, todo),
           \A s \in todo : s.retries <= attempts'[s.id]
    PROVE  \A u \in Tabs, k \in Lanes : RunCovered(run[u][k])'
  <1>1. CASE run' = [run EXCEPT ![t][l] = [IdleRun EXCEPT !.at = "cleaning"]]
    <2>1. "cleaning" \in Resting
      BY DEF Resting
    <2>2. QED
      BY <1>1, <2>1, RestingRuns, RestingCovered, OneRunMoves
  <1>2. ASSUME NEW next \in todo,
               run' = [run EXCEPT ![t][l] =
                         [at |-> "marking", current |-> next, todo |-> todo \ {next}]]
        PROVE  \A u \in Tabs, k \in Lanes : RunCovered(run[u][k])'
    <2>1. [at |-> "marking", current |-> next, todo |-> todo \ {next}] \in Run
      BY DEF Run, Replaying
    <2>2. RunCovered([at |-> "marking", current |-> next, todo |-> todo \ {next}])'
      BY DEF RunCovered
    <2>3. QED
      BY <1>2, <2>1, <2>2, OneRunMoves
  <1>3. QED
    BY <1>1, <1>2 DEF Loop

LEMMA AdvanceCovered ==
    ASSUME TypeOK, [Next]_vars, Covered, NEW t \in Tabs, NEW l \in Lanes, Advance(t, l)
    PROVE  \A u \in Tabs, k \in Lanes : RunCovered(run[u][k])'
  <1>1. run[t][l] \in Run /\ run[t][l].todo \in SUBSET Snapshot
    BY RunParts
  <1>2. \A r \in Run : RunCovered(r) => \A s \in r.todo : s.retries <= attempts'[s.id]
    BY CoverageLasts DEF RunCovered
  <1>3. QED
    BY <1>1, <1>2, LoopCovered DEF Advance, Covered

(* A run that goes from one step with its mutation to the next. *)
LEMMA GoToCovered ==
    ASSUME TypeOK, [Next]_vars, Covered, NEW t \in Tabs, NEW l \in Lanes,
           NEW at \in Replaying, GoTo(t, l, at), run[t][l].at \in Replaying,
           at \in {"ok", "rejected", "errored"} =>
              Current(t, l).retries < attempts'[Current(t, l).id],
           at = "ok" => accepted'[Current(t, l).id] > 0
    PROVE  \A u \in Tabs, k \in Lanes : RunCovered(run[u][k])'
  <1>1. run[t][l] \in Run /\ RunCovered(run[t][l])
    BY RunParts DEF Covered
  <1>2. PICK r \in Run : /\ r = [run[t][l] EXCEPT !.at = at]
                         /\ r.todo = run[t][l].todo
                         /\ r.current = run[t][l].current
                         /\ r.at = at
    <2> DEFINE q == [run[t][l] EXCEPT !.at = at]
    <2>1. q \in Run
      BY <1>1 DEF Run, Resting, Replaying
    <2>2. q.todo = run[t][l].todo /\ q.current = run[t][l].current /\ q.at = at
      BY <1>1 DEF Run, Resting, Replaying
    <2>3. WITNESS q \in Run
    <2>4. QED
      BY <2>2
  <1>3. run' = [run EXCEPT ![t][l] = r]
    BY <1>2 DEF GoTo, TypeOK
  <1>4. \A q \in Run : RunCovered(q) =>
           /\ \A s \in q.todo : s.retries <= attempts'[s.id]
           /\ q.at \in Replaying => q.current.retries <= attempts'[q.current.id]
    BY CoverageLasts DEF RunCovered
  <1>5. RunCovered(r)'
    BY <1>1, <1>2, <1>4 DEF RunCovered, Current
  <1>6. QED
    BY <1>3, <1>5, OneRunMoves

(* Every step keeps the runs covered. *)
LEMMA RunsStayCovered ==
    ASSUME TypeOK, [Next]_vars, Covered
    PROVE  \A u \in Tabs, k \in Lanes : RunCovered(run[u][k])'
  <1> DEFINE Goal == \A u \in Tabs, k \in Lanes : RunCovered(run[u][k])'
  <1>1. ASSUME UNCHANGED run PROVE Goal
    <2>1. \A r \in Run : RunCovered(r) => RunCovered(r)'
      BY CoverageLasts
    <2>2. \A u \in Tabs, k \in Lanes : run[u][k] \in Run /\ RunCovered(run[u][k])
      BY RunParts DEF Covered
    <2>3. QED
      BY <1>1, <2>1, <2>2 DEF RunCovered
  <1>2. ASSUME NEW t \in Tabs, NEW l \in Lanes, StartRun(t, l) PROVE Goal
    <2>1. "reading" \in Resting
      BY DEF Resting
    <2>2. QED
      BY <1>2, <2>1, RestingRuns, RestingCovered, OneRunMoves DEF StartRun
  <1>3. ASSUME NEW t \in Tabs, NEW l \in Lanes, RunStep(t, l) PROVE Goal
    <2>1. CASE ReadPending(t, l)
      <3> DEFINE todo == {[id |-> m, retries |-> store[m].retries] : m \in Pending}
      <3>1. todo \in SUBSET Snapshot
        BY DEF Pending, Snapshot, TypeOK, Record
      <3>2. ASSUME NEW m \in Mutations PROVE store[m].retries <= attempts'[m]
        <4>1. store[m].retries <= attempts[m] /\ store[m].retries \in Nat
          BY DEF Covered, RecordCovered, TypeOK, Record
        <4>2. QED
          BY <4>1, HistoryGrows
      <3>3. \A s \in todo : s.retries <= attempts'[s.id]
        BY <3>2 DEF Pending
      <3>4. CASE Loop(t, l, todo)
        <4> HIDE DEF todo
        <4>1. QED
          BY <3>1, <3>3, <3>4, LoopCovered
      <3>5. CASE run' = [run EXCEPT ![t][l] = End(l)]
        BY <3>5, RestingRuns, RestingCovered, OneRunMoves
      <3>6. QED
        BY <2>1, <3>4, <3>5 DEF ReadPending
    <2>2. CASE MarkSyncing(t, l)
      BY <2>2, GoToCovered DEF MarkSyncing, Replaying
    <2>3. CASE Unmark(t, l)
      BY <2>3, AdvanceCovered DEF Unmark
    <2>4. CASE Replay(t, l)
      <3>1. run[t][l].at \in Replaying
        BY <2>4 DEF Replay, Replaying
      <3>2. PICK answer \in {"ok", "rejected", "errored"} :
               Request(Current(t, l).id, answer) /\ GoTo(t, l, answer)
        BY <2>4 DEF Replay
      <3>3. Current(t, l).id \in Mutations /\ Current(t, l).retries \in 0..MaxRetries
        BY <3>1, RunParts
      <3>4. Current(t, l).retries < attempts'[Current(t, l).id]
        <4>1. Current(t, l).retries <= attempts[Current(t, l).id]
          BY <3>1 DEF Covered, RunCovered, Current
        <4>2. attempts[Current(t, l).id] \in 0..(MaxRetries + 1)
          BY <3>3 DEF TypeOK
        <4>3. attempts'[Current(t, l).id] = IF attempts[Current(t, l).id] <= MaxRetries
                                              THEN attempts[Current(t, l).id] + 1
                                              ELSE attempts[Current(t, l).id]
          BY <2>4, <3>3 DEF Replay, TypeOK
        <4>4. QED
          BY <3>3, <4>1, <4>2, <4>3
      <3>5. answer = "ok" => accepted'[Current(t, l).id] > 0
        <4>1. accepted[Current(t, l).id] \in 0..2
          BY <3>3 DEF TypeOK
        <4>2. answer = "ok" => accepted' = [accepted EXCEPT ![Current(t, l).id] =
                                              IF @ < 2 THEN @ + 1 ELSE 2]
          BY <3>2 DEF Request
        <4>3. QED
          BY <3>3, <4>1, <4>2 DEF TypeOK
      <3>6. QED
        BY <3>1, <3>2, <3>4, <3>5, GoToCovered DEF Replaying
    <2>5. CASE DeleteReplayed(t, l)
      <3>1. CASE Advance(t, l)
        BY <3>1, AdvanceCovered
      <3>2. CASE GoTo(t, l, "errored")
        <4>1. run[t][l].at = "ok"
          BY <2>5 DEF DeleteReplayed
        <4>2. Current(t, l).retries < attempts'[Current(t, l).id]
          <5>1. run[t][l] \in Run /\ RunCovered(run[t][l])
            BY RunParts DEF Covered
          <5>2. RunCovered(run[t][l]) => Current(t, l).retries < attempts[Current(t, l).id]
            BY <4>1 DEF RunCovered, Current
          <5>3. UNCHANGED attempts
            BY <2>5 DEF DeleteReplayed, history
          <5>4. QED
            BY <5>1, <5>2, <5>3 DEF Current
        <4>3. QED
          BY <3>2, <4>1, <4>2, GoToCovered DEF Replaying
      <3>3. QED
        BY <2>5, <3>1, <3>2 DEF DeleteReplayed
    <2>6. CASE Retry(t, l)
      <3>1. CASE Advance(t, l)
        BY <3>1, AdvanceCovered
      <3>2. CASE run[t][l].at = "rejected" /\ GoTo(t, l, "errored")
        <4>1. Current(t, l).retries < attempts[Current(t, l).id]
          BY <3>2 DEF Covered, RunCovered, Current
        <4>2. UNCHANGED attempts
          BY <2>6 DEF Retry, history
        <4>3. Current(t, l).retries < attempts'[Current(t, l).id]
          BY <4>1, <4>2 DEF Current
        <4>4. QED
          BY <3>2, <4>3, GoToCovered DEF Replaying
      <3>3. CASE Abort(t, l)
        BY <3>3, RestingRuns, RestingCovered, OneRunMoves DEF Abort
      <3>4. QED
        BY <2>6, <3>1, <3>2, <3>3 DEF Retry
    <2>7. CASE ClearCompleted(t, l)
      BY <2>7, RestingRuns, RestingCovered, OneRunMoves DEF ClearCompleted
    <2>8. CASE l = Hook /\ CountAfterSync(t)
      <3>1. run[t][l] \in Run /\ run[t][l].at = "counting"
        BY <2>8, RunParts DEF CountAfterSync
      <3>2. [run[t][l] EXCEPT !.at = "idle"] = IdleRun
        BY <3>1 DEF Run, Resting, Replaying, IdleRun
      <3>3. run' = [run EXCEPT ![t][l] = IdleRun]
        BY <2>8, <3>2 DEF CountAfterSync, GoTo, TypeOK
      <3>4. QED
        BY <3>3, RestingRuns, RestingCovered, OneRunMoves
    <2>9. CASE Hang(t, l)
      BY <2>9, RestingRuns, RestingCovered, OneRunMoves DEF Hang, Resting
    <2>10. QED
      BY <1>3, <2>1, <2>2, <2>3, <2>4, <2>5, <2>6, <2>7, <2>8, <2>9 DEF RunStep
  <1>4. ASSUME NEW t \in Tabs, Reload(t) PROVE Goal
    <2>1. \A u \in Tabs, k \in Lanes : run'[u][k] = IF u = t THEN IdleRun ELSE run[u][k]
      BY <1>4 DEF Reload, TypeOK
    <2>2. \A r \in Run : RunCovered(r) => RunCovered(r)'
      BY CoverageLasts
    <2>3. \A u \in Tabs, k \in Lanes : run[u][k] \in Run /\ RunCovered(run[u][k])
      BY RunParts DEF Covered
    <2>4. QED
      BY <2>1, <2>2, <2>3, RestingCovered DEF RunCovered
  <1>5. \/ UNCHANGED run
        \/ \E t \in Tabs, l \in Lanes : StartRun(t, l) \/ RunStep(t, l)
        \/ \E t \in Tabs : Reload(t)
    BY DEF Next, vars, Enqueue, Send, Add, ClearOne, HandleOnline, RefreshCount, AutoSync,
           SyncNow, ClearQueue, ConnectivityChanges, ServerChanges, Lanes
  <1> HIDE DEF Goal
  <1>6. Goal
    BY <1>1, <1>2, <1>3, <1>4, <1>5
  <1>7. QED
    BY <1>6 DEF Goal

(***************************************************************************)
(* What a step can make of the record of a mutation: it is written with a  *)
(* count that replays cover, given up when they are used up, or deleted    *)
(* with a reason.                                                          *)
(***************************************************************************)
WrittenCovered(m) ==
    /\ store'[m].status \in {"pending", "syncing", "failed"}
    /\ store'[m].retries <= attempts[m]
    /\ store'[m].status = "failed" => attempts[m] = MaxRetries + 1

DeletedExcused(m) == store'[m] = Absent /\ Excused(m)'

RecordBecomes(m) == store'[m] = store[m] \/ WrittenCovered(m) \/ DeletedExcused(m)

LEMMA RunStepOnRecords ==
    ASSUME TypeOK, [Next]_vars, Covered, NEW t \in Tabs, NEW l \in Lanes, RunStep(t, l),
           NEW m \in Mutations
    PROVE  RecordBecomes(m)
  <1> DEFINE c == Current(t, l)
  <1> USE DEF history
  <1>1. run[t][l].at \in Replaying => /\ c \in Snapshot /\ c.id \in Mutations
                                      /\ c.retries \in 0..MaxRetries
                                      /\ c.retries <= attempts[c.id]
    BY RunParts DEF Covered, RunCovered, Current
  <1>2. /\ attempts[m] \in 0..(MaxRetries + 1)
        /\ Excused(m) => Excused(m)'
    BY HistoryGrows
  <1>3. ASSUME run[t][l].at \in Replaying,
               NEW status \in {"pending", "syncing"}, Put(c.id, status, c.retries)
        PROVE  RecordBecomes(m)
    BY <1>1, <1>3 DEF Put, RecordBecomes, WrittenCovered, TypeOK
  <1> HIDE DEF c
  <1>4. CASE MarkSyncing(t, l)
    BY <1>3, <1>4 DEF MarkSyncing, Replaying, RecordBecomes, c
  <1>5. CASE Unmark(t, l)
    BY <1>3, <1>5 DEF Unmark, Replaying, RecordBecomes, c
  <1>6. CASE DeleteReplayed(t, l)
    <2>1. c.id \in Mutations /\ accepted[c.id] > 0
      BY <1>1, <1>6 DEF DeleteReplayed, Replaying, Covered, RunCovered, Current, c
    <2>2. m = c.id => Excused(m)
      BY <2>1 DEF Excused
    <2>3. UNCHANGED store \/ store' = [store EXCEPT ![c.id] = Absent]
      BY <1>6 DEF DeleteReplayed, c
    <2>4. QED
      BY <1>2, <2>1, <2>2, <2>3 DEF RecordBecomes, DeletedExcused, TypeOK
  <1>7. CASE Retry(t, l)
    <2>1. /\ c \in Snapshot /\ c.id \in Mutations /\ c.retries \in 0..MaxRetries
          /\ c.retries < attempts[c.id]
      BY <1>1, <1>7 DEF Retry, Replaying, Covered, RunCovered, Current, c
    <2>2. CASE UNCHANGED store
      BY <2>2 DEF RecordBecomes
    <2>3. CASE PutBack(c) /\ c.retries >= MaxRetries
      <3>1. store' = [store EXCEPT ![c.id] = [status |-> "failed", retries |-> c.retries]]
        BY <2>3 DEF PutBack, Put
      <3>2. attempts[c.id] \in 0..(MaxRetries + 1)
        BY <2>1 DEF TypeOK
      <3>3. attempts[c.id] = MaxRetries + 1
        BY <2>1, <2>3, <3>2
      <3>4. QED
        BY <2>1, <3>1, <3>3 DEF RecordBecomes, WrittenCovered, TypeOK
    <2>4. CASE PutBack(c) /\ ~(c.retries >= MaxRetries)
      <3>1. store' = [store EXCEPT ![c.id] = [status |-> "pending", retries |-> c.retries + 1]]
        BY <2>4 DEF PutBack, Put
      <3>2. attempts[c.id] \in 0..(MaxRetries + 1)
        BY <2>1 DEF TypeOK
      <3>3. c.retries + 1 <= attempts[c.id]
        BY <2>1, <3>2
      <3>4. QED
        BY <2>1, <3>1, <3>3 DEF RecordBecomes, WrittenCovered, TypeOK
    <2>5. QED
      BY <1>7, <2>2, <2>3, <2>4 DEF Retry, c
  <1>8. CASE ClearCompleted(t, l)
    <2>1. store[m].status = "failed" => Excused(m)
      BY DEF Covered, RecordCovered, Excused
    <2>2. \/ store'[m] = store[m]
          \/ store[m].status = "failed" /\ store'[m] = Absent
      BY <1>8 DEF ClearCompleted
    <2>3. QED
      BY <1>2, <2>1, <2>2 DEF RecordBecomes, DeletedExcused
  <1>9. CASE ReadPending(t, l) \/ Replay(t, l) \/ Hang(t, l) \/ (l = Hook /\ CountAfterSync(t))
    BY <1>9 DEF ReadPending, Replay, Hang, CountAfterSync, queue, RecordBecomes
  <1>10. QED
    BY <1>4, <1>5, <1>6, <1>7, <1>8, <1>9 DEF RunStep

LEMMA StepOnRecords ==
    ASSUME TypeOK, [Next]_vars, Covered, NEW m \in Mutations
    PROVE  RecordBecomes(m) /\ (Queued(m)' => Queued(m) \/ store'[m].status = "pending")
  <1>1. attempts[m] \in 0..(MaxRetries + 1)
    BY HistoryGrows
  <1>2. ASSUME NEW t \in Tabs, NEW x \in Mutations, Add(t, x)
        PROVE  RecordBecomes(m) /\ (Queued(m)' => Queued(m) \/ store'[m].status = "pending")
    <2>1. CASE UNCHANGED queue
      BY <2>1 DEF queue, RecordBecomes, Queued
    <2>2. CASE /\ store' = [store EXCEPT ![x] = [status |-> "pending", retries |-> 0]]
               /\ createdAt' = [createdAt EXCEPT ![x] =
                                  Cardinality({y \in Mutations : Queued(y)}) + 1]
      <3>1. CASE m = x
        <4>1. store'[m] = [status |-> "pending", retries |-> 0]
          BY <2>2, <3>1 DEF TypeOK
        <4>2. QED
          BY <1>1, <4>1 DEF RecordBecomes, WrittenCovered
      <3>2. CASE m # x
        <4>1. store'[m] = store[m] /\ createdAt'[m] = createdAt[m]
          BY <2>2, <3>2 DEF TypeOK
        <4>2. QED
          BY <4>1 DEF RecordBecomes, Queued
      <3>3. QED
        BY <3>1, <3>2
    <2>3. QED
      BY <1>2, <2>1, <2>2 DEF Add
  <1>3. ASSUME NEW t \in Tabs, NEW x \in Mutations, ClearOne(t, x)
        PROVE  RecordBecomes(m) /\ UNCHANGED createdAt
    <2>0. CASE UNCHANGED store
      BY <1>3, <2>0 DEF ClearOne, RecordBecomes
    <2>1. CASE m = x /\ ~UNCHANGED store
      <3>1. store'[m] = Absent /\ m \in cleared'
        BY <1>3, <2>1 DEF ClearOne, TypeOK
      <3>2. QED
        BY <1>3, <3>1 DEF RecordBecomes, DeletedExcused, Excused, ClearOne
    <2>2. CASE m # x
      BY <1>3, <2>2 DEF ClearOne, RecordBecomes, TypeOK
    <2>3. QED
      BY <1>3, <2>0, <2>1, <2>2 DEF ClearOne
  <1>4. ASSUME NEW t \in Tabs, NEW l \in Lanes, RunStep(t, l)
        PROVE  RecordBecomes(m) /\ UNCHANGED createdAt
    <2>1. RecordBecomes(m)
      BY <1>4, RunStepOnRecords
    <2>2. UNCHANGED createdAt
      BY <1>4 DEF RunStep, ReadPending, MarkSyncing, Unmark, Replay, DeleteReplayed, Retry,
                  ClearCompleted, Hang, CountAfterSync, queue
    <2>3. QED
      BY <2>1, <2>2
  <1>5. \/ UNCHANGED queue
        \/ \E t \in Tabs, x \in Mutations : Add(t, x) \/ ClearOne(t, x)
        \/ \E t \in Tabs, l \in Lanes : RunStep(t, l)
    BY DEF Next, vars, Enqueue, Send, HandleOnline, RefreshCount, AutoSync, SyncNow,
           ClearQueue, Reload, ConnectivityChanges, ServerChanges, queue
  <1>6. UNCHANGED queue => RecordBecomes(m) /\ UNCHANGED createdAt
    BY DEF queue, RecordBecomes
  <1>7. QED
    BY <1>2, <1>3, <1>4, <1>5, <1>6 DEF Queued

(* Every step keeps the invariant. *)
LEMMA KeptPreserved ==
    ASSUME KeptInv, [Next]_vars
    PROVE  KeptInv'
  <1> USE DEF KeptInv
  <1>1. TypeOK'
    BY TypePreserved
  <1>2. \A u \in Tabs, k \in Lanes : RunCovered(run[u][k])'
    BY RunsStayCovered
  <1>3. ASSUME NEW m \in Mutations
        PROVE  /\ RecordCovered(m)'
               /\ (Queued(m) /\ store[m] = Absent => Excused(m))'
    <2>1. RecordBecomes(m) /\ (Queued(m)' => Queued(m) \/ store'[m].status = "pending")
      BY StepOnRecords
    <2>2. /\ attempts[m] \in 0..(MaxRetries + 1) /\ attempts'[m] \in 0..(MaxRetries + 1)
          /\ attempts[m] <= attempts'[m]
          /\ Excused(m) => Excused(m)'
      BY HistoryGrows
    <2>3. CASE store'[m] = store[m]
      <3>1. store[m].retries \in Nat /\ RecordCovered(m)
        BY DEF TypeOK, Record, Covered
      <3>2. RecordCovered(m)'
        BY <2>2, <2>3, <3>1 DEF RecordCovered
      <3>3. store[m] = Absent => store'[m].status # "pending"
        BY <2>3 DEF Absent
      <3>4. Queued(m) /\ store[m] = Absent => Excused(m)
        BY DEF NotDroppedEarly, Excused
      <3>5. QED
        BY <2>1, <2>2, <2>3, <3>2, <3>3, <3>4
    <2>4. CASE WrittenCovered(m)
      <3>1. store'[m].retries \in Nat
        BY <1>1 DEF TypeOK, Record
      <3>2. RecordCovered(m)'
        BY <2>2, <2>4, <3>1 DEF RecordCovered, WrittenCovered
      <3>3. store'[m] # Absent
        BY <2>4 DEF WrittenCovered, Absent
      <3>4. QED
        BY <3>2, <3>3
    <2>5. CASE DeletedExcused(m)
      BY <2>2, <2>5 DEF RecordCovered, DeletedExcused, Absent
    <2>6. QED
      BY <2>1, <2>3, <2>4, <2>5 DEF RecordBecomes
  <1>4. Covered'
    BY <1>2, <1>3 DEF Covered
  <1>5. NotDroppedEarly'
    BY <1>3 DEF NotDroppedEarly, Excused
  <1>6. QED
    BY <1>1, <1>4, <1>5

(***************************************************************************)
(* A queued mutation leaves the store only when the server has accepted    *)
(* it, the user has cleared it or all its replays were made, in every      *)
(* interleaving of runs, tabs, reloads and failing transactions            *)
(* (NotDroppedEarly).                                                      *)
(***************************************************************************)
THEOREM KeptUntilUsedUp == Spec => []NotDroppedEarly
  <1>1. Init => KeptInv
    <2> SUFFICES ASSUME Init PROVE KeptInv
      OBVIOUS
    <2>1. TypeOK
      BY InitTyped
    <2>2. Covered
      BY DEF Init, Covered, RecordCovered, RunCovered, Absent, IdleRun, Replaying
    <2>3. NotDroppedEarly
      BY DEF Init, NotDroppedEarly, Queued
    <2>4. QED
      BY <2>1, <2>2, <2>3 DEF KeptInv
  <1>2. KeptInv /\ [Next]_vars => KeptInv'
    BY KeptPreserved
  <1>3. KeptInv => NotDroppedEarly
    BY DEF KeptInv
  <1>4. QED
    BY <1>1, <1>2, <1>3, PTL DEF Spec

-----------------------------------------------------------------------------
(***************************************************************************)
(* AcceptedOnce, under OneRunAtATime.  A mutation that the server accepted *)
(* is not pending, and the run that would replay it knows: it is no longer *)
(* among those to come, and the run is past its request.                   *)
(***************************************************************************)
Fresh(m) == calls[m].at \in {"new", "sending", "adding"}

MutationOnce(m) ==
    /\ accepted[m] <= 1
    /\ Fresh(m) => accepted[m] = 0 /\ store[m].status = "absent"
    /\ accepted[m] > 0 => store[m].status # "pending"

RunOnce(r) ==
    /\ \A s \in r.todo : /\ ~Fresh(s.id)
                         /\ accepted[s.id] = 0
                         /\ \A x \in r.todo : x.id = s.id => x = s
    /\ r.at \in Replaying => /\ ~Fresh(r.current.id)
                             /\ \A s \in r.todo : s.id # r.current.id
    /\ r.at \in Replaying \ {"ok"} => accepted[r.current.id] = 0
    /\ r.at = "fetching" => store[r.current.id].status # "pending"

OnceInv ==
    /\ TypeOK
    /\ \A m \in Mutations : MutationOnce(m)
    /\ \A t \in Tabs, l \in Lanes : RunOnce(run[t][l])

(* A run that does not move: others may only touch mutations it does not hold. *)
LEMMA RunUndisturbed ==
    ASSUME NEW r \in Run, RunOnce(r),
           \A m \in Mutations : ~Fresh(m) =>
              /\ ~Fresh(m)'
              /\ accepted'[m] = accepted[m]
              /\ store'[m] = store[m] \/ store'[m] = Absent
    PROVE  RunOnce(r)'
  <1>1. \A s \in r.todo : s.id \in Mutations
    BY DEF Run, Snapshot
  <1>2. r.at \in Replaying => r.current.id \in Mutations
    BY DEF Run, Snapshot, Resting, Replaying
  <1>3. \A s \in r.todo : /\ ~Fresh(s.id)'
                          /\ accepted'[s.id] = 0
                          /\ \A x \in r.todo : x.id = s.id => x = s
    BY <1>1 DEF RunOnce
  <1>4. r.at \in Replaying => /\ ~Fresh(r.current.id)'
                              /\ \A s \in r.todo : s.id # r.current.id
    BY <1>2 DEF RunOnce
  <1>5. r.at \in Replaying \ {"ok"} => accepted'[r.current.id] = 0
    BY <1>2 DEF RunOnce
  <1>6. r.at = "fetching" => store'[r.current.id].status # "pending"
    BY <1>2 DEF RunOnce, Replaying, Absent
  <1>7. QED
    BY <1>3, <1>4, <1>5, <1>6 DEF RunOnce

(* The only run moves to r. *)
LEMMA OnlyRunMoves ==
    ASSUME TypeOK, OneRunAtATime, NEW t \in Tabs, NEW l \in Lanes, NEW r \in Run,
           run' = [run EXCEPT ![t][l] = r], RunOnce(r)'
    PROVE  \A u \in Tabs, k \in Lanes : RunOnce(run[u][k])'
  <1> SUFFICES ASSUME NEW u \in Tabs, NEW k \in Lanes
               PROVE  RunOnce(run[u][k])'
    OBVIOUS
  <1>1. u = t /\ k = l
    BY DEF OneRunAtATime, Lanes
  <1>2. run'[u][k] = r
    BY <1>1 DEF TypeOK
  <1>3. QED
    BY <1>2 DEF RunOnce

LEMMA RestingOnce ==
    /\ RunOnce(IdleRun)'
    /\ \A at \in Resting : RunOnce([IdleRun EXCEPT !.at = at])'
    /\ \A l \in Lanes : RunOnce(End(l))'
  BY DEF RunOnce, IdleRun, Resting, Replaying, End

LEMMA LoopOnce ==
    ASSUME TypeOK, OneRunAtATime, NEW t \in Tabs, NEW l \in Lanes,
           NEW todo \in SUBSET Snapshot, Loop(t, l, todo),
           \A s \in todo : /\ ~Fresh(s.id)'
                           /\ accepted'[s.id] = 0
                           /\ \A x \in todo : x.id = s.id => x = s
    PROVE  \A u \in Tabs, k \in Lanes : RunOnce(run[u][k])'
  <1>1. CASE run' = [run EXCEPT ![t][l] = [IdleRun EXCEPT !.at = "cleaning"]]
    <2>1. "cleaning" \in Resting
      BY DEF Resting
    <2>2. QED
      BY <1>1, <2>1, RestingRuns, RestingOnce, OnlyRunMoves
  <1>2. ASSUME NEW next \in todo,
               run' = [run EXCEPT ![t][l] =
                         [at |-> "marking", current |-> next, todo |-> todo \ {next}]]
        PROVE  \A u \in Tabs, k \in Lanes : RunOnce(run[u][k])'
    <2>1. [at |-> "marking", current |-> next, todo |-> todo \ {next}] \in Run
      BY DEF Run, Replaying
    <2>2. RunOnce([at |-> "marking", current |-> next, todo |-> todo \ {next}])'
      BY DEF RunOnce
    <2>3. QED
      BY <1>2, <2>1, <2>2, OnlyRunMoves
  <1>3. QED
    BY <1>1, <1>2 DEF Loop

(* On to the next mutation, when no acceptance is new. *)
LEMMA AdvanceOnce ==
    ASSUME OnceInv, OneRunAtATime, NEW t \in Tabs, NEW l \in Lanes, Advance(t, l),
           UNCHANGED <<calls, accepted>>
    PROVE  \A u \in Tabs, k \in Lanes : RunOnce(run[u][k])'
  <1>1. run[t][l].todo \in SUBSET Snapshot /\ RunOnce(run[t][l])
    BY RunParts DEF OnceInv
  <1>2. \A s \in run[t][l].todo : /\ ~Fresh(s.id)'
                                  /\ accepted'[s.id] = 0
                                  /\ \A x \in run[t][l].todo : x.id = s.id => x = s
    BY <1>1 DEF RunOnce, Fresh
  <1>3. QED
    BY <1>1, <1>2, LoopOnce DEF Advance, OnceInv

(* From one step with a mutation to the next. *)
LEMMA GoToOnce ==
    ASSUME OnceInv, OneRunAtATime, NEW t \in Tabs, NEW l \in Lanes, NEW at \in Replaying,
           GoTo(t, l, at), run[t][l].at \in Replaying, UNCHANGED calls,
           \A m \in Mutations : m # Current(t, l).id => accepted'[m] = accepted[m],
           at # "ok" => accepted'[Current(t, l).id] = 0,
           at = "fetching" => store'[Current(t, l).id].status # "pending"
    PROVE  \A u \in Tabs, k \in Lanes : RunOnce(run[u][k])'
  <1>1. run[t][l] \in Run /\ RunOnce(run[t][l])
    BY RunParts DEF OnceInv
  <1>2. PICK r \in Run : /\ r = [run[t][l] EXCEPT !.at = at]
                         /\ r.todo = run[t][l].todo
                         /\ r.current = run[t][l].current
                         /\ r.at = at
    <2> DEFINE q == [run[t][l] EXCEPT !.at = at]
    <2>1. q \in Run
      BY <1>1 DEF Run, Resting, Replaying
    <2>2. q.todo = run[t][l].todo /\ q.current = run[t][l].current /\ q.at = at
      BY <1>1 DEF Run, Resting, Replaying
    <2>3. WITNESS q \in Run
    <2>4. QED
      BY <2>2
  <1>3. run' = [run EXCEPT ![t][l] = r]
    BY <1>2 DEF GoTo, TypeOK, OnceInv
  <1>4. \A s \in r.todo : s.id \in Mutations
    BY <1>2 DEF Run, Snapshot
  <1>5. \A s \in r.todo : /\ ~Fresh(s.id)'
                          /\ accepted'[s.id] = 0
                          /\ \A x \in r.todo : x.id = s.id => x = s
    BY <1>1, <1>2, <1>4 DEF RunOnce, Fresh, Current
  <1>6. ~Fresh(r.current.id)' /\ \A s \in r.todo : s.id # r.current.id
    BY <1>1, <1>2 DEF RunOnce, Fresh
  <1>7. RunOnce(r)'
    BY <1>2, <1>5, <1>6 DEF RunOnce, Current
  <1>8. QED
    BY <1>3, <1>7, OnlyRunMoves DEF OnceInv

(* A mutation nothing happens to, or whose record is deleted. *)
LEMMA MutationUndisturbed ==
    ASSUME NEW m \in Mutations, MutationOnce(m), Fresh(m)' => Fresh(m),
           accepted'[m] = accepted[m],
           store'[m] = store[m] \/ store'[m] = Absent
    PROVE  MutationOnce(m)'
  BY DEF MutationOnce, Absent

(* The record of a mutation that is in a run and not accepted is written. *)
LEMMA WrittenOnce ==
    ASSUME TypeOK, NEW x \in Mutations, NEW v, store' = [store EXCEPT ![x] = v],
           \A m \in Mutations : MutationOnce(m), ~Fresh(x),
           v.status # "pending" \/ accepted[x] = 0, UNCHANGED <<calls, accepted>>
    PROVE  \A m \in Mutations : MutationOnce(m)'
  <1> SUFFICES ASSUME NEW m \in Mutations PROVE MutationOnce(m)'
    OBVIOUS
  <1>1. accepted[m] \in 0..2
    BY DEF TypeOK
  <1>2. CASE m = x
    <2>1. store'[m] = v
      BY <1>2 DEF TypeOK
    <2>2. QED
      BY <1>1, <1>2, <2>1 DEF MutationOnce, Fresh
  <1>3. CASE m # x
    <2>1. store'[m] = store[m]
      BY <1>3 DEF TypeOK
    <2>2. QED
      BY <2>1, MutationUndisturbed DEF Fresh
  <1>4. QED
    BY <1>2, <1>3

LEMMA RunStepOnce ==
    ASSUME OnceInv, OneRunAtATime, NEW t \in Tabs, NEW l \in Lanes, RunStep(t, l)
    PROVE  /\ \A m \in Mutations : MutationOnce(m)'
           /\ \A u \in Tabs, k \in Lanes : RunOnce(run[u][k])'
  <1> DEFINE c == Current(t, l)
             Quiet == \A m \in Mutations : MutationOnce(m)'
             Goal == Quiet /\ \A u \in Tabs, k \in Lanes : RunOnce(run[u][k])'
  <1> USE DEF history
  <1>1. TypeOK /\ \A m \in Mutations : MutationOnce(m)
    BY DEF OnceInv
  <1>2. run[t][l].at \in Replaying => /\ c \in Snapshot /\ c.id \in Mutations
                                      /\ ~Fresh(c.id)
                                      /\ run[t][l].at # "ok" => accepted[c.id] = 0
    BY <1>1, RunParts DEF OnceInv, RunOnce, Current
  <1>3. UNCHANGED <<calls, store, accepted>> => Quiet
    BY <1>1, MutationUndisturbed DEF Fresh
  <1>4. UNCHANGED calls
    BY DEF RunStep, ReadPending, MarkSyncing, Unmark, Replay, DeleteReplayed, Retry,
           ClearCompleted, Hang, CountAfterSync
  <1>5. CASE ReadPending(t, l)
    <2> DEFINE todo == {[id |-> m, retries |-> store[m].retries] : m \in Pending}
    <2>1. todo \in SUBSET Snapshot
      BY <1>1 DEF Pending, Snapshot, TypeOK, Record
    <2>2. ASSUME NEW m \in Pending PROVE ~Fresh(m)' /\ accepted'[m] = 0
      <3>1. m \in Mutations /\ store[m].status = "pending" /\ accepted[m] \in 0..2
        BY <1>1 DEF Pending, TypeOK
      <3>2. ~Fresh(m) /\ accepted[m] = 0
        BY <1>1, <3>1 DEF MutationOnce
      <3>3. QED
        BY <1>4, <1>5, <3>2 DEF ReadPending, Fresh
    <2>3. \A s \in todo : /\ ~Fresh(s.id)'
                          /\ accepted'[s.id] = 0
                          /\ \A x \in todo : x.id = s.id => x = s
      BY <2>2
    <2>4. Quiet
      BY <1>3, <1>5 DEF ReadPending, queue
    <2>5. CASE Loop(t, l, todo)
      <3> HIDE DEF todo
      <3>1. QED
        BY <1>1, <2>1, <2>3, <2>4, <2>5, LoopOnce
    <2>6. CASE run' = [run EXCEPT ![t][l] = End(l)]
      BY <1>1, <2>4, <2>6, RestingRuns, RestingOnce, OnlyRunMoves
    <2>7. QED
      BY <1>5, <2>5, <2>6 DEF ReadPending
  <1>6. CASE MarkSyncing(t, l)
    <2>1. run[t][l].at \in Replaying /\ run[t][l].at # "ok"
      BY <1>6 DEF MarkSyncing, Replaying
    <2>2. /\ store' = [store EXCEPT ![c.id] = [status |-> "syncing", retries |-> c.retries]]
          /\ GoTo(t, l, "fetching")
          /\ UNCHANGED accepted
      BY <1>6 DEF MarkSyncing, Put, OneRunAtATime
    <2>3. Quiet
      BY <1>1, <1>2, <1>4, <2>1, <2>2, WrittenOnce
    <2>4. store'[c.id].status # "pending"
      BY <1>1, <1>2, <2>1, <2>2 DEF TypeOK
    <2>5. \A u \in Tabs, k \in Lanes : RunOnce(run[u][k])'
      BY <1>2, <1>4, <2>1, <2>2, <2>4, GoToOnce DEF Replaying
    <2>6. QED
      BY <2>3, <2>5
  <1>7. CASE Unmark(t, l) \/ (Retry(t, l) /\ Advance(t, l))
    <2>1. run[t][l].at \in Replaying /\ run[t][l].at # "ok"
      BY <1>7 DEF Unmark, Retry, Replaying
    <2>2. Advance(t, l) /\ UNCHANGED accepted
      BY <1>7 DEF Unmark, Retry
    <2>3. \/ UNCHANGED store
          \/ \E v : store' = [store EXCEPT ![c.id] = v]
      BY <1>7 DEF Unmark, Retry, Put, PutBack
    <2>4. Quiet
      BY <1>1, <1>2, <1>3, <1>4, <2>1, <2>2, <2>3, WrittenOnce
    <2>5. QED
      BY <1>4, <2>2, <2>4, AdvanceOnce
  <1>8. CASE Replay(t, l)
    <2>1. run[t][l].at \in Replaying /\ run[t][l].at = "fetching"
      BY <1>8 DEF Replay, Replaying
    <2>2. PICK answer \in {"ok", "rejected", "errored"} :
             Request(c.id, answer) /\ GoTo(t, l, answer)
      BY <1>8 DEF Replay
    <2>3. accepted[c.id] = 0 /\ store[c.id].status # "pending"
      BY <1>2, <2>1 DEF OnceInv, RunOnce, Current
    <2>4. /\ \A m \in Mutations : m # c.id => accepted'[m] = accepted[m]
          /\ answer # "ok" => accepted'[c.id] = 0
          /\ accepted'[c.id] <= 1
      BY <1>1, <1>2, <2>1, <2>2, <2>3 DEF Request, OneRunAtATime, TypeOK
    <2>5. UNCHANGED store
      BY <1>8 DEF Replay, queue
    <2>6. Quiet
      <3> SUFFICES ASSUME NEW m \in Mutations PROVE MutationOnce(m)'
        OBVIOUS
      <3>1. CASE m = c.id
        BY <1>2, <1>4, <2>1, <2>3, <2>4, <2>5, <3>1 DEF MutationOnce, Fresh
      <3>2. CASE m # c.id
        BY <1>1, <1>4, <2>4, <2>5, <3>2, MutationUndisturbed DEF Fresh
      <3>3. QED
        BY <3>1, <3>2
    <2>7. answer \in Replaying /\ answer # "fetching"
      BY <2>2 DEF Replaying
    <2>8. \A u \in Tabs, k \in Lanes : RunOnce(run[u][k])'
      BY <1>4, <2>1, <2>2, <2>4, <2>7, GoToOnce
    <2>9. QED
      BY <2>6, <2>8
  <1>9. CASE DeleteReplayed(t, l)
    <2>1. run[t][l].at \in Replaying
      BY <1>9 DEF DeleteReplayed, Replaying
    <2>2. /\ store' = [store EXCEPT ![c.id] = Absent]
          /\ Advance(t, l)
          /\ UNCHANGED accepted
      BY <1>9 DEF DeleteReplayed, OneRunAtATime
    <2>3. Quiet
      BY <1>1, <1>2, <1>4, <2>1, <2>2, WrittenOnce DEF Absent
    <2>4. QED
      BY <1>4, <2>2, <2>3, AdvanceOnce
  <1>10. CASE ClearCompleted(t, l)
    <2>1. \A m \in Mutations : store'[m] = store[m] \/ store'[m] = Absent
      BY <1>10 DEF ClearCompleted
    <2>2. Quiet
      BY <1>1, <1>4, <1>10, <2>1, MutationUndisturbed DEF Fresh, ClearCompleted
    <2>3. QED
      BY <1>1, <1>10, <2>2, RestingRuns, RestingOnce, OnlyRunMoves DEF ClearCompleted
  <1>11. CASE l = Hook /\ CountAfterSync(t)
    <2>1. run[t][l] \in Run /\ run[t][l].at = "counting"
      BY <1>1, <1>11, RunParts DEF CountAfterSync
    <2>2. [run[t][l] EXCEPT !.at = "idle"] = IdleRun
      BY <2>1 DEF Run, Resting, Replaying, IdleRun
    <2>3. run' = [run EXCEPT ![t][l] = IdleRun]
      BY <1>1, <1>11, <2>2 DEF CountAfterSync, GoTo, TypeOK
    <2>4. Quiet
      BY <1>3, <1>11 DEF CountAfterSync, queue
    <2>5. QED
      BY <1>1, <2>3, <2>4, RestingRuns, RestingOnce, OnlyRunMoves
  <1>12. Retry(t, l) => Advance(t, l)
    BY DEF Retry, OneRunAtATime
  <1>13. ~Hang(t, l)
    BY DEF Hang, OneRunAtATime
  <1>14. QED
    BY <1>5, <1>6, <1>7, <1>8, <1>9, <1>10, <1>11, <1>12, <1>13 DEF RunStep

LEMMA OncePreserved ==
    ASSUME OnceInv, OneRunAtATime, [Next]_vars
    PROVE  OnceInv'
  <1> DEFINE Mutated == \A m \in Mutations : MutationOnce(m)'
             Moved == \A u \in Tabs, k \in Lanes : RunOnce(run[u][k])'
             Calm == \A m \in Mutations : ~Fresh(m) =>
                        /\ ~Fresh(m)'
                        /\ accepted'[m] = accepted[m]
                        /\ store'[m] = store[m] \/ store'[m] = Absent
  <1> USE DEF history
  <1>1. TypeOK /\ TypeOK' /\ \A m \in Mutations : MutationOnce(m)
    BY TypePreserved DEF OnceInv
  <1>2. ASSUME UNCHANGED run, Calm PROVE Moved
    <2>1. \A r \in Run : RunOnce(r) => RunOnce(r)'
      BY <1>2, RunUndisturbed
    <2>2. \A u \in Tabs, k \in Lanes : run[u][k] \in Run /\ RunOnce(run[u][k])
      BY <1>1, RunParts DEF OnceInv
    <2>3. QED
      BY <1>2, <2>1, <2>2 DEF RunOnce
  <1>3. ASSUME \A m \in Mutations : Fresh(m)' => Fresh(m),
               UNCHANGED accepted,
               \A m \in Mutations : store'[m] = store[m] \/ store'[m] = Absent
        PROVE  Mutated /\ Calm
    BY <1>1, <1>3, MutationUndisturbed
  <1>4. ASSUME UNCHANGED <<calls, store, accepted>>
        PROVE  Mutated /\ Calm
    BY <1>3, <1>4 DEF Fresh
  <1>5. ASSUME NEW t \in Tabs, NEW m \in Mutations, Enqueue(t, m) PROVE Mutated /\ Moved
    <2>1. \A x \in Mutations : Fresh(x)' => Fresh(x)
      BY <1>1, <1>5 DEF Enqueue, CallBecomes, Fresh, TypeOK
    <2>2. QED
      BY <1>2, <1>3, <1>5, <2>1 DEF Enqueue, queue
  <1>6. ASSUME NEW t \in Tabs, NEW m \in Mutations, Send(t, m) PROVE Mutated /\ Moved
    <2>1. PICK answer \in {"ok", "rejected", "errored"} :
             Request(m, answer) /\ CallBecomes(m, IF answer = "ok" THEN "done" ELSE "adding", t)
      BY <1>6 DEF Send
    <2>2. Fresh(m) /\ accepted[m] = 0 /\ store[m].status = "absent"
      BY <1>1, <1>6 DEF Send, Calling, Fresh, MutationOnce
    <2>3. /\ accepted'[m] <= 1
          /\ answer # "ok" => accepted'[m] = 0
          /\ \A x \in Mutations : x # m => accepted'[x] = accepted[x]
      BY <1>1, <2>1, <2>2 DEF Request, OneRunAtATime, TypeOK
    <2>4. /\ answer = "ok" => ~Fresh(m)'
          /\ \A x \in Mutations : x # m => (Fresh(x)' <=> Fresh(x))
      BY <1>1, <2>1 DEF CallBecomes, Fresh, TypeOK
    <2>5. UNCHANGED <<store, run>>
      BY <1>6 DEF Send, queue
    <2>6. Calm
      BY <2>2, <2>3, <2>4, <2>5
    <2>7. ASSUME NEW x \in Mutations PROVE MutationOnce(x)'
      <3>1. CASE x = m
        BY <2>2, <2>3, <2>4, <2>5, <3>1 DEF MutationOnce
      <3>2. CASE x # m
        BY <1>1, <2>3, <2>4, <2>5, <3>2, MutationUndisturbed
      <3>3. QED
        BY <3>1, <3>2
    <2>8. QED
      BY <1>2, <2>5, <2>6, <2>7
  <1>7. ASSUME NEW t \in Tabs, NEW m \in Mutations, Add(t, m) PROVE Mutated /\ Moved
    <2>1. Fresh(m) /\ accepted[m] = 0
      BY <1>1, <1>7 DEF Add, Calling, Fresh, MutationOnce
    <2>2. /\ store' = [store EXCEPT ![m] = [status |-> "pending", retries |-> 0]]
          /\ CallBecomes(m, "done", t)
          /\ UNCHANGED <<accepted, run>>
      BY <1>7 DEF Add, OneRunAtATime
    <2>3. /\ ~Fresh(m)'
          /\ \A x \in Mutations : x # m => (Fresh(x)' <=> Fresh(x)) /\ store'[x] = store[x]
      BY <1>1, <2>2 DEF CallBecomes, Fresh, TypeOK
    <2>4. Calm
      BY <2>1, <2>2, <2>3
    <2>5. ASSUME NEW x \in Mutations PROVE MutationOnce(x)'
      <3>1. CASE x = m
        BY <2>1, <2>2, <2>3, <3>1 DEF MutationOnce
      <3>2. CASE x # m
        BY <1>1, <2>2, <2>3, <3>2, MutationUndisturbed
      <3>3. QED
        BY <3>1, <3>2
    <2>6. QED
      BY <1>2, <2>2, <2>4, <2>5
  <1>8. ASSUME NEW t \in Tabs, NEW m \in Mutations, ClearOne(t, m) PROVE Mutated /\ Moved
    <2>1. \A x \in Mutations : store'[x] = store[x] \/ store'[x] = Absent
      BY <1>1, <1>8 DEF ClearOne, TypeOK
    <2>2. UNCHANGED <<calls, accepted, run>>
      BY <1>8 DEF ClearOne
    <2>3. QED
      BY <1>2, <1>3, <2>1, <2>2 DEF Fresh
  <1>9. ASSUME NEW t \in Tabs, NEW l \in Lanes, RunStep(t, l) PROVE Mutated /\ Moved
    BY <1>9, RunStepOnce
  <1>10. ASSUME NEW t \in Tabs, NEW l \in Lanes, StartRun(t, l),
                UNCHANGED <<calls, store, accepted>>
         PROVE  Mutated /\ Moved
    <2>1. "reading" \in Resting
      BY DEF Resting
    <2>2. QED
      BY <1>1, <1>4, <1>10, <2>1, RestingRuns, RestingOnce, OnlyRunMoves DEF StartRun
  <1>11. ASSUME NEW t \in Tabs, Reload(t) PROVE Mutated /\ Moved
    <2>1. UNCHANGED <<store, accepted>>
      BY <1>11 DEF Reload, queue
    <2>2. \A m \in Mutations : Fresh(m)' => Fresh(m)
      BY <1>11 DEF Reload, Fresh
    <2>3. Mutated
      BY <1>3, <2>1, <2>2
    <2>4. \A u \in Tabs, k \in Lanes : u = t
      BY DEF OneRunAtATime
    <2>5. \A u \in Tabs, k \in Lanes : run'[u][k] = IdleRun
      BY <1>1, <1>11, <2>4 DEF Reload, TypeOK
    <2>6. QED
      BY <2>3, <2>5, RestingOnce DEF RunOnce
  <1>12. \/ UNCHANGED <<calls, store, accepted, run>>
         \/ \E t \in Tabs, m \in Mutations :
               Enqueue(t, m) \/ Send(t, m) \/ Add(t, m) \/ ClearOne(t, m)
         \/ \E t \in Tabs, l \in Lanes :
               RunStep(t, l) \/ (StartRun(t, l) /\ UNCHANGED <<calls, store, accepted>>)
         \/ \E t \in Tabs : Reload(t)
    BY DEF Next, vars, HandleOnline, RefreshCount, AutoSync, SyncNow, ClearQueue,
           ConnectivityChanges, ServerChanges, Lanes, queue
  <1>13. Mutated /\ Moved
    <2>1. CASE UNCHANGED <<calls, store, accepted, run>>
      BY <1>2, <1>4, <2>1
    <2>2. QED
      BY <1>5, <1>6, <1>7, <1>8, <1>9, <1>10, <1>11, <1>12, <2>1
  <1>14. QED
    BY <1>1, <1>13 DEF OnceInv

(***************************************************************************)
(* With one run of syncAll() at a time and reliable replies the server     *)
(* accepts no mutation twice, whatever is reloaded or cleared              *)
(* (AcceptedOnce).                                                         *)
(***************************************************************************)
THEOREM AcceptedAtMostOnce == OneRunAtATime => (Spec => []AcceptedOnce)
  <1> SUFFICES ASSUME OneRunAtATime PROVE Spec => []AcceptedOnce
    OBVIOUS
  <1>1. Init => OnceInv
    <2> SUFFICES ASSUME Init PROVE OnceInv
      OBVIOUS
    <2>1. TypeOK
      BY InitTyped
    <2>2. \A m \in Mutations : MutationOnce(m)
      BY DEF Init, MutationOnce, Absent
    <2>3. \A t \in Tabs, l \in Lanes : RunOnce(run[t][l])
      BY DEF Init, RunOnce, IdleRun, Replaying
    <2>4. QED
      BY <2>1, <2>2, <2>3 DEF OnceInv
  <1>2. OnceInv /\ [Next]_vars => OnceInv'
    BY OncePreserved
  <1>3. OnceInv => AcceptedOnce
    BY DEF OnceInv, MutationOnce, AcceptedOnce
  <1>4. QED
    BY <1>1, <1>2, <1>3, PTL DEF Spec
=============================================================================
