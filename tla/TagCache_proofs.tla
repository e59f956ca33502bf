--------------------------- MODULE TagCache_proofs ---------------------------
(***************************************************************************)
(* Proofs about the tag invalidation, for any pods, slots, keys, tags,     *)
(* retries and faults: types, that every promise of pendingSets is kept by *)
(* a set() under way, and that revalidations that do not overlap are       *)
(* respected on every pod.                                                 *)
(***************************************************************************)
EXTENDS TagCache, TLAPS

-----------------------------------------------------------------------------
(* A queue holds s, holds nothing twice, holds a before b. *)
In(q, s) == \E i \in 1..Len(q) : q[i] = s
Once(q) == \A i, j \in 1..Len(q) : q[i] = q[j] => i = j
Before(q, a, b) == \E i, j \in 1..Len(q) : i < j /\ q[i] = a /\ q[j] = b

(* What a queue holds with one more, and without its head. *)
LEMMA AppendHolds ==
    ASSUME NEW q \in Seq(Slots), NEW s \in Slots
    PROVE  /\ Append(q, s) \in Seq(Slots)
           /\ \A x : In(Append(q, s), x) <=> In(q, x) \/ x = s
           /\ Once(q) /\ ~In(q, s) => Once(Append(q, s))
           /\ \A x, y : Before(q, x, y) => Before(Append(q, s), x, y)
           /\ \A x : In(q, x) => Before(Append(q, s), x, s)
<1> DEFINE v == Append(q, s)
<1>1. /\ Len(v) = Len(q) + 1 /\ Len(q) \in Nat
      /\ v[Len(q) + 1] = s
      /\ \A i \in 1..Len(q) : v[i] = q[i]
      /\ v \in Seq(Slots)
  OBVIOUS
<1> HIDE DEF v
<1>2. \A x : In(v, x) <=> In(q, x) \/ x = s
  <2>1. ASSUME NEW x, In(v, x) PROVE In(q, x) \/ x = s
    BY <1>1, <2>1 DEF In
  <2>2. ASSUME NEW x, In(q, x) PROVE In(v, x)
    BY <1>1, <2>2 DEF In
  <2>3. In(v, s)
    BY <1>1 DEF In
  <2> QED
    BY <2>1, <2>2, <2>3
<1>3. Once(q) /\ ~In(q, s) => Once(v)
  BY <1>1 DEF In, Once
<1>4. \A x, y : Before(q, x, y) => Before(v, x, y)
  BY <1>1 DEF Before
<1>5. ASSUME NEW x, In(q, x) PROVE Before(v, x, s)
  BY <1>1, <1>5 DEF In, Before
<1> QED
  BY <1>1, <1>2, <1>3, <1>4, <1>5 DEF v

LEMMA TailHolds ==
    ASSUME NEW q \in Seq(Slots), q # <<>>, Once(q)
    PROVE  /\ Tail(q) \in Seq(Slots) /\ Head(q) \in Slots /\ In(q, Head(q))
           /\ \A x : In(Tail(q), x) <=> In(q, x) /\ x # Head(q)
           /\ Once(Tail(q))
           /\ \A x, y : Before(q, x, y) => y # Head(q)
           /\ \A x, y : Before(q, x, y) /\ x # Head(q) => Before(Tail(q), x, y)
<1> DEFINE v == Tail(q)
           h == Head(q)
<1>1. /\ Len(v) = Len(q) - 1 /\ Len(q) \in Nat /\ Len(q) >= 1
      /\ h = q[1]
      /\ \A i \in 1..Len(v) : v[i] = q[i + 1]
      /\ v \in Seq(Slots) /\ h \in Slots
  OBVIOUS
<1> HIDE DEF v, h
<1>2. In(q, h)
  BY <1>1 DEF In
<1>3. ASSUME NEW x, In(v, x) PROVE In(q, x) /\ x # h
  <2>1. PICK i \in 1..Len(v) : v[i] = x
    BY <1>3 DEF In
  <2>2. i + 1 \in 1..Len(q) /\ q[i + 1] = x /\ i + 1 # 1 /\ 1 \in 1..Len(q)
    BY <1>1, <2>1
  <2>3. x # h
    BY <1>1, <2>2 DEF Once
  <2> QED
    BY <2>2, <2>3 DEF In
<1>4. ASSUME NEW x, In(q, x), x # h PROVE In(v, x)
  <2>1. PICK i \in 1..Len(q) : q[i] = x
    BY <1>4 DEF In
  <2>2. i - 1 \in 1..Len(v) /\ v[i - 1] = x
    BY <1>1, <1>4, <2>1
  <2> QED
    BY <2>2 DEF In
<1>5. Once(v)
  <2> SUFFICES ASSUME NEW i \in 1..Len(v), NEW j \in 1..Len(v), v[i] = v[j] PROVE i = j
    BY DEF Once
  <2>1. i + 1 \in 1..Len(q) /\ j + 1 \in 1..Len(q) /\ q[i + 1] = q[j + 1]
    BY <1>1
  <2>2. i + 1 = j + 1
    BY <2>1 DEF Once
  <2> QED
    BY <1>1, <2>2
<1>6. ASSUME NEW x, NEW y, Before(q, x, y) PROVE y # h /\ (x # h => Before(v, x, y))
  <2>1. PICK i \in 1..Len(q), j \in 1..Len(q) : i < j /\ q[i] = x /\ q[j] = y
    BY <1>6 DEF Before
  <2>2. y # h
    BY <1>1, <2>1 DEF Once
  <2>3. ASSUME x # h PROVE Before(v, x, y)
    <3>1. i - 1 \in 1..Len(v) /\ j - 1 \in 1..Len(v) /\ v[i - 1] = x /\ v[j - 1] = y /\ i - 1 < j - 1
      BY <1>1, <2>1, <2>3
    <3> QED
      BY <3>1 DEF Before
  <2> QED
    BY <2>2, <2>3
<1> QED
  BY <1>1, <1>2, <1>3, <1>4, <1>5, <1>6 DEF v, h

(* The states of a request for a page, and of a revalidation. *)
Fetching == {"smembers", "mget", "ready", "awaiting", "read", "served", "missed", "rendering", "store"}
Stamping == {"stamp", "index"}

(* What a request is about: a key, or a tag whose turn it is; refreshTags() asks Redis. *)
About(rec) ==
    /\ rec.at \in Fetching => rec.key \in Keys
    /\ rec.at \in Stamping => rec.tag \in rec.tags /\ rec.todo \subseteq rec.tags \ {rec.tag}
    /\ rec.backoff => rec.at \in Commands
    /\ rec.at \in {"smembers", "mget"} => rec.store = "redis"

CacheInv ==
    /\ TypeOK
    /\ \A p \in Pods, s \in Slots : About(slot[p][s])

(* Who waits for a command is in one queue, once, and nobody else is. *)
QueueInv ==
    \A p \in Pods :
        /\ Once(sent[p]) /\ Once(replies[p])
        /\ \A s \in Slots :
              /\ In(sent[p], s) => ~In(replies[p], s)
              /\ In(sent[p], s) \/ In(replies[p], s) =>
                    slot[p][s].at \in Commands /\ ~slot[p][s].backoff

Answered(p, s) == In(replies[p], s) /\ slot[p][s].ok

(* Revalidations of a tag do not overlap, and nobody's clock is ahead. *)
Alone ==
    \A p, q \in Pods, s, x \in Slots :
        /\ slot[p][s].at \in Stamping /\ slot[q][x].at \in Stamping
        /\ slot[p][s].tags \cap slot[q][x].tags # {}
        => p = q /\ s = x

TimesPast ==
    /\ \A t \in Tags : stamp[t] <= clock
    /\ \A p \in Pods, s \in Slots :
          slot[p][s].at \in Stamping =>
             slot[p][s].time <= clock /\ \A t \in slot[p][s].tags : stamp[t] <= slot[p][s].time

(* What succeeded is in Redis: of the tags done so far, and of whole revalidations. *)
Done(p, s, t) ==
    LET rec == slot[p][s]
    IN  \/ t \notin rec.todo \cup {rec.tag}
        \/ t = rec.tag /\ rec.at = "index" /\ Answered(p, s)

TagsDone ==
    /\ \A t \in Tags : revalidated[t] <= stamp[t] /\ (revalidated[t] > 0 => t \in indexed)
    /\ \A p \in Pods, s \in Slots :
          slot[p][s].at \in Stamping /\ slot[p][s].store = "redis" =>
             /\ \A t \in slot[p][s].tags : Done(p, s, t) =>
                   stamp[t] = slot[p][s].time /\ t \in indexed
             /\ (slot[p][s].at = "index" \/ Answered(p, s)) =>
                   stamp[slot[p][s].tag] = slot[p][s].time

(* The replies to refreshTags() tell all that the request must know. *)
Told(p, s) ==
    LET rec == slot[p][s]
    IN  /\ \A t \in Tags : rec.floor[t] <= revalidated[t]
        /\ rec.at = "mget" \/ (rec.at = "smembers" /\ Answered(p, s)) =>
              \A t \in Tags : rec.floor[t] > 0 => t \in rec.tags
        /\ rec.at = "mget" /\ Answered(p, s) => \A t \in Tags : rec.floor[t] <= rec.values[t]
        /\ \A t \in Tags : rec.values[t] > 0 => rec.at = "mget" /\ In(replies[p], s)

(* Behind it, and a request that does not know it may not. *)
Behind(p, a, b) == In(sent[p], b) \/ Before(replies[p], a, b)
Later(p, a, b) ==
    IF slot[p][b].at \in {"smembers", "mget"} THEN Behind(p, a, b) ELSE ~slot[p][b].synced

Ordered ==
    \A p \in Pods, a, b \in Slots : \A t \in Tags :
        slot[p][a].values[t] > 0 /\ slot[p][b].floor[t] > slot[p][a].values[t] => Later(p, a, b)

(* A synchronized request is known to the manifest. *)
Known(p, s) ==
    LET rec == slot[p][s]
    IN  rec.synced => \/ rec.at \in {"ready", "awaiting", "read"}
                         /\ \A t \in Tags : rec.floor[t] <= manifest[p][t]
                      \/ rec.at = "served" /\ \A t \in TagsOf[rec.key] : rec.floor[t] < rec.time

-----------------------------------------------------------------------------
(***************************************************************************)
(* Types.  A step changes one request, and who waited for it.              *)
(***************************************************************************)
USE TagCacheAssumption DEF TagCacheAssumption

(* Two records of a request that differ in what it awaits alone. *)
Alike(a, b) ==
    /\ a.at = b.at /\ a.key = b.key /\ a.time = b.time /\ a.tags = b.tags /\ a.todo = b.todo
    /\ a.tag = b.tag /\ a.values = b.values /\ a.store = b.store /\ a.tries = b.tries
    /\ a.backoff = b.backoff /\ a.ok = b.ok /\ a.synced = b.synced /\ a.floor = b.floor

Others(p, s) ==
    \A q \in Pods, x \in Slots : q # p \/ x # s => Alike(slot[q][x], slot'[q][x])

SlotsTyped ==
    /\ slot \in [Pods -> [Slots -> Slot]]
    /\ \A p \in Pods, s \in Slots : About(slot[p][s])

(* The record of a free slot. *)
LEMMA IdleTyped ==
    /\ Idle \in Slot /\ About(Idle) /\ Idle.at = "idle" /\ Idle.waitsOn = None
    /\ Idle.floor = Zero /\ Idle.values = Zero /\ ~Idle.synced /\ ~Idle.backoff /\ Idle.ok
    /\ Idle.key = None /\ Idle.store = "redis"
<1> QED
  BY DEF Idle, Slot, Steps, Commands, Stores, Time, Zero, About, Fetching, Stamping

(* A request becomes another record. *)
Update(p, s, rec) == slot' = [slot EXCEPT ![p][s] = rec]

LEMMA BecomesTyped ==
    ASSUME CacheInv, NEW p \in Pods, NEW s \in Slots, NEW rec \in Slot, About(rec),
           Update(p, s, rec)
    PROVE  /\ slot'[p][s] = rec /\ SlotsTyped'
           /\ \A q \in Pods, x \in Slots : q # p \/ x # s => slot'[q][x] = slot[q][x]
           /\ Others(p, s)
<1>1. slot \in [Pods -> [Slots -> Slot]]
  BY DEF CacheInv, TypeOK
<1>2. \A q \in Pods, x \in Slots :
        slot'[q][x] = IF q = p /\ x = s THEN rec ELSE slot[q][x]
  BY <1>1 DEF Update
<1>3. slot' \in [Pods -> [Slots -> Slot]]
  BY <1>1 DEF Update
<1>4. \A q \in Pods, x \in Slots : About(slot'[q][x])
  BY <1>2 DEF CacheInv
<1> QED
  BY <1>2, <1>3, <1>4 DEF SlotsTyped, About, Others, Alike

(* A request awaits something else. *)
LEMMA WaitTyped ==
    ASSUME NEW r \in Slot, NEW w \in Slots \cup {None}
    PROVE  /\ [r EXCEPT !.waitsOn = w] \in Slot
           /\ [r EXCEPT !.waitsOn = w].waitsOn = w
           /\ Alike(r, [r EXCEPT !.waitsOn = w])
<1>1. [r EXCEPT !.waitsOn = w] \in Slot /\ [r EXCEPT !.waitsOn = w].waitsOn = w
  BY DEF Slot
<1>2. Alike(r, [r EXCEPT !.waitsOn = w])
  BY DEF Slot, Alike
<1> QED
  BY <1>1, <1>2

(* A set() ends, and who waited for it does no more. *)
LEMMA FinishTyped ==
    ASSUME CacheInv, NEW p \in Pods, NEW s \in Slots, FinishSet(p, s), slot[p][s].key \in Keys
    PROVE  /\ slot'[p][s] = Idle /\ SlotsTyped'
           /\ \A q \in Pods, x \in Slots : q # p => slot'[q][x] = slot[q][x]
           /\ \A x \in Slots : x # s => slot'[p][x].waitsOn = IF slot[p][x].waitsOn = s THEN None
                                                           ELSE slot[p][x].waitsOn
           /\ Others(p, s)
           /\ pending' \in [Pods -> [Keys -> Slots \cup {None}]]
           /\ \A q \in Pods, k \in Keys :
                 pending'[q][k] = IF q = p /\ k = slot[p][s].key THEN None ELSE pending[q][k]
<1> DEFINE freed(x) == [slot[p][x] EXCEPT !.waitsOn = Awaits(slot[p][x], s)]
           row == [x \in Slots |-> IF x = s THEN Idle ELSE freed(x)]
<1>1. slot \in [Pods -> [Slots -> Slot]]
  BY DEF CacheInv, TypeOK
<1>2. slot' = [slot EXCEPT ![p] = row]
  BY DEF FinishSet, Released
<1>3. ASSUME NEW x \in Slots
      PROVE  freed(x) \in Slot /\ Alike(slot[p][x], freed(x))
             /\ freed(x).waitsOn = IF slot[p][x].waitsOn = s THEN None ELSE slot[p][x].waitsOn
  <2>1. slot[p][x] \in Slot /\ slot[p][x].waitsOn \in Slots \cup {None}
    BY <1>1 DEF Slot
  <2>2. Awaits(slot[p][x], s) \in Slots \cup {None}
    BY <2>1 DEF Awaits
  <2> QED
    BY <2>1, <2>2, WaitTyped DEF Awaits
<1>4. row \in [Slots -> Slot]
  BY <1>3, IdleTyped
<1>5. slot' \in [Pods -> [Slots -> Slot]]
  BY <1>1, <1>2, <1>4
<1>6. slot'[p] = row /\ \A q \in Pods : q # p => slot'[q] = slot[q]
  BY <1>1, <1>2
<1>7. \A x \in Slots : slot'[p][x] = IF x = s THEN Idle ELSE freed(x)
  BY <1>6
<1>8. Others(p, s)
  <2>1. \A q \in Pods, x \in Slots : Alike(slot[q][x], slot[q][x])
    BY DEF Alike
  <2>2. ASSUME NEW q \in Pods, NEW x \in Slots, q # p \/ x # s PROVE Alike(slot[q][x], slot'[q][x])
    <3> HIDE DEF freed, row
    <3>1. CASE q = p
      BY <1>3, <1>7, <2>2, <3>1
    <3> QED
      BY <1>6, <2>1, <3>1
  <2> QED
    BY <2>2 DEF Others, Alike
<1>9. ASSUME NEW q \in Pods, NEW x \in Slots PROVE About(slot'[q][x])
  <2>1. CASE q = p /\ x = s
    BY <1>7, <2>1, IdleTyped
  <2>2. CASE q # p \/ x # s
    <3>1. About(slot[q][x]) /\ Alike(slot[q][x], slot'[q][x])
      BY <1>8, <2>2 DEF Others, CacheInv
    <3> QED
      BY <3>1 DEF Alike, About
  <2> QED
    BY <2>1, <2>2
<1>10. pending' = [pending EXCEPT ![p][slot[p][s].key] = None]
  BY DEF FinishSet
<1>11. pending \in [Pods -> [Keys -> Slots \cup {None}]]
  BY DEF CacheInv, TypeOK
<1>12. pending' \in [Pods -> [Keys -> Slots \cup {None}]]
  BY <1>10, <1>11
<1>13. \A q \in Pods, k \in Keys :
         pending'[q][k] = IF q = p /\ k = slot[p][s].key THEN None ELSE pending[q][k]
  BY <1>10, <1>11
<1> QED
  BY <1>3, <1>5, <1>6, <1>7, <1>8, <1>9, <1>12, <1>13 DEF SlotsTyped

-----------------------------------------------------------------------------
(***************************************************************************)
(* Queues.  All steps of a pod but Execute and Restart move one request:   *)
(* it was handled by the pod, and may send a command.                      *)
(***************************************************************************)
Taken(p, s) ==
    /\ replies[p] # <<>> /\ Head(replies[p]) = s
    /\ replies' = [replies EXCEPT ![p] = Tail(@)]

Moves(p, s) ==
    /\ Others(p, s)
    /\ \/ replies' = replies /\ (slot[p][s].at \notin Commands \/ slot[p][s].backoff)
       \/ Taken(p, s)
    /\ \/ sent' = sent
       \/ /\ sent' = [sent EXCEPT ![p] = Append(@, s)]
          /\ slot'[p][s].at \in Commands /\ ~slot'[p][s].backoff

(* A request that moved is nowhere in the replies, and the others are where they were. *)
Moved(p, s) ==
    /\ ~In(sent[p], s) /\ ~In(replies'[p], s)
    /\ \A x : x # s => (In(replies'[p], x) <=> In(replies[p], x))
    /\ \A x : x # s => (In(sent'[p], x) <=> In(sent[p], x))
    /\ \A x, y : Before(replies[p], x, y) /\ x # s => Before(replies'[p], x, y)
    /\ \A q \in Pods : q # p => sent'[q] = sent[q] /\ replies'[q] = replies[q]

LEMMA MovesQueues ==
    ASSUME CacheInv, QueueInv, NEW p \in Pods, NEW s \in Slots, Moves(p, s)
    PROVE  /\ QueueInv' /\ Moved(p, s)
           /\ sent' \in [Pods -> Seq(Slots)] /\ replies' \in [Pods -> Seq(Slots)]
<1>1. /\ sent \in [Pods -> Seq(Slots)] /\ replies \in [Pods -> Seq(Slots)]
      /\ sent[p] \in Seq(Slots) /\ replies[p] \in Seq(Slots)
  BY DEF CacheInv, TypeOK
<1>2. /\ Once(sent[p]) /\ Once(replies[p])
      /\ \A x \in Slots :
            /\ In(sent[p], x) => ~In(replies[p], x)
            /\ In(sent[p], x) \/ In(replies[p], x) => slot[p][x].at \in Commands /\ ~slot[p][x].backoff
  BY DEF QueueInv
<1>3. /\ replies' \in [Pods -> Seq(Slots)] /\ Once(replies'[p]) /\ ~In(replies'[p], s) /\ ~In(sent[p], s)
      /\ \A x : x # s => (In(replies'[p], x) <=> In(replies[p], x))
      /\ \A x, y : Before(replies[p], x, y) /\ x # s => Before(replies'[p], x, y)
      /\ \A q \in Pods : q # p => replies'[q] = replies[q]
  <2>1. CASE replies' = replies /\ (slot[p][s].at \notin Commands \/ slot[p][s].backoff)
    BY <1>1, <1>2, <2>1
  <2>2. CASE Taken(p, s)
    <3>1. replies'[p] = Tail(replies[p]) /\ \A q \in Pods : q # p => replies'[q] = replies[q]
      BY <1>1, <2>2 DEF Taken
    <3>2. /\ Tail(replies[p]) \in Seq(Slots) /\ Once(Tail(replies[p])) /\ In(replies[p], s)
          /\ \A x : In(Tail(replies[p]), x) <=> In(replies[p], x) /\ x # s
          /\ \A x, y : Before(replies[p], x, y) /\ x # s => Before(Tail(replies[p]), x, y)
      BY <1>1, <1>2, <2>2, TailHolds DEF Taken
    <3>3. replies' \in [Pods -> Seq(Slots)]
      BY <1>1, <2>2, <3>2 DEF Taken
    <3> QED
      BY <1>2, <3>1, <3>2, <3>3
  <2> QED
    BY <2>1, <2>2 DEF Moves
<1>4. /\ sent' \in [Pods -> Seq(Slots)] /\ Once(sent'[p])
      /\ \A x : x # s => (In(sent'[p], x) <=> In(sent[p], x))
      /\ In(sent'[p], s) => slot'[p][s].at \in Commands /\ ~slot'[p][s].backoff
      /\ \A q \in Pods : q # p => sent'[q] = sent[q]
  <2>1. CASE sent' = sent
    BY <1>1, <1>2, <1>3, <2>1
  <2>2. CASE /\ sent' = [sent EXCEPT ![p] = Append(@, s)]
             /\ slot'[p][s].at \in Commands /\ ~slot'[p][s].backoff
    <3>1. sent'[p] = Append(sent[p], s) /\ \A q \in Pods : q # p => sent'[q] = sent[q]
      BY <1>1, <2>2
    <3>2. /\ Append(sent[p], s) \in Seq(Slots) /\ Once(Append(sent[p], s))
          /\ \A x : In(Append(sent[p], s), x) <=> In(sent[p], x) \/ x = s
      BY <1>1, <1>2, <1>3, AppendHolds
    <3>3. sent' \in [Pods -> Seq(Slots)]
      BY <1>1, <2>2, <3>2
    <3> QED
      BY <2>2, <3>1, <3>2, <3>3
  <2> QED
    BY <2>1, <2>2 DEF Moves
<1>5. \A q \in Pods, x \in Slots : q # p \/ x # s =>
        slot'[q][x].at = slot[q][x].at /\ slot'[q][x].backoff = slot[q][x].backoff
  BY DEF Moves, Others, Alike
<1>6. QueueInv'
  <2> SUFFICES ASSUME NEW q \in Pods
               PROVE  /\ Once(sent'[q]) /\ Once(replies'[q])
                      /\ \A x \in Slots :
                            /\ In(sent'[q], x) => ~In(replies'[q], x)
                            /\ In(sent'[q], x) \/ In(replies'[q], x) =>
                                  slot'[q][x].at \in Commands /\ ~slot'[q][x].backoff
    BY DEF QueueInv, In, Once
  <2>1. CASE q = p
    BY <1>2, <1>3, <1>4, <1>5, <2>1
  <2>2. CASE q # p
    BY <1>3, <1>4, <1>5, <2>2 DEF QueueInv
  <2> QED
    BY <2>1, <2>2
<1> QED
  BY <1>3, <1>4, <1>6 DEF Moved

(* The request whose reply is next comes after nobody. *)
LEMMA TakenFirst ==
    ASSUME CacheInv, QueueInv, NEW p \in Pods, NEW s \in Slots, Taken(p, s)
    PROVE  /\ In(replies[p], s) /\ ~In(sent[p], s) /\ ~slot[p][s].backoff
           /\ \A x : ~Before(replies[p], x, s)
<1>1. replies[p] \in Seq(Slots) /\ Once(replies[p])
  BY DEF CacheInv, TypeOK, QueueInv
<1> QED
  BY <1>1, TailHolds DEF Taken, QueueInv

-----------------------------------------------------------------------------
(***************************************************************************)
(* Records and queues are well formed in every state.                      *)
(***************************************************************************)
Base == CacheInv /\ QueueInv

(* The variables other than the requests and their queues. *)
RestTyped ==
    /\ clock \in Time \ {0}
    /\ entry \in [Keys -> Time] /\ local \in [Pods -> [Keys -> Time]]
    /\ stamp \in [Tags -> Time] /\ indexed \in SUBSET Tags
    /\ manifest \in [Pods -> [Tags -> Time]]
    /\ pending \in [Pods -> [Keys -> Slots \cup {None}]]
    /\ worker \in [Pods -> BOOLEAN] /\ revalidated \in [Tags -> Time]

(* The pod handles s, which nobody has to answer yet, or whose reply is next. *)
Handles(p, s) ==
    \/ replies' = replies /\ (slot[p][s].at \notin Commands \/ slot[p][s].backoff)
    \/ Taken(p, s)

(* What a step made of request s of p. *)
Becomes(p, s, rec) ==
    /\ slot'[p][s] = rec
    /\ \A q \in Pods, x \in Slots : q # p \/ x # s => slot'[q][x] = slot[q][x]

LEMMA SendBase ==
    ASSUME Base, RestTyped', NEW p \in Pods, NEW s \in Slots, NEW rec \in Slot, About(rec),
           Send(p, s, rec), Handles(p, s), rec.at \in Commands, ~rec.backoff
    PROVE  Base' /\ Moves(p, s) /\ Moved(p, s) /\ Becomes(p, s, rec) /\ In(sent'[p], s)
<1>0. CacheInv /\ QueueInv /\ Update(p, s, rec)
  BY DEF Base, Send, Update
<1>1. /\ slot'[p][s] = rec /\ SlotsTyped' /\ Others(p, s)
      /\ \A q \in Pods, x \in Slots : q # p \/ x # s => slot'[q][x] = slot[q][x]
  BY <1>0, BecomesTyped
<1>2. Moves(p, s)
  BY <1>1 DEF Moves, Send, Handles
<1>3. QueueInv' /\ Moved(p, s) /\ sent' \in [Pods -> Seq(Slots)] /\ replies' \in [Pods -> Seq(Slots)]
  BY <1>2, MovesQueues DEF Base
<1>4. In(sent'[p], s)
  <2>1. sent[p] \in Seq(Slots) /\ sent'[p] = Append(sent[p], s)
    BY DEF Base, CacheInv, TypeOK, Send
  <2> QED
    BY <2>1, AppendHolds
<1>5. CacheInv'
  BY <1>1, <1>3 DEF CacheInv, SlotsTyped, TypeOK, RestTyped
<1> QED
  BY <1>1, <1>2, <1>3, <1>4, <1>5 DEF Base, Becomes

LEMMA ContinueBase ==
    ASSUME Base, RestTyped', NEW p \in Pods, NEW s \in Slots, NEW rec \in Slot, About(rec),
           Continue(p, s, rec), Handles(p, s)
    PROVE  Base' /\ Moves(p, s) /\ Moved(p, s) /\ Becomes(p, s, rec)
<1>0. CacheInv /\ QueueInv /\ Update(p, s, rec)
  BY DEF Base, Continue, Update
<1>1. /\ slot'[p][s] = rec /\ SlotsTyped' /\ Others(p, s)
      /\ \A q \in Pods, x \in Slots : q # p \/ x # s => slot'[q][x] = slot[q][x]
  BY <1>0, BecomesTyped
<1>2. Moves(p, s)
  BY <1>1 DEF Moves, Continue, Handles
<1>3. QueueInv' /\ Moved(p, s) /\ sent' \in [Pods -> Seq(Slots)] /\ replies' \in [Pods -> Seq(Slots)]
  BY <1>2, MovesQueues DEF Base
<1>5. CacheInv'
  BY <1>1, <1>3 DEF CacheInv, SlotsTyped, TypeOK, RestTyped
<1> QED
  BY <1>1, <1>2, <1>3, <1>5 DEF Base, Becomes

LEMMA FinishBase ==
    ASSUME Base, NEW p \in Pods, NEW s \in Slots, FinishSet(p, s), Handles(p, s),
           UNCHANGED <<clock, server, manifest, revalidated, sent>>, slot[p][s].key \in Keys
    PROVE  Base' /\ Moves(p, s) /\ Moved(p, s)
<1>1. /\ SlotsTyped' /\ Others(p, s)
      /\ pending' \in [Pods -> [Keys -> Slots \cup {None}]]
  BY FinishTyped DEF Base
<1>2. Moves(p, s)
  BY <1>1 DEF Moves, Handles
<1>3. QueueInv' /\ Moved(p, s) /\ sent' \in [Pods -> Seq(Slots)] /\ replies' \in [Pods -> Seq(Slots)]
  BY <1>2, MovesQueues DEF Base
<1>5. CacheInv'
  BY <1>1, <1>3 DEF Base, CacheInv, SlotsTyped, TypeOK, server
<1> QED
  BY <1>1, <1>2, <1>3, <1>5 DEF Base

-----------------------------------------------------------------------------
(***************************************************************************)
(* What each action makes of the request it moves, r before and n after.   *)
(***************************************************************************)
Setting == {"rendering", "store"}
Syncing == {"smembers", "mget"}
Getting == {"ready", "awaiting", "read"}

(* It stays in its set(), and awaits what it awaited, or nothing. *)
Keeps(r, n) ==
    /\ r.at \in Setting => n.at \in Setting /\ n.key = r.key
    /\ n.waitsOn = None \/ (n.waitsOn = r.waitsOn /\ n.key = r.key)

(* It goes on after refreshTags(), or it is over with the request it was. *)
Goes(r, n) ==
    /\ n.floor = r.floor /\ n.values = r.values /\ n.synced = r.synced
    /\ r.at \notin Syncing \cup {"served"} /\ n.at \notin Syncing
    /\ r.at \in Getting => n.at \in Getting

Quits(r, n) == n.floor = Zero /\ n.values = Zero /\ ~n.synced /\ n.at \notin Syncing

(* A step of a request that neither synchronizes nor revalidates. *)
Plain(p, s) ==
    /\ Base' /\ Moves(p, s) /\ Moved(p, s)
    /\ slot'[p][s].at \notin Stamping
    /\ Goes(slot[p][s], slot'[p][s]) \/ Quits(slot[p][s], slot'[p][s])

Lone(p, s) == \A q \in Pods, x \in Slots : q # p \/ x # s => slot'[q][x] = slot[q][x]

LEMMA SlotTyped ==
    ASSUME Base, NEW p \in Pods, NEW s \in Slots
    PROVE  slot[p][s] \in Slot /\ About(slot[p][s]) /\ RestTyped
<1> QED
  BY DEF Base, CacheInv, TypeOK, RestTyped

LEMMA MissTyped ==
    ASSUME NEW k \in Keys, NEW r, r.key = k
    PROVE  /\ Miss(r) \in Slot /\ About(Miss(r)) /\ Miss(r).at = "missed" /\ Miss(r).waitsOn = None
           /\ Miss(r).floor = Zero /\ Miss(r).values = Zero /\ ~Miss(r).synced
<1> DEFINE m == [Idle EXCEPT !.at = "missed", !.key = k]
<1>1. /\ m \in Slot /\ m.at = "missed" /\ m.waitsOn = None /\ m.key = k /\ ~m.backoff
      /\ m.floor = Zero /\ m.values = Zero /\ ~m.synced
  BY IdleTyped DEF Slot, Steps
<1>2. Miss(r) = m
  BY DEF Miss
<1> HIDE DEF m
<1>3. About(m)
  BY <1>1 DEF About, Stamping
<1> QED
  BY <1>1, <1>2, <1>3

LEMMA BackoffTyped ==
    ASSUME NEW r \in Slot, About(r), CanRetry(r), r.at \in Commands
    PROVE  /\ Backoff(r) \in Slot /\ About(Backoff(r))
           /\ Backoff(r) = [r EXCEPT !.tries = r.tries + 1, !.backoff = TRUE, !.ok = TRUE]
           /\ Backoff(r).at = r.at /\ Backoff(r).key = r.key /\ Backoff(r).waitsOn = r.waitsOn
           /\ Backoff(r).floor = r.floor /\ Backoff(r).values = r.values
           /\ Backoff(r).synced = r.synced /\ Backoff(r).time = r.time
           /\ Backoff(r).tags = r.tags /\ Backoff(r).todo = r.todo /\ Backoff(r).tag = r.tag
           /\ Backoff(r).store = r.store
<1> DEFINE m == [r EXCEPT !.tries = r.tries + 1, !.backoff = TRUE, !.ok = TRUE]
<1>1. r.tries + 1 \in 0..MaxRetries
  BY DEF CanRetry, Slot
<1>2. /\ m \in Slot /\ m.at = r.at /\ m.key = r.key /\ m.waitsOn = r.waitsOn
      /\ m.floor = r.floor /\ m.values = r.values /\ m.synced = r.synced /\ m.time = r.time
      /\ m.tags = r.tags /\ m.todo = r.todo /\ m.tag = r.tag /\ m.store = r.store
  BY <1>1 DEF Slot
<1>3. Backoff(r) = m
  BY DEF Backoff
<1>4. About(m)
  BY <1>2 DEF About
<1> HIDE DEF m
<1>5. Backoff(r) \in Slot /\ About(Backoff(r))
  BY <1>2, <1>3, <1>4
<1> QED
  BY <1>2, <1>3, <1>5 DEF m

LEMMA ReissueBase ==
    ASSUME Base, NEW p \in Pods, NEW s \in Slots, Reissue(p, s)
    PROVE  /\ Base' /\ Moves(p, s) /\ Moved(p, s) /\ Lone(p, s)
           /\ slot'[p][s] = [slot[p][s] EXCEPT !.backoff = FALSE]
           /\ slot[p][s].backoff
<1> DEFINE r == slot[p][s]
           n == [r EXCEPT !.backoff = FALSE]
<1>1. r \in Slot /\ About(r) /\ RestTyped /\ r.backoff
  BY SlotTyped DEF Reissue
<1>2. n \in Slot /\ About(n) /\ n.at \in Commands /\ ~n.backoff
  BY <1>1 DEF Slot, About
<1>3. Send(p, s, n) /\ Handles(p, s) /\ RestTyped'
  BY <1>1 DEF Reissue, Handles, RestTyped, server
<1> HIDE DEF n
<1>4. Base' /\ Moves(p, s) /\ Moved(p, s) /\ Becomes(p, s, n)
  BY <1>2, <1>3, SendBase
<1> QED
  BY <1>1, <1>4 DEF Becomes, Lone, n

LEMMA BeginBase ==
    ASSUME Base, NEW p \in Pods, NEW s \in Slots, NEW k \in Keys, BeginRequest(p, s, k)
    PROVE  /\ Base' /\ Moves(p, s) /\ Moved(p, s) /\ Lone(p, s)
           /\ slot[p][s].at = "idle" /\ slot'[p][s].waitsOn = None
           /\ slot'[p][s].floor = revalidated /\ slot'[p][s].values = Zero /\ ~slot'[p][s].synced
           /\ \/ slot'[p][s].at = "ready"
              \/ slot'[p][s].at = "smembers" /\ In(sent'[p], s)
<1> DEFINE new == [Idle EXCEPT !.key = k, !.floor = revalidated]
           a == [new EXCEPT !.at = "smembers"]
           b == [new EXCEPT !.at = "ready"]
<1>1. slot[p][s].at = "idle" /\ RestTyped /\ RestTyped'
  BY SlotTyped DEF BeginRequest, Free, RestTyped, server
<1>2. revalidated \in [Tags -> Time]
  BY <1>1 DEF RestTyped
<1>3. /\ new \in Slot /\ new.floor = revalidated /\ new.values = Zero /\ ~new.synced
      /\ new.waitsOn = None /\ ~new.backoff /\ new.key = k /\ new.store = "redis"
  BY <1>2, IdleTyped DEF Slot
<1> HIDE DEF new
<1>4. /\ a \in Slot /\ a.floor = revalidated /\ a.values = Zero /\ ~a.synced
      /\ a.waitsOn = None /\ a.at = "smembers" /\ About(a) /\ ~a.backoff
  BY <1>3 DEF Slot, Steps, Commands, About, Fetching, Stamping
<1>5. /\ b \in Slot /\ b.floor = revalidated /\ b.values = Zero /\ ~b.synced
      /\ b.waitsOn = None /\ b.at = "ready" /\ About(b)
  BY <1>3 DEF Slot, Steps, Commands, About, Fetching, Stamping
<1>6. Handles(p, s)
  BY <1>1 DEF BeginRequest, Handles, Commands
<1>7. Send(p, s, a) \/ Continue(p, s, b)
  BY DEF BeginRequest, new
<1> HIDE DEF a, b
<1>8. CASE Send(p, s, a)
  <2>1. Base' /\ Moves(p, s) /\ Moved(p, s) /\ Becomes(p, s, a) /\ In(sent'[p], s)
    BY <1>1, <1>4, <1>6, <1>8, SendBase DEF Commands
  <2> QED
    BY <1>1, <1>4, <2>1 DEF Becomes, Lone
<1>9. CASE Continue(p, s, b)
  <2>1. Base' /\ Moves(p, s) /\ Moved(p, s) /\ Becomes(p, s, b)
    BY <1>1, <1>5, <1>6, <1>9, ContinueBase
  <2> QED
    BY <1>1, <1>5, <2>1 DEF Becomes, Lone
<1> QED
  BY <1>7, <1>8, <1>9

(* The request whose reply is handled. *)
LEMMA ReplyBase ==
    ASSUME Base, NEW p \in Pods, NEW s \in Slots, NEW at, Reply(p, s, at)
    PROVE  /\ slot[p][s] \in Slot /\ About(slot[p][s]) /\ slot[p][s].at = at
           /\ Taken(p, s) /\ Handles(p, s) /\ ~slot[p][s].backoff /\ In(replies[p], s)
           /\ \A x : ~Before(replies[p], x, s)
<1>1. Taken(p, s) /\ slot[p][s].at = at
  BY DEF Reply, Taken
<1> QED
  BY <1>1, SlotTyped, TakenFirst DEF Handles, Base

LEMMA SmembersBase ==
    ASSUME Base, NEW p \in Pods, NEW s \in Slots, ResumeSmembers(p, s)
    PROVE  /\ Base' /\ Moves(p, s) /\ Moved(p, s) /\ Lone(p, s)
           /\ Taken(p, s) /\ slot[p][s].at = "smembers" /\ Keeps(slot[p][s], slot'[p][s])
           /\ slot'[p][s].floor = slot[p][s].floor /\ slot'[p][s].values = slot[p][s].values
           /\ \/ /\ slot[p][s].ok /\ slot'[p][s].at = "mget" /\ slot'[p][s].tags = slot[p][s].tags
                 /\ slot'[p][s].synced = slot[p][s].synced
              \/ /\ slot'[p][s].at = "ready" /\ slot'[p][s].synced = slot[p][s].ok
                 /\ slot[p][s].ok => slot[p][s].tags = {}
<1> DEFINE r == slot[p][s]
           a == [r EXCEPT !.at = "mget"]
           b == [r EXCEPT !.at = "ready", !.synced = r.ok, !.tags = {}, !.ok = TRUE]
<1>1. /\ r \in Slot /\ About(r) /\ r.at = "smembers" /\ ~r.backoff /\ Taken(p, s) /\ Handles(p, s)
      /\ r.key \in Keys
  BY ReplyBase DEF ResumeSmembers, About, Fetching
<1>2. RestTyped'
  BY SlotTyped DEF ResumeSmembers, RestTyped, server
<1>3. /\ a \in Slot /\ a.at = "mget" /\ About(a) /\ ~a.backoff /\ a.floor = r.floor
      /\ a.values = r.values /\ a.tags = r.tags /\ a.synced = r.synced /\ Keeps(r, a)
  BY <1>1 DEF Slot, Steps, Commands, About, Stamping, Keeps, Setting
<1>4. /\ b \in Slot /\ b.at = "ready" /\ About(b) /\ b.floor = r.floor
      /\ b.values = r.values /\ b.synced = r.ok /\ Keeps(r, b)
  BY <1>1 DEF Slot, Steps, Commands, About, Stamping, Keeps, Setting
<1>5. (r.ok /\ Send(p, s, a)) \/ ((r.ok => r.tags = {}) /\ Continue(p, s, b))
  BY DEF ResumeSmembers
<1> HIDE DEF a, b
<1>6. CASE r.ok /\ Send(p, s, a)
  <2>1. Base' /\ Moves(p, s) /\ Moved(p, s) /\ Becomes(p, s, a)
    BY <1>1, <1>2, <1>3, <1>6, SendBase DEF Commands
  <2> QED
    BY <1>1, <1>3, <1>6, <2>1 DEF Becomes, Lone
<1>7. CASE (r.ok => r.tags = {}) /\ Continue(p, s, b)
  <2>1. Base' /\ Moves(p, s) /\ Moved(p, s) /\ Becomes(p, s, b)
    BY <1>1, <1>2, <1>4, <1>7, ContinueBase
  <2> QED
    BY <1>1, <1>4, <1>7, <2>1 DEF Becomes, Lone
<1> QED
  BY <1>5, <1>6, <1>7

LEMMA MgetBase ==
    ASSUME Base, NEW p \in Pods, NEW s \in Slots, ResumeMget(p, s)
    PROVE  /\ Base' /\ Moves(p, s) /\ Moved(p, s) /\ Lone(p, s)
           /\ Taken(p, s) /\ slot[p][s].at = "mget" /\ Keeps(slot[p][s], slot'[p][s])
           /\ slot'[p][s].floor = slot[p][s].floor /\ slot'[p][s].values = Zero
           /\ slot'[p][s].at = "ready" /\ slot'[p][s].synced = slot[p][s].ok
           /\ \A q \in Pods, t \in Tags : manifest'[q][t] =
                IF q = p /\ slot[p][s].ok /\ slot[p][s].values[t] > 0 THEN slot[p][s].values[t]
                                                                  ELSE manifest[q][t]
<1> DEFINE r == slot[p][s]
           m == [t \in Tags |-> IF r.values[t] > 0 THEN r.values[t] ELSE manifest[p][t]]
           b == [r EXCEPT !.at = "ready", !.synced = r.ok, !.tags = {}, !.values = Zero, !.ok = TRUE]
<1>1. /\ r \in Slot /\ About(r) /\ r.at = "mget" /\ ~r.backoff /\ Taken(p, s) /\ Handles(p, s)
      /\ r.key \in Keys
  BY ReplyBase DEF ResumeMget, About, Fetching
<1>2. manifest \in [Pods -> [Tags -> Time]] /\ r.values \in [Tags -> Time] /\ RestTyped
  BY <1>1, SlotTyped DEF RestTyped, Slot
<1>3. m \in [Tags -> Time]
  BY <1>2
<1>4. manifest' = IF r.ok THEN [manifest EXCEPT ![p] = m] ELSE manifest
  BY DEF ResumeMget
<1>5. manifest' \in [Pods -> [Tags -> Time]]
  BY <1>2, <1>3, <1>4
<1>6. \A q \in Pods, t \in Tags :
        manifest'[q][t] = IF q = p /\ r.ok /\ r.values[t] > 0 THEN r.values[t] ELSE manifest[q][t]
  BY <1>2, <1>4
<1>7. RestTyped'
  BY <1>2, <1>5 DEF ResumeMget, RestTyped, server
<1>8. Zero \in [Tags -> Time]
  BY IdleTyped DEF Slot
<1>9. /\ b \in Slot /\ b.at = "ready" /\ About(b) /\ b.floor = r.floor
      /\ b.values = Zero /\ b.synced = r.ok /\ Keeps(r, b)
  BY <1>1, <1>8 DEF Slot, Steps, Commands, About, Stamping, Keeps, Setting
<1>10. Continue(p, s, b)
  BY DEF ResumeMget
<1> HIDE DEF b, m
<1>11. Base' /\ Moves(p, s) /\ Moved(p, s) /\ Becomes(p, s, b)
  BY <1>1, <1>7, <1>9, <1>10, ContinueBase
<1> QED
  BY <1>1, <1>6, <1>9, <1>11 DEF Becomes, Lone

LEMMA CallGetBase ==
    ASSUME Base, NEW p \in Pods, NEW s \in Slots, CallGet(p, s)
    PROVE  /\ Plain(p, s) /\ Lone(p, s)
           /\ slot[p][s].key \in Keys /\ slot[p][s].at = "ready"
           /\ slot'[p][s].key = slot[p][s].key
           /\ slot'[p][s].waitsOn = pending[p][slot[p][s].key]
<1> DEFINE r == slot[p][s]
           w == pending[p][r.key]
           n == [r EXCEPT !.at = "awaiting", !.waitsOn = w]
<1>1. r \in Slot /\ About(r) /\ r.at = "ready" /\ RestTyped /\ r.key \in Keys /\ ~r.backoff
  BY SlotTyped DEF CallGet, About, Fetching, Commands
<1>2. w \in Slots \cup {None}
  BY <1>1 DEF RestTyped
<1>3. Continue(p, s, n) /\ Handles(p, s) /\ RestTyped'
  BY <1>1 DEF CallGet, Handles, RestTyped, server, Commands
<1> HIDE DEF w
<1>4. /\ n \in Slot /\ n.at = "awaiting" /\ n.key = r.key /\ n.waitsOn = w /\ About(n)
      /\ n.floor = r.floor /\ n.values = r.values /\ n.synced = r.synced
  BY <1>1, <1>2 DEF Slot, Steps, About, Stamping, Fetching
<1> HIDE DEF n
<1>5. Base' /\ Moves(p, s) /\ Moved(p, s) /\ Becomes(p, s, n)
  BY <1>1, <1>3, <1>4, ContinueBase
<1>6. Goes(r, n) /\ n.at \notin Stamping
  BY <1>1, <1>4 DEF Goes, Syncing, Getting, Stamping
<1> QED
  BY <1>1, <1>4, <1>5, <1>6 DEF Becomes, Lone, Plain, w

LEMMA ProceedBase ==
    ASSUME Base, NEW p \in Pods, NEW s \in Slots, ProceedGet(p, s)
    PROVE  Plain(p, s) /\ Lone(p, s) /\ Keeps(slot[p][s], slot'[p][s])
<1> DEFINE r == slot[p][s]
           n(c) == [r EXCEPT !.at = "read", !.store = c]
<1>1. /\ r \in Slot /\ About(r) /\ r.at = "awaiting" /\ r.waitsOn = None /\ RestTyped
      /\ r.key \in Keys /\ ~r.backoff
  BY SlotTyped DEF ProceedGet, About, Fetching, Commands
<1>2. Handles(p, s) /\ RestTyped'
  BY <1>1 DEF ProceedGet, Handles, RestTyped, server, Commands
<1>3. CASE \E c \in Stores : Send(p, s, n(c))
  <2>1. PICK c \in Stores : Send(p, s, n(c))
    BY <1>3
  <2>2. /\ n(c) \in Slot /\ n(c).at = "read" /\ n(c).key = r.key /\ n(c).waitsOn = None
        /\ About(n(c)) /\ ~n(c).backoff
        /\ n(c).floor = r.floor /\ n(c).values = r.values /\ n(c).synced = r.synced
    <3>1. n(c) \in Slot /\ n(c) = [r EXCEPT !.at = "read", !.store = c]
      BY <1>1 DEF Slot, Steps, Commands
    <3>2. /\ n(c).at = "read" /\ n(c).key = r.key /\ n(c).waitsOn = None /\ ~n(c).backoff
          /\ n(c).floor = r.floor /\ n(c).values = r.values /\ n(c).synced = r.synced
      BY <1>1, <3>1 DEF Slot
    <3> HIDE DEF n
    <3> QED
      BY <1>1, <3>1, <3>2 DEF About, Stamping, Fetching
  <2> HIDE DEF n
  <2>3. Base' /\ Moves(p, s) /\ Moved(p, s) /\ Becomes(p, s, n(c))
    BY <1>1, <1>2, <2>1, <2>2, SendBase DEF Commands
  <2>4. Goes(r, n(c)) /\ n(c).at \notin Stamping /\ Keeps(r, n(c))
    BY <1>1, <2>2 DEF Goes, Syncing, Getting, Stamping, Keeps, Setting
  <2> QED
    BY <2>3, <2>4 DEF Becomes, Lone, Plain
<1>4. CASE Continue(p, s, Miss(r))
  <2>1. /\ Miss(r) \in Slot /\ About(Miss(r)) /\ Miss(r).at = "missed" /\ Miss(r).waitsOn = None
        /\ Miss(r).floor = Zero /\ Miss(r).values = Zero /\ ~Miss(r).synced
    BY <1>1, MissTyped
  <2>2. Base' /\ Moves(p, s) /\ Moved(p, s) /\ Becomes(p, s, Miss(r))
    BY <1>1, <1>2, <1>4, <2>1, ContinueBase
  <2>3. Quits(r, Miss(r)) /\ Miss(r).at \notin Stamping /\ Keeps(r, Miss(r))
    BY <1>1, <2>1 DEF Quits, Syncing, Stamping, Keeps, Setting
  <2> QED
    BY <2>2, <2>3 DEF Becomes, Lone, Plain
<1> QED
  BY <1>3, <1>4 DEF ProceedGet

LEMMA ReadBase ==
    ASSUME Base, NEW p \in Pods, NEW s \in Slots, ResumeRead(p, s)
    PROVE  /\ Base' /\ Moves(p, s) /\ Moved(p, s) /\ Lone(p, s)
           /\ Keeps(slot[p][s], slot'[p][s])
           /\ \/ Plain(p, s)
              \/ /\ slot[p][s].at = "read" /\ slot'[p][s].at = "served"
                 /\ slot[p][s].key \in Keys /\ slot'[p][s].key = slot[p][s].key
                 /\ slot'[p][s].floor = slot[p][s].floor /\ slot'[p][s].values = slot[p][s].values
                 /\ slot'[p][s].synced = slot[p][s].synced /\ slot'[p][s].time = slot[p][s].time
                 /\ slot[p][s].time # 0 /\ ~IsStaleByTags(p, slot[p][s].key, slot[p][s].time)
<1> DEFINE r == slot[p][s]
           n == [r EXCEPT !.at = "served"]
<1>1. /\ r \in Slot /\ About(r) /\ r.at = "read" /\ ~r.backoff /\ Taken(p, s) /\ Handles(p, s)
      /\ r.key \in Keys
  BY ReplyBase DEF ResumeRead, About, Fetching
<1>2. RestTyped'
  BY SlotTyped DEF ResumeRead, RestTyped, server
<1>3. \/ CanRetry(r) /\ Continue(p, s, Backoff(r))
      \/ Continue(p, s, Miss(r))
      \/ Continue(p, s, n) /\ r.time # 0 /\ ~IsStaleByTags(p, r.key, r.time)
  <2>1. Continue(p, s, CASE CanRetry(r) -> Backoff(r)
               [] ~r.ok /\ ~CanRetry(r) -> Miss(r)
               [] r.ok /\ (r.time = 0 \/ IsStaleByTags(p, r.key, r.time)) -> Miss(r)
               [] OTHER -> n)
    BY DEF ResumeRead
  <2>2. r.ok \in BOOLEAN /\ (CanRetry(r) => ~r.ok)
    BY <1>1 DEF Slot, CanRetry
  <2> HIDE DEF n
  <2>3. CASE CanRetry(r)
    BY <2>1, <2>2, <2>3
  <2>4. CASE ~CanRetry(r) /\ ~r.ok
    BY <2>1, <2>2, <2>4
  <2>5. CASE r.ok /\ (r.time = 0 \/ IsStaleByTags(p, r.key, r.time))
    BY <2>1, <2>2, <2>5
  <2>6. CASE r.ok /\ ~(r.time = 0 \/ IsStaleByTags(p, r.key, r.time))
    BY <2>1, <2>2, <2>6
  <2> QED
    BY <2>2, <2>3, <2>4, <2>5, <2>6
<1>4. CASE CanRetry(r) /\ Continue(p, s, Backoff(r))
  <2>1. /\ Backoff(r) \in Slot /\ About(Backoff(r)) /\ Backoff(r).at = "read" /\ Backoff(r).key = r.key
        /\ Backoff(r).waitsOn = r.waitsOn /\ Backoff(r).floor = r.floor
        /\ Backoff(r).values = r.values /\ Backoff(r).synced = r.synced
    BY <1>1, <1>4, BackoffTyped DEF Commands
  <2>2. Base' /\ Moves(p, s) /\ Moved(p, s) /\ Becomes(p, s, Backoff(r))
    BY <1>1, <1>2, <1>4, <2>1, ContinueBase
  <2>3. Goes(r, Backoff(r)) /\ Backoff(r).at \notin Stamping /\ Keeps(r, Backoff(r))
    BY <1>1, <2>1 DEF Goes, Syncing, Getting, Stamping, Keeps, Setting
  <2> QED
    BY <2>2, <2>3 DEF Becomes, Lone, Plain
<1>5. CASE Continue(p, s, Miss(r))
  <2>1. /\ Miss(r) \in Slot /\ About(Miss(r)) /\ Miss(r).at = "missed" /\ Miss(r).waitsOn = None
        /\ Miss(r).floor = Zero /\ Miss(r).values = Zero /\ ~Miss(r).synced
    BY <1>1, MissTyped
  <2>2. Base' /\ Moves(p, s) /\ Moved(p, s) /\ Becomes(p, s, Miss(r))
    BY <1>1, <1>2, <1>5, <2>1, ContinueBase
  <2>3. Quits(r, Miss(r)) /\ Miss(r).at \notin Stamping /\ Keeps(r, Miss(r))
    BY <1>1, <2>1 DEF Quits, Syncing, Stamping, Keeps, Setting
  <2> QED
    BY <2>2, <2>3 DEF Becomes, Lone, Plain
<1>6. CASE Continue(p, s, n) /\ r.time # 0 /\ ~IsStaleByTags(p, r.key, r.time)
  <2>1. /\ n \in Slot /\ About(n) /\ n.at = "served" /\ n.key = r.key /\ n.time = r.time
        /\ n.waitsOn = r.waitsOn
        /\ n.floor = r.floor /\ n.values = r.values /\ n.synced = r.synced
    BY <1>1 DEF Slot, Steps, About, Stamping, Fetching
  <2> HIDE DEF n
  <2>2. Base' /\ Moves(p, s) /\ Moved(p, s) /\ Becomes(p, s, n)
    BY <1>1, <1>2, <1>6, <2>1, ContinueBase
  <2>3. Keeps(r, n)
    BY <1>1, <2>1 DEF Keeps, Setting
  <2> QED
    BY <1>1, <1>6, <2>1, <2>2, <2>3 DEF Becomes, Lone
<1> QED
  BY <1>3, <1>4, <1>5, <1>6

LEMMA EndBase ==
    ASSUME Base, NEW p \in Pods, NEW s \in Slots, EndRequest(p, s)
    PROVE  Plain(p, s) /\ Lone(p, s) /\ Keeps(slot[p][s], slot'[p][s])
<1>1. slot[p][s] \in Slot /\ slot[p][s].at \in {"served", "missed"} /\ RestTyped
  BY SlotTyped DEF EndRequest
<1>2. Continue(p, s, Idle) /\ Handles(p, s) /\ RestTyped'
  BY <1>1 DEF EndRequest, Handles, RestTyped, server, Commands
<1>3. Base' /\ Moves(p, s) /\ Moved(p, s) /\ Becomes(p, s, Idle)
  BY <1>2, ContinueBase, IdleTyped
<1>4. Quits(slot[p][s], Idle) /\ Idle.at \notin Stamping /\ Keeps(slot[p][s], Idle)
  BY <1>1, IdleTyped DEF Quits, Syncing, Stamping, Keeps, Setting
<1> QED
  BY <1>3, <1>4 DEF Becomes, Lone, Plain

LEMMA CallSetBase ==
    ASSUME Base, NEW p \in Pods, NEW s \in Slots, CallSet(p, s)
    PROVE  /\ Plain(p, s) /\ Lone(p, s) /\ Keeps(slot[p][s], slot'[p][s])
           /\ slot[p][s].at = "missed"
           /\ slot[p][s].key \in Keys /\ slot'[p][s].key = slot[p][s].key
           /\ slot'[p][s].at = "rendering"
           /\ \A q \in Pods, k \in Keys :
                pending'[q][k] = IF q = p /\ k = slot[p][s].key THEN s ELSE pending[q][k]
<1> DEFINE r == slot[p][s]
           n == [r EXCEPT !.at = "rendering", !.time = clock]
<1>1. r \in Slot /\ About(r) /\ r.at = "missed" /\ RestTyped /\ r.key \in Keys /\ ~r.backoff
  BY SlotTyped DEF CallSet, About, Fetching, Commands
<1>2. Continue(p, s, n) /\ Handles(p, s) /\ pending' = [pending EXCEPT ![p][r.key] = s]
  BY <1>1 DEF CallSet, Handles, Commands
<1>3. /\ pending' \in [Pods -> [Keys -> Slots \cup {None}]]
      /\ \A q \in Pods, k \in Keys :
            pending'[q][k] = IF q = p /\ k = r.key THEN s ELSE pending[q][k]
  BY <1>1, <1>2 DEF RestTyped
<1>4. RestTyped'
  BY <1>1, <1>3 DEF CallSet, RestTyped, server
<1>5. /\ n \in Slot /\ n.at = "rendering" /\ n.key = r.key /\ n.waitsOn = r.waitsOn /\ About(n)
      /\ n.floor = r.floor /\ n.values = r.values /\ n.synced = r.synced
  BY <1>1 DEF Slot, Steps, About, Stamping, Fetching, RestTyped
<1> HIDE DEF n
<1>6. Base' /\ Moves(p, s) /\ Moved(p, s) /\ Becomes(p, s, n)
  BY <1>1, <1>2, <1>4, <1>5, ContinueBase
<1>7. Goes(r, n) /\ n.at \notin Stamping /\ Keeps(r, n)
  BY <1>1, <1>5 DEF Goes, Syncing, Getting, Stamping, Keeps, Setting
<1> QED
  BY <1>1, <1>3, <1>5, <1>6, <1>7 DEF Becomes, Lone, Plain

(* The set() of s is over. *)
LEMMA FinishPlain ==
    ASSUME Base, NEW p \in Pods, NEW s \in Slots, FinishSet(p, s), Handles(p, s),
           UNCHANGED <<clock, server, manifest, revalidated, sent>>, slot[p][s].key \in Keys
    PROVE  Plain(p, s)
<1>1. Base' /\ Moves(p, s) /\ Moved(p, s)
  BY FinishBase
<1>2. slot'[p][s] = Idle
  BY FinishTyped DEF Base
<1>3. Quits(slot[p][s], Idle) /\ Idle.at \notin Stamping
  BY IdleTyped DEF Quits, Syncing, Stamping
<1> QED
  BY <1>1, <1>2, <1>3 DEF Plain

LEMMA RenderedBase ==
    ASSUME Base, NEW p \in Pods, NEW s \in Slots, Rendered(p, s)
    PROVE  /\ Plain(p, s) /\ slot[p][s].at = "rendering" /\ slot[p][s].key \in Keys
           /\ \/ FinishSet(p, s)
              \/ Lone(p, s) /\ pending' = pending /\ Keeps(slot[p][s], slot'[p][s])
<1> DEFINE r == slot[p][s]
           n(c) == [r EXCEPT !.at = "store", !.store = c]
<1>1. r \in Slot /\ About(r) /\ r.at = "rendering" /\ RestTyped /\ r.key \in Keys /\ ~r.backoff
  BY SlotTyped DEF Rendered, About, Fetching, Commands
<1>2. Handles(p, s)
  BY <1>1 DEF Rendered, Handles, Commands
<1>3. CASE (\E c \in Stores : Send(p, s, n(c))) /\ UNCHANGED pending
  <2>1. PICK c \in Stores : Send(p, s, n(c))
    BY <1>3
  <2>2. /\ n(c) \in Slot /\ n(c).at = "store" /\ n(c).key = r.key /\ n(c).waitsOn = r.waitsOn
        /\ About(n(c)) /\ ~n(c).backoff
        /\ n(c).floor = r.floor /\ n(c).values = r.values /\ n(c).synced = r.synced
    <3>1. n(c) \in Slot /\ n(c) = [r EXCEPT !.at = "store", !.store = c]
      BY <1>1 DEF Slot, Steps, Commands
    <3>2. /\ n(c).at = "store" /\ n(c).key = r.key /\ n(c).waitsOn = r.waitsOn /\ ~n(c).backoff
          /\ n(c).floor = r.floor /\ n(c).values = r.values /\ n(c).synced = r.synced
      BY <1>1, <3>1 DEF Slot
    <3> HIDE DEF n
    <3> QED
      BY <1>1, <3>1, <3>2 DEF About, Stamping, Fetching
  <2>3. RestTyped'
    BY <1>1, <1>3 DEF Rendered, RestTyped, server
  <2> HIDE DEF n
  <2>4. Base' /\ Moves(p, s) /\ Moved(p, s) /\ Becomes(p, s, n(c))
    BY <1>1, <1>2, <2>1, <2>2, <2>3, SendBase DEF Commands
  <2>5. Goes(r, n(c)) /\ n(c).at \notin Stamping /\ Keeps(r, n(c))
    BY <1>1, <2>2 DEF Goes, Syncing, Getting, Stamping, Keeps, Setting
  <2> QED
    BY <1>1, <1>3, <2>4, <2>5 DEF Becomes, Lone, Plain
<1>4. CASE FinishSet(p, s) /\ UNCHANGED sent
  <2>1. UNCHANGED <<clock, server, manifest, revalidated, sent>>
    BY <1>4 DEF Rendered
  <2> QED
    BY <1>1, <1>2, <1>4, <2>1, FinishPlain
<1> QED
  BY <1>3, <1>4 DEF Rendered

LEMMA StoreBase ==
    ASSUME Base, NEW p \in Pods, NEW s \in Slots, ResumeStore(p, s)
    PROVE  /\ Plain(p, s) /\ slot[p][s].at = "store" /\ slot[p][s].key \in Keys
           /\ \/ FinishSet(p, s)
              \/ Lone(p, s) /\ pending' = pending /\ Keeps(slot[p][s], slot'[p][s])
<1> DEFINE r == slot[p][s]
<1>1. /\ r \in Slot /\ About(r) /\ r.at = "store" /\ ~r.backoff /\ Taken(p, s) /\ Handles(p, s)
      /\ r.key \in Keys
  BY ReplyBase DEF ResumeStore, About, Fetching
<1>2. CASE CanRetry(r) /\ Continue(p, s, Backoff(r)) /\ UNCHANGED pending
  <2>1. /\ Backoff(r) \in Slot /\ About(Backoff(r)) /\ Backoff(r).at = "store" /\ Backoff(r).key = r.key
        /\ Backoff(r).waitsOn = r.waitsOn /\ Backoff(r).floor = r.floor
        /\ Backoff(r).values = r.values /\ Backoff(r).synced = r.synced
    BY <1>1, <1>2, BackoffTyped DEF Commands
  <2>2. RestTyped'
    BY <1>2, SlotTyped DEF ResumeStore, RestTyped, server
  <2>3. Base' /\ Moves(p, s) /\ Moved(p, s) /\ Becomes(p, s, Backoff(r))
    BY <1>1, <1>2, <2>1, <2>2, ContinueBase
  <2>4. Goes(r, Backoff(r)) /\ Backoff(r).at \notin Stamping /\ Keeps(r, Backoff(r))
    BY <1>1, <2>1 DEF Goes, Syncing, Getting, Stamping, Keeps, Setting
  <2> QED
    BY <1>1, <1>2, <2>3, <2>4 DEF Becomes, Lone, Plain
<1>3. CASE FinishSet(p, s) /\ UNCHANGED sent
  <2>1. UNCHANGED <<clock, server, manifest, revalidated, sent>>
    BY <1>3 DEF ResumeStore
  <2> QED
    BY <1>1, <1>3, <2>1, FinishPlain
<1> QED
  BY <1>2, <1>3 DEF ResumeStore

-----------------------------------------------------------------------------
(***************************************************************************)
(* The steps of a revalidation.                                            *)
(***************************************************************************)
(* The same revalidation, and what else a request keeps. *)
Same(r, n) ==
    /\ n.tags = r.tags /\ n.time = r.time /\ n.store = r.store
    /\ n.floor = r.floor /\ n.values = r.values /\ n.synced = r.synced
    /\ n.waitsOn = r.waitsOn /\ n.key = r.key

(* All over again, on to INDEX, to the next tag. *)
Restamps(r, n) == Same(r, n) /\ n.at = "stamp" /\ n.tag \in r.tags /\ n.todo = r.tags \ {n.tag}
Indexes(r, n) ==
    Same(r, n) /\ r.at = "stamp" /\ r.ok /\ n.at = "index" /\ n.tag = r.tag /\ n.todo = r.todo
NextTag(r, n) ==
    /\ Same(r, n) /\ r.at = "index" /\ r.ok
    /\ n.at = "stamp" /\ n.tag \in r.todo /\ n.todo = r.todo \ {n.tag}

(* A step of a revalidation under way. *)
Revalidates(p, s) ==
    LET r == slot[p][s]
        n == slot'[p][s]
    IN  /\ Base' /\ Moves(p, s) /\ Moved(p, s) /\ Lone(p, s)
        /\ About(r) /\ r.at \in Stamping /\ In(replies[p], s)
        /\ n = Idle \/ Restamps(r, n) \/ Indexes(r, n) \/ NextTag(r, n)

LEMMA UpdateBase ==
    ASSUME Base, NEW p \in Pods, NEW s \in Slots, NEW T \in SUBSET Tags, CallUpdateTags(p, s, T)
    PROVE  /\ Base' /\ Moves(p, s) /\ Moved(p, s) /\ Lone(p, s)
           /\ Quits(slot[p][s], slot'[p][s]) /\ Keeps(slot[p][s], slot'[p][s])
           /\ \A q \in Pods, t \in Tags :
                manifest'[q][t] = IF q = p /\ t \in T THEN clock ELSE manifest[q][t]
           /\ slot'[p][s].at \in Stamping =>
                /\ slot'[p][s].at = "stamp" /\ slot'[p][s].tags = T /\ slot'[p][s].time = clock
                /\ slot'[p][s].tag \in T /\ slot'[p][s].todo = T \ {slot'[p][s].tag}
<1> DEFINE r == slot[p][s]
           m == [t \in Tags |-> IF t \in T THEN clock ELSE manifest[p][t]]
           n(t, c) == [Idle EXCEPT !.at = "stamp", !.time = clock, !.tags = T,
                                   !.todo = T \ {t}, !.tag = t, !.store = c]
<1>1. r \in Slot /\ r.at = "idle" /\ RestTyped /\ Handles(p, s)
  BY SlotTyped DEF CallUpdateTags, Free, Handles, Commands
<1>2. m \in [Tags -> Time] /\ manifest' = [manifest EXCEPT ![p] = m]
  <2>1. m \in [Tags -> Time]
    BY <1>1 DEF RestTyped
  <2>2. manifest' = [manifest EXCEPT ![p] = m]
    BY DEF CallUpdateTags
  <2> QED
    BY <2>1, <2>2
<1>3. manifest' \in [Pods -> [Tags -> Time]]
  BY <1>1, <1>2 DEF RestTyped
<1>4. \A q \in Pods, t \in Tags :
        manifest'[q][t] = IF q = p /\ t \in T THEN clock ELSE manifest[q][t]
  BY <1>1, <1>2 DEF RestTyped
<1> HIDE DEF m
<1>5. RestTyped'
  BY <1>1, <1>3 DEF CallUpdateTags, RestTyped, server
<1>6. CASE \E t \in T, c \in Stores : Send(p, s, n(t, c))
  <2>1. PICK t \in T, c \in Stores : Send(p, s, n(t, c))
    BY <1>6
  <2>2. /\ n(t, c) \in Slot /\ n(t, c).at = "stamp" /\ n(t, c).time = clock /\ n(t, c).tags = T
        /\ n(t, c).todo = T \ {t} /\ n(t, c).tag = t /\ ~n(t, c).backoff
        /\ n(t, c).floor = Zero /\ n(t, c).values = Zero /\ ~n(t, c).synced
        /\ n(t, c).waitsOn = None
    BY <1>1, IdleTyped DEF Slot, Steps, Commands, RestTyped
  <2> HIDE DEF n
  <2>3. About(n(t, c))
    BY <2>2 DEF About, Fetching
  <2>4. Base' /\ Moves(p, s) /\ Moved(p, s) /\ Becomes(p, s, n(t, c))
    BY <1>1, <1>5, <2>1, <2>2, <2>3, SendBase DEF Commands
  <2>5. Quits(r, n(t, c)) /\ Keeps(r, n(t, c))
    BY <1>1, <2>2 DEF Quits, Syncing, Keeps, Setting
  <2> QED
    BY <1>4, <2>2, <2>4, <2>5 DEF Becomes, Lone
<1>7. CASE Continue(p, s, Idle)
  <2>1. Base' /\ Moves(p, s) /\ Moved(p, s) /\ Becomes(p, s, Idle)
    BY <1>1, <1>5, <1>7, ContinueBase, IdleTyped
  <2>2. Quits(r, Idle) /\ Idle.at \notin Stamping /\ Keeps(r, Idle)
    BY <1>1, IdleTyped DEF Quits, Syncing, Stamping, Keeps, Setting
  <2> QED
    BY <1>4, <2>1, <2>2 DEF Becomes, Lone
<1> QED
  BY <1>6, <1>7 DEF CallUpdateTags

(* After an error: all over again, or never. *)
LEMMA RetryBase ==
    ASSUME Base, RestTyped', NEW p \in Pods, NEW s \in Slots, RetryTags(p, s), Handles(p, s),
           In(replies[p], s), slot[p][s].at \in Stamping
    PROVE  Revalidates(p, s)
<1> DEFINE r == slot[p][s]
           n(t) == [Backoff(r) EXCEPT !.at = "stamp", !.tag = t, !.todo = r.tags \ {t}]
<1>1. r \in Slot /\ About(r)
  BY SlotTyped
<1>2. CASE CanRetry(r)
  <2>1. PICK t \in r.tags : Continue(p, s, n(t))
    BY <1>2 DEF RetryTags
  <2>2. /\ Backoff(r) \in Slot /\ Backoff(r).waitsOn = r.waitsOn /\ Backoff(r).key = r.key
        /\ Backoff(r).floor = r.floor /\ Backoff(r).values = r.values
        /\ Backoff(r).synced = r.synced /\ Backoff(r).time = r.time
        /\ Backoff(r).tags = r.tags /\ Backoff(r).store = r.store
    BY <1>1, <1>2, BackoffTyped DEF Stamping, Commands
  <2>3. n(t) \in Slot /\ Restamps(r, n(t))
    BY <1>1, <2>2 DEF Slot, Steps, Commands, Same, Restamps
  <2> HIDE DEF n
  <2>4. About(n(t))
    BY <2>3 DEF About, Fetching, Restamps, Same, Commands
  <2>5. Base' /\ Moves(p, s) /\ Moved(p, s) /\ Becomes(p, s, n(t))
    BY <1>1, <2>1, <2>3, <2>4, ContinueBase
  <2> QED
    BY <1>1, <2>3, <2>5 DEF Revalidates, Becomes, Lone
<1>3. CASE ~CanRetry(r)
  <2>1. Continue(p, s, Idle)
    BY <1>3 DEF RetryTags
  <2>2. Base' /\ Moves(p, s) /\ Moved(p, s) /\ Becomes(p, s, Idle)
    BY <1>1, <2>1, ContinueBase, IdleTyped
  <2> QED
    BY <1>1, <2>2 DEF Revalidates, Becomes, Lone
<1> QED
  BY <1>2, <1>3

LEMMA StampBase ==
    ASSUME Base, NEW p \in Pods, NEW s \in Slots, ResumeStamp(p, s)
    PROVE  Revalidates(p, s)
<1> DEFINE r == slot[p][s]
           n == [r EXCEPT !.at = "index"]
<1>1. /\ r \in Slot /\ About(r) /\ r.at = "stamp" /\ ~r.backoff /\ Handles(p, s)
      /\ In(replies[p], s) /\ r.at \in Stamping
  BY ReplyBase DEF ResumeStamp, Stamping
<1>2. RestTyped'
  BY SlotTyped DEF ResumeStamp, RestTyped, server
<1>3. CASE r.ok /\ Send(p, s, n)
  <2>1. n \in Slot /\ Indexes(r, n) /\ ~n.backoff
    BY <1>1, <1>3 DEF Slot, Steps, Commands, Same, Indexes
  <2> HIDE DEF n
  <2>2. About(n)
    BY <1>1, <2>1 DEF About, Fetching, Indexes, Same, Commands, Stamping
  <2>3. Base' /\ Moves(p, s) /\ Moved(p, s) /\ Becomes(p, s, n)
    BY <1>1, <1>2, <1>3, <2>1, <2>2, SendBase DEF Indexes, Commands
  <2> QED
    BY <1>1, <2>1, <2>3 DEF Revalidates, Becomes, Lone
<1>4. CASE RetryTags(p, s)
  BY <1>1, <1>2, <1>4, RetryBase
<1> QED
  BY <1>3, <1>4 DEF ResumeStamp

LEMMA IndexBase ==
    ASSUME Base, NEW p \in Pods, NEW s \in Slots, ResumeIndex(p, s)
    PROVE  /\ Revalidates(p, s)
           /\ \/ revalidated' = revalidated
              \/ /\ slot[p][s].at = "index" /\ slot[p][s].ok /\ slot[p][s].todo = {}
                 /\ slot'[p][s] = Idle
                 /\ \A t \in Tags : revalidated'[t] =
                      IF slot[p][s].store = "redis" /\ t \in slot[p][s].tags
                         /\ slot[p][s].time > revalidated[t]
                        THEN slot[p][s].time ELSE revalidated[t]
<1> DEFINE r == slot[p][s]
           n(t) == [r EXCEPT !.at = "stamp", !.tag = t, !.todo = r.todo \ {t}]
           v == [t \in Tags |-> IF r.store = "redis" /\ t \in r.tags /\ r.time > revalidated[t]
                                  THEN r.time ELSE revalidated[t]]
<1>1. /\ r \in Slot /\ About(r) /\ r.at = "index" /\ ~r.backoff /\ Handles(p, s)
      /\ In(replies[p], s) /\ r.at \in Stamping
  BY ReplyBase DEF ResumeIndex, Stamping
<1>2. RestTyped
  BY SlotTyped
<1>3. v \in [Tags -> Time]
  BY <1>1, <1>2 DEF RestTyped, Slot
<1>4. revalidated' = revalidated \/ revalidated' = v
  BY DEF ResumeIndex
<1>5. RestTyped'
  BY <1>2, <1>3, <1>4 DEF ResumeIndex, RestTyped, server
<1>6. CASE r.ok /\ r.todo # {} /\ revalidated' = revalidated /\ \E t \in r.todo : Send(p, s, n(t))
  <2>1. PICK t \in r.todo : Send(p, s, n(t))
    BY <1>6
  <2>2. n(t) \in Slot /\ NextTag(r, n(t)) /\ ~n(t).backoff
    BY <1>1, <1>6 DEF Slot, Steps, Commands, Same, NextTag
  <2> HIDE DEF n
  <2>3. About(n(t))
    BY <1>1, <2>2 DEF About, Fetching, NextTag, Same, Commands, Stamping
  <2>4. Base' /\ Moves(p, s) /\ Moved(p, s) /\ Becomes(p, s, n(t))
    BY <1>1, <1>5, <2>1, <2>2, <2>3, SendBase DEF NextTag, Commands
  <2> QED
    BY <1>1, <1>6, <2>2, <2>4 DEF Revalidates, Becomes, Lone
<1>7. CASE r.ok /\ r.todo = {} /\ revalidated' = v /\ Continue(p, s, Idle)
  <2>1. Base' /\ Moves(p, s) /\ Moved(p, s) /\ Becomes(p, s, Idle)
    BY <1>1, <1>5, <1>7, ContinueBase, IdleTyped
  <2> QED
    BY <1>1, <1>7, <2>1 DEF Revalidates, Becomes, Lone
<1>8. CASE RetryTags(p, s) /\ revalidated' = revalidated
  BY <1>1, <1>5, <1>8, RetryBase
<1> QED
  BY <1>6, <1>7, <1>8 DEF ResumeIndex

-----------------------------------------------------------------------------
(***************************************************************************)
(* A store executes a command.                                             *)
(***************************************************************************)
(* Where the command goes. *)
Passes(p, h) ==
    /\ In(sent[p], h) /\ ~In(replies[p], h) /\ slot[p][h].at \in Commands /\ ~slot[p][h].backoff
    /\ \A x : In(sent'[p], x) <=> In(sent[p], x) /\ x # h
    /\ \A x : In(replies'[p], x) <=> In(replies[p], x) \/ x = h
    /\ \A x, y : Before(replies[p], x, y) => Before(replies'[p], x, y)
    /\ \A x : In(replies[p], x) => Before(replies'[p], x, h)
    /\ \A q \in Pods : q # p => sent'[q] = sent[q] /\ replies'[q] = replies[q]

(* What the reply leaves of the request, and what it brings. *)
Answers(r, n) ==
    /\ n.at = r.at /\ n.key = r.key /\ n.todo = r.todo /\ n.tag = r.tag /\ n.store = r.store
    /\ n.waitsOn = r.waitsOn /\ n.synced = r.synced /\ n.floor = r.floor
    /\ r.at # "smembers" => n.tags = r.tags
    /\ r.at # "mget" => n.values = r.values
    /\ r.at # "read" => n.time = r.time
    /\ r.at = "smembers" /\ n.ok => n.tags = indexed
    /\ r.at = "mget" => \/ ~n.ok /\ n.values = r.values
                        \/ n.values = [t \in Tags |-> IF t \in r.tags THEN stamp[t] ELSE 0]

LEMMA AnswerTyped ==
    ASSUME Base, NEW p \in Pods, NEW s \in Slots, slot[p][s].at \in Commands
    PROVE  /\ Answer(p, slot[p][s]) \in Slot /\ About(Answer(p, slot[p][s]))
           /\ Answers(slot[p][s], Answer(p, slot[p][s]))
           /\ Answer(p, slot[p][s]).backoff = slot[p][s].backoff
<1> DEFINE r == slot[p][s]
           v == [t \in Tags |-> IF t \in r.tags THEN stamp[t] ELSE 0]
           time == IF r.store = "redis" THEN entry[r.key] ELSE local[p][r.key]
<1>1. r \in Slot /\ About(r) /\ RestTyped
  BY SlotTyped
<1>2. CASE r.at = "smembers"
  <2> DEFINE n == [r EXCEPT !.tags = indexed]
  <2>1. n \in Slot /\ Answers(r, n) /\ n.backoff = r.backoff
    BY <1>1, <1>2 DEF Slot, Answers, RestTyped
  <2>2. Answer(p, r) = n
    BY <1>2 DEF Answer
  <2> HIDE DEF n
  <2>3. About(n)
    BY <1>1, <1>2, <2>1 DEF About, Answers, Stamping
  <2> QED
    BY <2>1, <2>2, <2>3
<1>3. CASE r.at = "mget"
  <2> DEFINE n == [r EXCEPT !.values = v]
  <2>0. v \in [Tags -> Time]
    BY <1>1 DEF RestTyped, Time
  <2>1. n \in Slot /\ Answers(r, n) /\ n.backoff = r.backoff
    BY <1>1, <1>3, <2>0 DEF Slot, Answers
  <2>2. Answer(p, r) = n
    BY <1>3 DEF Answer
  <2> HIDE DEF n
  <2>3. About(n)
    BY <1>1, <1>3, <2>1 DEF About, Answers, Stamping
  <2> QED
    BY <2>1, <2>2, <2>3
<1>4. CASE r.at = "read"
  <2> DEFINE n == [r EXCEPT !.time = time]
  <2>0. time \in Time
    BY <1>1, <1>4 DEF RestTyped, About, Fetching
  <2>1. n \in Slot /\ Answers(r, n) /\ n.backoff = r.backoff
    BY <1>1, <1>4, <2>0 DEF Slot, Answers
  <2>2. Answer(p, r) = n
    BY <1>4 DEF Answer
  <2> HIDE DEF n
  <2>3. About(n)
    BY <1>1, <1>4, <2>1 DEF About, Answers, Stamping
  <2> QED
    BY <2>1, <2>2, <2>3
<1>5. CASE r.at \notin {"smembers", "mget", "read"}
  <2>1. Answer(p, r) = r
    BY <1>5 DEF Answer
  <2> QED
    BY <1>1, <1>5, <2>1 DEF Answers
<1> QED
  BY <1>2, <1>3, <1>4, <1>5

LEMMA FailTyped ==
    ASSUME NEW r \in Slot, About(r)
    PROVE  /\ [r EXCEPT !.ok = FALSE] \in Slot /\ About([r EXCEPT !.ok = FALSE])
           /\ Answers(r, [r EXCEPT !.ok = FALSE]) /\ [r EXCEPT !.ok = FALSE].backoff = r.backoff
           /\ ~[r EXCEPT !.ok = FALSE].ok
<1> DEFINE n == [r EXCEPT !.ok = FALSE]
<1>1. n \in Slot /\ Answers(r, n) /\ n.backoff = r.backoff /\ ~n.ok
      /\ n.tags = r.tags
  BY DEF Slot, Answers
<1> HIDE DEF n
<1>2. About(n)
  BY <1>1 DEF About, Answers, Stamping
<1> QED
  BY <1>1, <1>2 DEF n

(* What Redis holds of the tags after the command. *)
Stamped(r) ==
    /\ stamp' = IF r.at = "stamp" THEN [stamp EXCEPT ![r.tag] = r.time] ELSE stamp
    /\ indexed' = IF r.at = "index" THEN indexed \cup {r.tag} ELSE indexed

LEMMA ExecuteBase ==
    ASSUME Base, NEW p \in Pods, Execute(p)
    PROVE  \E h \in Slots :
              /\ Base' /\ Passes(p, h) /\ Lone(p, h) /\ Answers(slot[p][h], slot'[p][h])
              /\ \/ UNCHANGED <<stamp, indexed>>
                    /\ (slot'[p][h].ok => slot[p][h].store # "redis")
                 \/ Stamped(slot[p][h]) /\ slot[p][h].store = "redis"
<1> DEFINE h == Head(sent[p])
           r == slot[p][h]
           a == Answer(p, r)
           b == [r EXCEPT !.ok = FALSE]
<1>1. /\ sent \in [Pods -> Seq(Slots)] /\ replies \in [Pods -> Seq(Slots)]
      /\ sent[p] \in Seq(Slots) /\ replies[p] \in Seq(Slots)
      /\ Once(sent[p]) /\ Once(replies[p]) /\ sent[p] # <<>>
      /\ sent' = [sent EXCEPT ![p] = Tail(sent[p])]
      /\ replies' = [replies EXCEPT ![p] = Append(replies[p], h)]
  BY DEF Base, CacheInv, QueueInv, TypeOK, Execute
<1>2. /\ h \in Slots /\ In(sent[p], h) /\ Tail(sent[p]) \in Seq(Slots) /\ Once(Tail(sent[p]))
      /\ \A x : In(Tail(sent[p]), x) <=> In(sent[p], x) /\ x # h
  BY <1>1, TailHolds
<1>3. ~In(replies[p], h) /\ r.at \in Commands /\ ~r.backoff
  BY <1>2 DEF Base, QueueInv
<1>4. /\ Append(replies[p], h) \in Seq(Slots) /\ Once(Append(replies[p], h))
      /\ \A x : In(Append(replies[p], h), x) <=> In(replies[p], x) \/ x = h
      /\ \A x, y : Before(replies[p], x, y) => Before(Append(replies[p], h), x, y)
      /\ \A x : In(replies[p], x) => Before(Append(replies[p], h), x, h)
  BY <1>1, <1>2, <1>3, AppendHolds
<1>5. /\ sent'[p] = Tail(sent[p]) /\ replies'[p] = Append(replies[p], h)
      /\ \A q \in Pods : q # p => sent'[q] = sent[q] /\ replies'[q] = replies[q]
  BY <1>1
<1>6. sent' \in [Pods -> Seq(Slots)] /\ replies' \in [Pods -> Seq(Slots)]
  BY <1>1, <1>2, <1>4
<1>7. Passes(p, h)
  BY <1>2, <1>3, <1>4, <1>5 DEF Passes
<1>8. r \in Slot /\ About(r) /\ RestTyped /\ CacheInv
  BY <1>2, SlotTyped DEF Base
<1>9. /\ a \in Slot /\ About(a) /\ Answers(r, a) /\ ~a.backoff
      /\ b \in Slot /\ About(b) /\ Answers(r, b) /\ ~b.backoff /\ ~b.ok
  BY <1>2, <1>3, <1>8, AnswerTyped, FailTyped
<1>10. \/ (IF r.store = "redis" THEN Effect(r) ELSE EffectLocal(p, r)) /\ Update(p, h, a)
       \/ /\ \/ IF r.store = "redis" THEN Effect(r) ELSE EffectLocal(p, r)
             \/ UNCHANGED server
          /\ Update(p, h, b)
  <2>1. \/ (IF r.store = "redis" THEN Effect(r) ELSE EffectLocal(p, r))
           /\ slot' = [slot EXCEPT ![p][h] = a]
        \/ (\/ IF r.store = "redis" THEN Effect(r) ELSE EffectLocal(p, r)
            \/ UNCHANGED server)
           /\ slot' = [slot EXCEPT ![p][h].ok = FALSE]
    BY DEF Execute
  <2>2. [slot EXCEPT ![p][h].ok = FALSE] = [slot EXCEPT ![p][h] = b]
    BY <1>2, <1>8 DEF CacheInv, TypeOK
  <2> HIDE DEF a, b
  <2> QED
    BY <2>1, <2>2 DEF Update
<1> HIDE DEF h, a, b
<1>11. /\ entry' \in [Keys -> Time] /\ local' \in [Pods -> [Keys -> Time]]
       /\ worker' \in [Pods -> BOOLEAN]
       /\ stamp' \in [Tags -> Time] /\ indexed' \in SUBSET Tags
  <2>1. r.time \in Time /\ (r.at = "store" => r.key \in Keys)
        /\ (r.at \in Stamping => r.tag \in Tags)
    BY <1>8 DEF Slot, About, Fetching, Stamping
  <2>2. CASE Effect(r)
    BY <1>8, <2>1, <2>2 DEF Effect, RestTyped, Stamping
  <2>3. CASE EffectLocal(p, r)
    BY <1>8, <2>1, <2>3 DEF EffectLocal, RestTyped
  <2>4. CASE UNCHANGED server
    BY <1>8, <2>4 DEF server, RestTyped
  <2> QED
    BY <1>10, <2>2, <2>3, <2>4
<1>12. RestTyped'
  BY <1>8, <1>11 DEF Execute, RestTyped
<1>13. ASSUME NEW n \in Slot, About(n), Answers(r, n), ~n.backoff, Update(p, h, n)
       PROVE  slot'[p][h] = n /\ Base' /\ Lone(p, h)
  <2>1. slot'[p][h] = n /\ SlotsTyped' /\ Lone(p, h)
    BY <1>2, <1>8, <1>13, BecomesTyped DEF Lone
  <2>2. CacheInv'
    BY <1>6, <1>12, <2>1 DEF CacheInv, SlotsTyped, TypeOK, RestTyped
  <2>3. QueueInv'
    <3> SUFFICES ASSUME NEW q \in Pods
                 PROVE  /\ Once(sent'[q]) /\ Once(replies'[q])
                        /\ \A x \in Slots :
                              /\ In(sent'[q], x) => ~In(replies'[q], x)
                              /\ In(sent'[q], x) \/ In(replies'[q], x) =>
                                    slot'[q][x].at \in Commands /\ ~slot'[q][x].backoff
      BY DEF QueueInv, In, Once
    <3>1. n.at \in Commands
      BY <1>3, <1>13 DEF Answers
    <3>2. CASE q = p
      <4>1. \A x \in Slots :
              /\ In(sent[p], x) => ~In(replies[p], x)
              /\ In(sent[p], x) \/ In(replies[p], x) => slot[p][x].at \in Commands /\ ~slot[p][x].backoff
        BY DEF Base, QueueInv
      <4> QED
        BY <1>2, <1>4, <1>5, <1>13, <2>1, <3>1, <3>2, <4>1 DEF Lone
    <3>3. CASE q # p
      BY <1>5, <2>1, <3>3 DEF Base, QueueInv, Lone
    <3> QED
      BY <3>2, <3>3
  <2> QED
    BY <2>1, <2>2, <2>3 DEF Base
<1>14. CASE (IF r.store = "redis" THEN Effect(r) ELSE EffectLocal(p, r)) /\ Update(p, h, a)
  <2>1. slot'[p][h] = a /\ Base' /\ Lone(p, h)
    BY <1>9, <1>13, <1>14
  <2>2. \/ UNCHANGED <<stamp, indexed>> /\ r.store # "redis"
        \/ Stamped(r) /\ r.store = "redis"
    BY <1>14 DEF Effect, EffectLocal, Stamped
  <2> QED
    BY <1>2, <1>7, <1>9, <2>1, <2>2
<1>15. CASE /\ \/ IF r.store = "redis" THEN Effect(r) ELSE EffectLocal(p, r)
               \/ UNCHANGED server
            /\ Update(p, h, b)
  <2>1. slot'[p][h] = b /\ Base' /\ Lone(p, h)
    BY <1>9, <1>13, <1>15
  <2>2. UNCHANGED <<stamp, indexed>> \/ (Stamped(r) /\ r.store = "redis")
    BY <1>15 DEF Effect, EffectLocal, Stamped, server
  <2> QED
    BY <1>2, <1>7, <1>9, <1>15, <2>1, <2>2
<1> QED
  BY <1>10, <1>14, <1>15

-----------------------------------------------------------------------------
(***************************************************************************)
(* A restart forgets a pod; nothing else touches requests and queues.      *)
(***************************************************************************)
Fresh(p) ==
    /\ \A x \in Slots : slot'[p][x] = Idle
    /\ \A x : ~In(sent'[p], x) /\ ~In(replies'[p], x)
    /\ \A q \in Pods : q # p => /\ slot'[q] = slot[q]
                                /\ sent'[q] = sent[q] /\ replies'[q] = replies[q]

LEMMA RestartBase ==
    ASSUME Base, NEW p \in Pods, Restart(p)
    PROVE  /\ Base' /\ Fresh(p)
           /\ \A q \in Pods, k \in Keys :
                pending'[q][k] = IF q = p THEN None ELSE pending[q][k]
           /\ \A q \in Pods : q # p => manifest'[q] = manifest[q]
<1>1. /\ slot \in [Pods -> [Slots -> Slot]] /\ RestTyped
      /\ sent \in [Pods -> Seq(Slots)] /\ replies \in [Pods -> Seq(Slots)]
  BY DEF Base, CacheInv, TypeOK, RestTyped
<1>2. [s \in Slots |-> Idle] \in [Slots -> Slot] /\ About(Idle)
  BY IdleTyped
<1>3. /\ slot' \in [Pods -> [Slots -> Slot]] /\ \A x \in Slots : slot'[p][x] = Idle
      /\ \A q \in Pods : q # p => slot'[q] = slot[q]
  BY <1>1, <1>2 DEF Restart
<1>4. /\ sent' \in [Pods -> Seq(Slots)] /\ replies' \in [Pods -> Seq(Slots)]
      /\ sent'[p] = <<>> /\ replies'[p] = <<>>
      /\ \A q \in Pods : q # p => sent'[q] = sent[q] /\ replies'[q] = replies[q]
  BY <1>1 DEF Restart
<1>5. \A x : ~In(<<>>, x)
  BY DEF In
<1>6. Once(<<>>)
  BY DEF Once
<1>7. Zero \in [Tags -> Time]
  BY IdleTyped DEF Slot
<1>8. /\ manifest' \in [Pods -> [Tags -> Time]] /\ worker' \in [Pods -> BOOLEAN]
      /\ \A q \in Pods : q # p => manifest'[q] = manifest[q]
  BY <1>1, <1>7 DEF Restart, RestTyped
<1>9. /\ pending' \in [Pods -> [Keys -> Slots \cup {None}]]
      /\ \A q \in Pods, k \in Keys : pending'[q][k] = IF q = p THEN None ELSE pending[q][k]
  BY <1>1 DEF Restart, RestTyped
<1>10. RestTyped'
  BY <1>1, <1>8, <1>9 DEF Restart, RestTyped, server
<1>11. \A q \in Pods, x \in Slots : About(slot'[q][x])
  BY <1>2, <1>3 DEF Base, CacheInv
<1>12. CacheInv'
  BY <1>3, <1>4, <1>10, <1>11 DEF CacheInv, TypeOK, RestTyped
<1>13. QueueInv'
  <2> SUFFICES ASSUME NEW q \in Pods
               PROVE  /\ Once(sent'[q]) /\ Once(replies'[q])
                      /\ \A x \in Slots :
                            /\ In(sent'[q], x) => ~In(replies'[q], x)
                            /\ In(sent'[q], x) \/ In(replies'[q], x) =>
                                  slot'[q][x].at \in Commands /\ ~slot'[q][x].backoff
    BY DEF QueueInv, In, Once
  <2>1. CASE q = p
    BY <1>4, <1>5, <1>6, <2>1
  <2>2. CASE q # p
    BY <1>3, <1>4, <2>2 DEF Base, QueueInv
  <2> QED
    BY <2>1, <2>2
<1>14. Fresh(p)
  BY <1>3, <1>4, <1>5 DEF Fresh
<1> QED
  BY <1>8, <1>9, <1>12, <1>13, <1>14 DEF Base

(* The command of h is dropped. *)
Drops(p, h) ==
    /\ In(sent[p], h) /\ slot[p][h].store = "fallback"
    /\ \A x : In(sent'[p], x) <=> In(sent[p], x) /\ x # h
    /\ \A q \in Pods : q # p => sent'[q] = sent[q]

LEMMA DropBase ==
    ASSUME Base, NEW p \in Pods, Drop(p)
    PROVE  Base' /\ \E h \in Slots : Drops(p, h)
<1> DEFINE h == Head(sent[p])
<1>1. /\ sent \in [Pods -> Seq(Slots)] /\ sent[p] \in Seq(Slots)
      /\ Once(sent[p]) /\ sent[p] # <<>>
      /\ sent' = [sent EXCEPT ![p] = Tail(sent[p])]
  BY DEF Base, CacheInv, QueueInv, TypeOK, Drop
<1>2. /\ h \in Slots /\ In(sent[p], h) /\ Tail(sent[p]) \in Seq(Slots) /\ Once(Tail(sent[p]))
      /\ \A x : In(Tail(sent[p]), x) <=> In(sent[p], x) /\ x # h
  BY <1>1, TailHolds
<1>3. sent'[p] = Tail(sent[p]) /\ \A q \in Pods : q # p => sent'[q] = sent[q]
  BY <1>1
<1>4. Drops(p, h)
  BY <1>2, <1>3 DEF Drops, Drop
<1>5. sent' \in [Pods -> Seq(Slots)]
  BY <1>1, <1>2
<1>6. CacheInv'
  BY <1>5 DEF Drop, server, Base, CacheInv, TypeOK, About
<1>7. QueueInv'
  <2> SUFFICES ASSUME NEW q \in Pods
               PROVE  /\ Once(sent'[q]) /\ Once(replies[q])
                      /\ \A x \in Slots :
                            /\ In(sent'[q], x) => ~In(replies[q], x)
                            /\ In(sent'[q], x) \/ In(replies[q], x) =>
                                  slot[q][x].at \in Commands /\ ~slot[q][x].backoff
    BY DEF Drop, QueueInv, In, Once
  <2>1. Once(sent'[q]) /\ \A x : In(sent'[q], x) => In(sent[q], x)
    BY <1>2, <1>3 DEF Base, QueueInv
  <2> QED
    BY <2>1 DEF Base, QueueInv
<1> QED
  BY <1>2, <1>4, <1>6, <1>7 DEF Base

LEMMA QuietBase ==
    ASSUME Base, (\E k \in Keys : Expire(k)) \/ (\E p \in Pods : WorkerDies(p)) \/ Tick
    PROVE  Base'
<1>1. RestTyped
  BY DEF Base, CacheInv, TypeOK, RestTyped
<1>2. RestTyped' /\ UNCHANGED <<slot, sent, replies>>
  <2>1. CASE Tick
    BY <1>1, <2>1 DEF Tick, RestTyped, Time, server
  <2>2. ASSUME NEW k \in Keys, Expire(k) PROVE RestTyped' /\ UNCHANGED <<slot, sent, replies>>
    <3>1. 0 \in Time
      BY DEF Time
    <3>2. CASE entry' = [entry EXCEPT ![k] = 0] /\ UNCHANGED local
      BY <1>1, <2>2, <3>1, <3>2 DEF Expire, RestTyped
    <3>3. ASSUME NEW p \in Pods, local' = [local EXCEPT ![p][k] = 0], UNCHANGED entry
          PROVE RestTyped' /\ UNCHANGED <<slot, sent, replies>>
      BY <1>1, <2>2, <3>1, <3>3 DEF Expire, RestTyped
    <3> QED
      BY <2>2, <3>2, <3>3 DEF Expire
  <2>3. ASSUME NEW p \in Pods, WorkerDies(p) PROVE RestTyped' /\ UNCHANGED <<slot, sent, replies>>
    BY <1>1, <2>3 DEF WorkerDies, RestTyped
  <2> QED
    BY <2>1, <2>2, <2>3
<1>3. CacheInv'
  BY <1>2 DEF Base, CacheInv, TypeOK, RestTyped, About
<1>4. QueueInv'
  BY <1>2 DEF Base, QueueInv, In, Once
<1> QED
  BY <1>3, <1>4 DEF Base

LEMMA BaseInit == Init => Base
<1> SUFFICES ASSUME Init PROVE Base
  OBVIOUS
<1>1. Zero \in [Tags -> Time] /\ Idle \in Slot /\ About(Idle)
  BY IdleTyped DEF Slot
<1>2. /\ slot \in [Pods -> [Slots -> Slot]] /\ \A p \in Pods, s \in Slots : slot[p][s] = Idle
  BY <1>1 DEF Init
<1>3. /\ clock \in Time \ {0} /\ 0 \in Time
  BY DEF Init, Time
<1>4. CacheInv
  BY <1>1, <1>2, <1>3 DEF Init, CacheInv, TypeOK
<1>5. QueueInv
  BY DEF Init, QueueInv, In, Once
<1> QED
  BY <1>4, <1>5 DEF Base

LEMMA BaseNext == Base /\ [Next]_vars => Base'
<1> SUFFICES ASSUME Base, [Next]_vars PROVE Base'
  OBVIOUS
<1>1. ASSUME NEW p \in Pods, NEW s \in Slots, NEW k \in Keys, BeginRequest(p, s, k) PROVE Base'
  BY <1>1, BeginBase
<1>2. ASSUME NEW p \in Pods, NEW s \in Slots, NEW T \in SUBSET Tags, CallUpdateTags(p, s, T)
      PROVE Base'
  BY <1>2, UpdateBase
<1>3. ASSUME NEW p \in Pods, NEW s \in Slots, CallSet(p, s) PROVE Base'
  BY <1>3, CallSetBase DEF Plain
<1>4. ASSUME NEW p \in Pods, NEW s \in Slots, Progress(p, s) PROVE Base'
  <2>1. CASE Reissue(p, s)
    BY <2>1, ReissueBase
  <2>2. CASE ResumeSmembers(p, s)
    BY <2>2, SmembersBase
  <2>3. CASE ResumeMget(p, s)
    BY <2>3, MgetBase
  <2>4. CASE CallGet(p, s)
    BY <2>4, CallGetBase DEF Plain
  <2>5. CASE ProceedGet(p, s)
    BY <2>5, ProceedBase DEF Plain
  <2>6. CASE ResumeRead(p, s)
    BY <2>6, ReadBase
  <2>7. CASE EndRequest(p, s)
    BY <2>7, EndBase DEF Plain
  <2>8. CASE Rendered(p, s)
    BY <2>8, RenderedBase DEF Plain
  <2>9. CASE ResumeStore(p, s)
    BY <2>9, StoreBase DEF Plain
  <2>10. CASE ResumeStamp(p, s)
    BY <2>10, StampBase DEF Revalidates
  <2>11. CASE ResumeIndex(p, s)
    BY <2>11, IndexBase DEF Revalidates
  <2> QED
    BY <1>4, <2>1, <2>2, <2>3, <2>4, <2>5, <2>6, <2>7, <2>8, <2>9, <2>10, <2>11 DEF Progress
<1>5. ASSUME NEW p \in Pods, Execute(p) PROVE Base'
  BY <1>5, ExecuteBase
<1>6. ASSUME NEW p \in Pods, Restart(p) PROVE Base'
  BY <1>6, RestartBase
<1>7. CASE (\E k \in Keys : Expire(k)) \/ (\E p \in Pods : WorkerDies(p)) \/ Tick
  BY <1>7, QuietBase
<1>8. ASSUME NEW p \in Pods, Drop(p) PROVE Base'
  BY <1>8, DropBase
<1>9. CASE UNCHANGED vars
  BY <1>9 DEF vars, Base, CacheInv, QueueInv, TypeOK, About, In, Once
<1> QED
  BY <1>1, <1>2, <1>3, <1>4, <1>5, <1>6, <1>7, <1>8, <1>9 DEF Next

(***************************************************************************)
(* Every variable keeps its type: the retries of withRetry() stay within   *)
(* their number, and a queue holds requests.                               *)
(***************************************************************************)
THEOREM TypeCorrect == Spec => []TypeOK
<1>1. Base => TypeOK
  BY DEF Base, CacheInv
<1> QED
  BY BaseInit, BaseNext, <1>1, PTL DEF Spec

-----------------------------------------------------------------------------
(***************************************************************************)
(* Promises.                                                               *)
(***************************************************************************)
LEMMA PromisesKept ==
    ASSUME NoOrphanPromise, NEW p \in Pods, NEW s \in Slots, Lone(p, s),
           Keeps(slot[p][s], slot'[p][s]), pending' = pending
    PROVE  NoOrphanPromise'
<1>1. \A q \in Pods, k \in Keys : SettingKey(q, k) \subseteq SettingKey(q, k)'
  BY DEF SettingKey, Lone, Keeps, Setting
<1>2. \A q \in Pods, x \in Slots :
        slot'[q][x].waitsOn = None \/ /\ slot'[q][x].waitsOn = slot[q][x].waitsOn
                                      /\ slot'[q][x].key = slot[q][x].key
  BY DEF Lone, Keeps
<1>3. ASSUME NEW q \in Pods, NEW k \in Keys, pending'[q][k] # None
      PROVE  pending'[q][k] \in SettingKey(q, k)'
  BY <1>1, <1>3 DEF NoOrphanPromise
<1>4. ASSUME NEW q \in Pods, NEW x \in Slots, slot'[q][x].waitsOn # None
      PROVE  slot'[q][x].waitsOn \in SettingKey(q, slot[q][x].key)'
  <2> DEFINE w == slot[q][x].waitsOn
             k == slot[q][x].key
  <2>1. slot'[q][x].waitsOn = w /\ slot'[q][x].key = k /\ w # None
    BY <1>2, <1>4
  <2>2. w \in SettingKey(q, k)
    BY <2>1 DEF NoOrphanPromise
  <2>3. w \in Slots /\ slot'[q][w].at \in {"rendering", "store"} /\ slot'[q][w].key = k
    BY <2>2 DEF SettingKey, Lone, Keeps, Setting
  <2> QED
    BY <2>1, <2>3 DEF SettingKey
<1> QED
  BY <1>3, <1>4 DEF NoOrphanPromise

LEMMA PromisesGet ==
    ASSUME Base, NoOrphanPromise, NEW p \in Pods, NEW s \in Slots, CallGet(p, s)
    PROVE  NoOrphanPromise'
<1>1. /\ Lone(p, s) /\ slot[p][s].key \in Keys /\ slot[p][s].at = "ready"
      /\ slot'[p][s].key = slot[p][s].key /\ slot'[p][s].waitsOn = pending[p][slot[p][s].key]
      /\ pending' = pending
  BY CallGetBase DEF CallGet
<1>2. ASSUME NEW q \in Pods, NEW x \in Slots, slot[q][x].at \in Setting
      PROVE  slot'[q][x].at = slot[q][x].at /\ slot'[q][x].key = slot[q][x].key
  BY <1>1, <1>2 DEF Lone, Setting
<1>3. ASSUME NEW q \in Pods, NEW k \in Keys, pending'[q][k] # None
      PROVE  pending'[q][k] \in SettingKey(q, k)'
  BY <1>1, <1>2, <1>3 DEF NoOrphanPromise, SettingKey, Setting
<1>4. ASSUME NEW q \in Pods, NEW x \in Slots, slot'[q][x].waitsOn # None
      PROVE  slot'[q][x].waitsOn \in SettingKey(q, slot[q][x].key)'
  <2> DEFINE w == slot'[q][x].waitsOn
  <2>1. slot'[q][x].key = slot[q][x].key
    BY <1>1 DEF Lone
  <2>2. w \in SettingKey(q, slot[q][x].key)
    <3>1. CASE q = p /\ x = s
      BY <1>1, <1>4, <3>1 DEF NoOrphanPromise
    <3>2. CASE q # p \/ x # s
      BY <1>1, <1>4, <3>2 DEF NoOrphanPromise, Lone
    <3> QED
      BY <3>1, <3>2
  <2>3. w \in Slots /\ slot'[q][w].at \in {"rendering", "store"} /\ slot'[q][w].key = slot[q][x].key
    BY <1>2, <2>2 DEF SettingKey, Setting
  <2> QED
    BY <2>1, <2>3 DEF SettingKey
<1> QED
  BY <1>3, <1>4 DEF NoOrphanPromise

LEMMA PromisesSet ==
    ASSUME Base, NoOrphanPromise, NEW p \in Pods, NEW s \in Slots, CallSet(p, s)
    PROVE  NoOrphanPromise'
<1>1. /\ Lone(p, s) /\ Keeps(slot[p][s], slot'[p][s]) /\ slot[p][s].key \in Keys
      /\ slot'[p][s].key = slot[p][s].key /\ slot'[p][s].at = "rendering"
      /\ \A q \in Pods, k \in Keys :
            pending'[q][k] = IF q = p /\ k = slot[p][s].key THEN s ELSE pending[q][k]
  BY CallSetBase
<1>2. \A q \in Pods, x \in Slots :
        /\ slot[q][x].at \in Setting =>
              slot'[q][x].at \in Setting /\ slot'[q][x].key = slot[q][x].key
        /\ slot'[q][x].waitsOn = None \/ (slot'[q][x].waitsOn = slot[q][x].waitsOn
                                          /\ slot'[q][x].key = slot[q][x].key)
  BY <1>1 DEF Lone, Keeps
<1>3. ASSUME NEW q \in Pods, NEW k \in Keys, pending'[q][k] # None
      PROVE  pending'[q][k] \in SettingKey(q, k)'
  <2>1. CASE q = p /\ k = slot[p][s].key
    BY <1>1, <2>1 DEF SettingKey
  <2>2. CASE q # p \/ k # slot[p][s].key
    BY <1>1, <1>2, <1>3, <2>2 DEF NoOrphanPromise, SettingKey, Setting
  <2> QED
    BY <2>1, <2>2
<1>4. ASSUME NEW q \in Pods, NEW x \in Slots, slot'[q][x].waitsOn # None
      PROVE  slot'[q][x].waitsOn \in SettingKey(q, slot[q][x].key)'
  <2> DEFINE w == slot[q][x].waitsOn
             k == slot[q][x].key
  <2>1. slot'[q][x].waitsOn = w /\ slot'[q][x].key = k /\ w # None
    BY <1>2, <1>4
  <2>2. w \in SettingKey(q, k)
    BY <2>1 DEF NoOrphanPromise
  <2>3. w \in Slots /\ slot'[q][w].at \in {"rendering", "store"} /\ slot'[q][w].key = k
    BY <1>2, <2>2 DEF SettingKey, Setting
  <2> QED
    BY <2>1, <2>3 DEF SettingKey
<1> QED
  BY <1>3, <1>4 DEF NoOrphanPromise

(* Nobody awaits s any more, and the promise of its key is deleted, whosever it was. *)
LEMMA PromisesFinish ==
    ASSUME Base, NoOrphanPromise, NEW p \in Pods, NEW s \in Slots, FinishSet(p, s),
           slot[p][s].key \in Keys
    PROVE  NoOrphanPromise'
<1>1. /\ slot'[p][s] = Idle /\ Others(p, s)
      /\ \A q \in Pods, x \in Slots : q # p => slot'[q][x] = slot[q][x]
      /\ \A x \in Slots : x # s => slot'[p][x].waitsOn = IF slot[p][x].waitsOn = s THEN None
                                                       ELSE slot[p][x].waitsOn
      /\ \A q \in Pods, k \in Keys :
            pending'[q][k] = IF q = p /\ k = slot[p][s].key THEN None ELSE pending[q][k]
  BY FinishTyped DEF Base
<1>2. \A q \in Pods, x \in Slots : q # p \/ x # s =>
        slot'[q][x].at = slot[q][x].at /\ slot'[q][x].key = slot[q][x].key
  BY <1>1 DEF Others, Alike
<1>3. ASSUME NEW q \in Pods, NEW k \in Keys, pending'[q][k] # None
      PROVE  pending'[q][k] \in SettingKey(q, k)'
  <2>1. ~(q = p /\ k = slot[p][s].key) /\ pending'[q][k] = pending[q][k]
    BY <1>1, <1>3
  <2>2. pending[q][k] \in SettingKey(q, k)
    BY <1>3, <2>1 DEF NoOrphanPromise
  <2>3. q # p \/ pending[q][k] # s
    BY <2>1, <2>2 DEF SettingKey
  <2> QED
    BY <1>2, <2>1, <2>2, <2>3 DEF SettingKey
<1>4. ASSUME NEW q \in Pods, NEW x \in Slots, slot'[q][x].waitsOn # None
      PROVE  slot'[q][x].waitsOn \in SettingKey(q, slot[q][x].key)'
  <2> DEFINE w == slot[q][x].waitsOn
  <2>1. ~(q = p /\ x = s)
    BY <1>1, <1>4, IdleTyped
  <2>2. slot'[q][x].waitsOn = w /\ w # None /\ (q # p \/ w # s)
    BY <1>1, <1>4, <2>1
  <2>3. w \in SettingKey(q, slot[q][x].key)
    BY <2>2 DEF NoOrphanPromise
  <2> QED
    BY <1>2, <2>1, <2>2, <2>3 DEF SettingKey
<1> QED
  BY <1>3, <1>4 DEF NoOrphanPromise

LEMMA PromisesNext == Base /\ NoOrphanPromise /\ [Next]_vars => NoOrphanPromise'
<1> SUFFICES ASSUME Base, NoOrphanPromise, [Next]_vars PROVE NoOrphanPromise'
  OBVIOUS
<1>1. ASSUME NEW p \in Pods, NEW s \in Slots, NEW k \in Keys, BeginRequest(p, s, k)
      PROVE  NoOrphanPromise'
  <2>1. Lone(p, s) /\ slot[p][s].at = "idle" /\ slot'[p][s].waitsOn = None
    BY <1>1, BeginBase
  <2>2. Keeps(slot[p][s], slot'[p][s]) /\ pending' = pending
    BY <1>1, <2>1 DEF Keeps, Setting, BeginRequest
  <2> QED
    BY <2>1, <2>2, PromisesKept
<1>2. ASSUME NEW p \in Pods, NEW s \in Slots, NEW T \in SUBSET Tags, CallUpdateTags(p, s, T)
      PROVE  NoOrphanPromise'
  <2>1. Lone(p, s) /\ Keeps(slot[p][s], slot'[p][s]) /\ pending' = pending
    BY <1>2, UpdateBase DEF CallUpdateTags
  <2> QED
    BY <2>1, PromisesKept
<1>3. ASSUME NEW p \in Pods, NEW s \in Slots, CallSet(p, s) PROVE NoOrphanPromise'
  BY <1>3, PromisesSet
<1>4. ASSUME NEW p \in Pods, NEW s \in Slots, Progress(p, s) PROVE NoOrphanPromise'
  <2>1. CASE Reissue(p, s)
    <3>1. Lone(p, s) /\ slot'[p][s] = [slot[p][s] EXCEPT !.backoff = FALSE] /\ pending' = pending
      BY <2>1, ReissueBase DEF Reissue
    <3>2. Keeps(slot[p][s], slot'[p][s])
      BY <3>1, SlotTyped DEF Keeps, Slot
    <3> QED
      BY <3>1, <3>2, PromisesKept
  <2>2. CASE ResumeSmembers(p, s)
    <3>1. Lone(p, s) /\ Keeps(slot[p][s], slot'[p][s])
      BY <2>2, SmembersBase
    <3>2. pending' = pending
      BY <2>2 DEF ResumeSmembers
    <3> QED
      BY <3>1, <3>2, PromisesKept
  <2>3. CASE ResumeMget(p, s)
    <3>1. Lone(p, s) /\ Keeps(slot[p][s], slot'[p][s])
      BY <2>3, MgetBase
    <3>2. pending' = pending
      BY <2>3 DEF ResumeMget
    <3> QED
      BY <3>1, <3>2, PromisesKept
  <2>4. CASE CallGet(p, s)
    BY <2>4, PromisesGet
  <2>5. CASE ProceedGet(p, s)
    <3>1. Lone(p, s) /\ Keeps(slot[p][s], slot'[p][s])
      BY <2>5, ProceedBase
    <3>2. pending' = pending
      BY <2>5 DEF ProceedGet
    <3> QED
      BY <3>1, <3>2, PromisesKept
  <2>6. CASE ResumeRead(p, s)
    <3>1. Lone(p, s) /\ Keeps(slot[p][s], slot'[p][s])
      BY <2>6, ReadBase
    <3>2. pending' = pending
      BY <2>6 DEF ResumeRead
    <3> QED
      BY <3>1, <3>2, PromisesKept
  <2>7. CASE EndRequest(p, s)
    <3>1. Lone(p, s) /\ Keeps(slot[p][s], slot'[p][s])
      BY <2>7, EndBase
    <3>2. pending' = pending
      BY <2>7 DEF EndRequest
    <3> QED
      BY <3>1, <3>2, PromisesKept
  <2>8. CASE Rendered(p, s)
    BY <2>8, RenderedBase, PromisesKept, PromisesFinish
  <2>9. CASE ResumeStore(p, s)
    BY <2>9, StoreBase, PromisesKept, PromisesFinish
  <2>10. ASSUME Revalidates(p, s), pending' = pending PROVE NoOrphanPromise'
    <3>1. Lone(p, s) /\ slot[p][s].at \in Stamping
      BY <2>10 DEF Revalidates
    <3>2. Keeps(slot[p][s], slot'[p][s])
      BY <2>10, IdleTyped DEF Revalidates, Keeps, Setting, Stamping, Restamps, Indexes, NextTag, Same
    <3> QED
      BY <2>10, <3>1, <3>2, PromisesKept
  <2>11. CASE ResumeStamp(p, s)
    BY <2>10, <2>11, StampBase DEF ResumeStamp
  <2>12. CASE ResumeIndex(p, s)
    BY <2>10, <2>12, IndexBase DEF ResumeIndex
  <2> QED
    BY <1>4, <2>1, <2>2, <2>3, <2>4, <2>5, <2>6, <2>7, <2>8, <2>9, <2>11, <2>12 DEF Progress
<1>5. ASSUME NEW p \in Pods, Execute(p) PROVE NoOrphanPromise'
  <2>1. PICK h \in Slots : Lone(p, h) /\ Answers(slot[p][h], slot'[p][h])
    BY <1>5, ExecuteBase
  <2>2. Keeps(slot[p][h], slot'[p][h]) /\ pending' = pending
    BY <1>5, <2>1 DEF Keeps, Answers, Execute
  <2> QED
    BY <2>1, <2>2, PromisesKept
<1>6. ASSUME NEW p \in Pods, Restart(p) PROVE NoOrphanPromise'
  <2>1. /\ Fresh(p)
        /\ \A q \in Pods, k \in Keys : pending'[q][k] = IF q = p THEN None ELSE pending[q][k]
    BY <1>6, RestartBase
  <2> QED
    BY <2>1, IdleTyped DEF NoOrphanPromise, SettingKey, Fresh
<1>7. CASE \/ \E k \in Keys : Expire(k)
           \/ \E p \in Pods : WorkerDies(p) \/ Drop(p)
           \/ Tick
  <2>1. UNCHANGED <<slot, pending>>
    BY <1>7 DEF Expire, WorkerDies, Drop, Tick
  <2> QED
    BY <2>1 DEF NoOrphanPromise, SettingKey
<1>8. CASE UNCHANGED vars
  BY <1>8 DEF vars, NoOrphanPromise, SettingKey
<1> QED
  BY <1>1, <1>2, <1>3, <1>4, <1>5, <1>6, <1>7, <1>8 DEF Next

(***************************************************************************)
(* No get() awaits, and pendingSets never holds, a promise nobody will     *)
(* release: the last set() of a key may delete the promise of another, but *)
(* then nobody new can find it, and its own waiters it releases itself.    *)
(***************************************************************************)
THEOREM PromisesReleased == Spec => []NoOrphanPromise
<1>1. Init => NoOrphanPromise
  <2> SUFFICES ASSUME Init PROVE NoOrphanPromise
    OBVIOUS
  <2>1. \A p \in Pods, s \in Slots : slot[p][s] = Idle
    BY DEF Init
  <2> QED
    BY <2>1, IdleTyped DEF Init, NoOrphanPromise
<1> QED
  BY BaseInit, BaseNext, PromisesNext, <1>1, PTL DEF Spec

-----------------------------------------------------------------------------
(***************************************************************************)
(* Revalidations that do not overlap are respected.  StampInv is about the *)
(* revalidations and what Redis holds of the tags, SyncInv about what a    *)
(* refreshTags() that succeeded tells its request.                         *)
(***************************************************************************)
StampInv == Alone /\ TimesPast /\ TagsDone
SyncInv == Ordered /\ \A p \in Pods, s \in Slots : Told(p, s) /\ Known(p, s)
RespectInv == Base /\ StampInv /\ SyncInv

(* The order of the replies is kept, and nobody's but the moved request's matters. *)
LEMMA OrderedKept ==
    ASSUME Base, SyncInv, NEW p \in Pods, NEW s \in Slots, Moves(p, s), Moved(p, s),
           \A t \in Tags : ~(slot'[p][s].values[t] > 0),
           \A a \in Slots, t \in Tags :
              a # s /\ slot[p][a].values[t] > 0 /\ slot'[p][s].floor[t] > slot[p][a].values[t]
              => Later(p, a, s)'
    PROVE  Ordered'
<1> SUFFICES ASSUME NEW q \in Pods, NEW a \in Slots, NEW b \in Slots, NEW t \in Tags,
                    slot'[q][a].values[t] > 0, slot'[q][b].floor[t] > slot'[q][a].values[t]
             PROVE  Later(q, a, b)'
  BY DEF Ordered, Later, Behind, In, Before
<1>1. q # p \/ a # s
  OBVIOUS
<1>2. slot'[q][a].values = slot[q][a].values
  BY <1>1 DEF Moves, Others, Alike
<1>3. CASE q = p /\ b = s
  BY <1>1, <1>2, <1>3
<1>4. CASE q # p \/ b # s
  <2>1. /\ slot'[q][b].floor = slot[q][b].floor /\ slot'[q][b].at = slot[q][b].at
        /\ slot'[q][b].synced = slot[q][b].synced
    BY <1>4 DEF Moves, Others, Alike
  <2>2. Later(q, a, b)
    BY <1>2, <2>1 DEF SyncInv, Ordered
  <2>3. In(sent[q], b) => In(sent'[q], b)
    BY <1>4 DEF Moved
  <2>4. Before(replies[q], a, b) => Before(replies'[q], a, b)
    BY <1>1 DEF Moved
  <2> QED
    BY <2>1, <2>2, <2>3, <2>4 DEF Later, Behind
<1> QED
  BY <1>3, <1>4

(* What the other requests were told and know. *)
LEMMA OthersKept ==
    ASSUME SyncInv, NEW p \in Pods, NEW s \in Slots, Moves(p, s), Moved(p, s), RestTyped, RestTyped',
           \A t \in Tags : revalidated[t] <= revalidated'[t],
           NEW q \in Pods, NEW x \in Slots, q # p \/ x # s, slot[q][x] \in Slot,
           slot[q][x].synced => \A t \in Tags : slot[q][x].floor[t] <= manifest[q][t]
                                             => slot[q][x].floor[t] <= manifest'[q][t]
    PROVE  Told(q, x)' /\ Known(q, x)'
<1>1. Alike(slot[q][x], slot'[q][x]) /\ (In(replies'[q], x) <=> In(replies[q], x))
  BY DEF Moves, Others, Moved
<1>2. Told(q, x) /\ Known(q, x)
  BY DEF SyncInv
<1>3. Answered(q, x)' <=> Answered(q, x)
  BY <1>1 DEF Answered, Alike
<1>4. \A t \in Tags : slot[q][x].floor[t] <= revalidated'[t]
  <2> TAKE t \in Tags
  <2>1. /\ slot[q][x].floor[t] \in Nat /\ revalidated[t] \in Nat /\ revalidated'[t] \in Nat
        /\ slot[q][x].floor[t] <= revalidated[t]
    BY <1>2 DEF Told, RestTyped, Slot, Time
  <2> QED
    BY <2>1
<1>5. Told(q, x)'
  BY <1>1, <1>2, <1>3, <1>4 DEF Told, Alike
<1>6. Known(q, x)'
  BY <1>1, <1>2 DEF Known, Alike
<1> QED
  BY <1>5, <1>6

(* Replies that hold values are those to mget. *)
LEMMA NoValues ==
    ASSUME SyncInv, NEW p \in Pods, NEW s \in Slots, slot[p][s].at # "mget"
    PROVE  \A t \in Tags : ~(slot[p][s].values[t] > 0)
<1> QED
  BY DEF SyncInv, Told

LEMMA PlainSync ==
    ASSUME Base, SyncInv, NEW p \in Pods, NEW s \in Slots, Base', Moves(p, s), Moved(p, s),
           Goes(slot[p][s], slot'[p][s]) \/ Quits(slot[p][s], slot'[p][s]),
           \A t \in Tags : revalidated[t] <= revalidated'[t],
           \A q \in Pods, x \in Slots, t \in Tags :
              slot[q][x].floor[t] <= manifest[q][t] => slot[q][x].floor[t] <= manifest'[q][t]
    PROVE  SyncInv'
<1> DEFINE r == slot[p][s]
           n == slot'[p][s]
<1>1. /\ r \in Slot /\ n \in Slot /\ RestTyped /\ RestTyped'
      /\ \A q \in Pods, x \in Slots : slot[q][x] \in Slot
  BY DEF Base, CacheInv, TypeOK, RestTyped
<1>2. ASSUME NEW q \in Pods, NEW x \in Slots, q # p \/ x # s PROVE Told(q, x)' /\ Known(q, x)'
  BY <1>1, <1>2, OthersKept
<1>3. Told(p, s) /\ Known(p, s)
  BY DEF SyncInv
<1>4. \A t \in Tags : ~(n.values[t] > 0)
  <2>1. CASE Goes(r, n)
    BY <2>1, NoValues DEF Goes, Syncing
  <2>2. CASE Quits(r, n)
    BY <2>2 DEF Quits, Zero
  <2> QED
    BY <2>1, <2>2
<1>5. n.at \notin Syncing /\ (n.floor = r.floor \/ n.floor = Zero)
  BY DEF Goes, Quits
<1>6. Told(p, s)'
  <2>1. \A t \in Tags : n.floor[t] <= revalidated'[t]
    <3> TAKE t \in Tags
    <3>1. /\ r.floor[t] \in Nat /\ revalidated[t] \in Nat /\ revalidated'[t] \in Nat
          /\ r.floor[t] <= revalidated[t] /\ Zero[t] = 0
      BY <1>1, <1>3 DEF Told, RestTyped, Slot, Time, Zero
    <3> QED
      BY <1>5, <3>1
  <2> QED
    BY <1>4, <1>5, <2>1 DEF Told, Syncing
<1>7. Known(p, s)'
  <2>1. CASE n.synced
    <3>1. Goes(r, n) /\ r.synced
      BY <2>1 DEF Goes, Quits
    <3>2. r.at \in Getting /\ \A t \in Tags : r.floor[t] <= manifest[p][t]
      BY <1>3, <3>1 DEF Known, Goes, Getting
    <3> QED
      BY <3>1, <3>2 DEF Known, Goes, Getting
  <2>2. CASE ~n.synced
    BY <2>2 DEF Known
  <2> QED
    BY <2>1, <2>2
<1>8. Ordered'
  <2>1. ASSUME NEW a \in Slots, NEW t \in Tags, a # s, slot[p][a].values[t] > 0,
               n.floor[t] > slot[p][a].values[t]
        PROVE  Later(p, a, s)'
    <3>1. CASE Goes(r, n)
      <4>1. Later(p, a, s)
        BY <2>1, <3>1 DEF SyncInv, Ordered, Goes
      <4> QED
        BY <3>1, <4>1 DEF Later, Goes, Syncing
    <3>2. CASE Quits(r, n)
      BY <3>2 DEF Later, Quits, Syncing
    <3> QED
      BY <3>1, <3>2
  <2> QED
    BY <1>4, <2>1, OrderedKept
<1> QED
  BY <1>2, <1>6, <1>7, <1>8 DEF SyncInv

(* A step that leaves the history of the tags as it was. *)
LEMMA StillTyped ==
    ASSUME Base, Base', revalidated' = revalidated
    PROVE  /\ RestTyped /\ RestTyped' /\ \A q \in Pods, x \in Slots : slot[q][x] \in Slot
           /\ \A t \in Tags : revalidated[t] <= revalidated'[t] /\ ~(Zero[t] > 0)
<1>1. RestTyped /\ \A q \in Pods, x \in Slots : slot[q][x] \in Slot
  BY DEF Base, CacheInv, TypeOK, RestTyped
<1>2. RestTyped'
  BY DEF Base, CacheInv, TypeOK, RestTyped
<1>3. \A t \in Tags : revalidated[t] \in Nat
  BY <1>1 DEF RestTyped, Time
<1>4. \A t \in Tags : revalidated[t] <= revalidated'[t]
  BY <1>3
<1>5. \A t \in Tags : ~(Zero[t] > 0)
  BY DEF Zero
<1> QED
  BY <1>1, <1>2, <1>4, <1>5

(* A request that begins sends after whoever has an older reply to come. *)
LEMMA BeginSync ==
    ASSUME Base, SyncInv, NEW p \in Pods, NEW s \in Slots, NEW k \in Keys, BeginRequest(p, s, k)
    PROVE  SyncInv'
<1> DEFINE n == slot'[p][s]
<1>1. /\ Base' /\ Moves(p, s) /\ Moved(p, s) /\ n.floor = revalidated /\ n.values = Zero /\ ~n.synced
      /\ n.at = "ready" \/ (n.at = "smembers" /\ In(sent'[p], s))
      /\ revalidated' = revalidated /\ manifest' = manifest
  BY BeginBase DEF BeginRequest
<1>2. /\ RestTyped /\ RestTyped' /\ \A q \in Pods, x \in Slots : slot[q][x] \in Slot
      /\ \A t \in Tags : revalidated[t] <= revalidated'[t] /\ ~(Zero[t] > 0)
  BY <1>1, StillTyped
<1>3. ASSUME NEW q \in Pods, NEW x \in Slots, q # p \/ x # s PROVE Told(q, x)' /\ Known(q, x)'
  BY <1>1, <1>2, <1>3, OthersKept
<1>4. Told(p, s)' /\ Known(p, s)'
  BY <1>1, <1>2 DEF Told, Known, Answered, Moved
<1>5. Ordered'
  BY <1>1, <1>2, OrderedKept DEF Later, Behind
<1> QED
  BY <1>3, <1>4, <1>5 DEF SyncInv

LEMMA SmembersSync ==
    ASSUME Base, SyncInv, NEW p \in Pods, NEW s \in Slots, ResumeSmembers(p, s)
    PROVE  SyncInv'
<1> DEFINE r == slot[p][s]
           n == slot'[p][s]
<1>1. /\ Base' /\ Moves(p, s) /\ Moved(p, s) /\ Taken(p, s) /\ r.at = "smembers"
      /\ n.floor = r.floor /\ n.values = r.values
      /\ \/ r.ok /\ n.at = "mget" /\ n.tags = r.tags /\ n.synced = r.synced
         \/ n.at = "ready" /\ n.synced = r.ok /\ (r.ok => r.tags = {})
      /\ revalidated' = revalidated /\ manifest' = manifest
  <2>1. revalidated' = revalidated /\ manifest' = manifest
    BY DEF ResumeSmembers
  <2> QED
    BY <2>1, SmembersBase
<1>2. /\ RestTyped /\ RestTyped' /\ \A q \in Pods, x \in Slots : slot[q][x] \in Slot
      /\ \A t \in Tags : revalidated[t] <= revalidated'[t]
  BY <1>1 DEF Base, CacheInv, TypeOK, RestTyped, Time
<1>3. ASSUME NEW q \in Pods, NEW x \in Slots, q # p \/ x # s PROVE Told(q, x)' /\ Known(q, x)'
  BY <1>1, <1>2, <1>3, OthersKept
<1>4. Told(p, s) /\ Known(p, s) /\ In(replies[p], s) /\ ~In(sent[p], s) /\ \A x : ~Before(replies[p], x, s)
  BY <1>1, TakenFirst DEF SyncInv, Base
<1>5. ~r.synced /\ \A t \in Tags : ~(n.values[t] > 0)
  BY <1>1, <1>4, NoValues DEF Known
<1>6. r.ok => \A t \in Tags : r.floor[t] > 0 => t \in r.tags
  BY <1>1, <1>4 DEF Told, Answered
<1>7. Told(p, s)'
  BY <1>1, <1>4, <1>5, <1>6 DEF Told, Answered, Moved
<1>8. Known(p, s)'
  <2>1. CASE n.synced
    <3>1. n.at = "ready" /\ \A t \in Tags : ~(r.floor[t] > 0)
      BY <1>1, <1>5, <1>6, <2>1
    <3>2. \A t \in Tags : r.floor[t] \in Nat /\ manifest[p][t] \in Nat
      BY <1>2 DEF Slot, RestTyped, Time
    <3>3. \A t \in Tags : r.floor[t] <= manifest[p][t]
      BY <3>1, <3>2
    <3> QED
      BY <1>1, <3>1, <3>3 DEF Known
  <2>2. CASE ~n.synced
    BY <2>2 DEF Known
  <2> QED
    BY <2>1, <2>2
<1>9. ASSUME NEW a \in Slots, NEW t \in Tags, slot[p][a].values[t] > 0,
             n.floor[t] > slot[p][a].values[t]
      PROVE  FALSE
  <2>1. Later(p, a, s)
    BY <1>1, <1>9 DEF SyncInv, Ordered
  <2> QED
    BY <1>1, <1>4, <2>1 DEF Later, Behind
<1>10. Ordered'
  BY <1>1, <1>5, <1>9, OrderedKept
<1> QED
  BY <1>3, <1>7, <1>8, <1>10 DEF SyncInv

(* Who has to know more than this reply tells is not synchronized yet. *)
LEMMA MgetSync ==
    ASSUME Base, SyncInv, NEW p \in Pods, NEW s \in Slots, ResumeMget(p, s)
    PROVE  SyncInv'
<1> DEFINE r == slot[p][s]
           n == slot'[p][s]
<1>1. /\ Base' /\ Moves(p, s) /\ Moved(p, s) /\ Taken(p, s) /\ r.at = "mget"
      /\ n.floor = r.floor /\ n.values = Zero /\ n.at = "ready" /\ n.synced = r.ok
      /\ revalidated' = revalidated
      /\ \A q \in Pods, t \in Tags : manifest'[q][t] =
            IF q = p /\ r.ok /\ r.values[t] > 0 THEN r.values[t] ELSE manifest[q][t]
  <2>1. revalidated' = revalidated
    BY DEF ResumeMget
  <2> QED
    BY <2>1, MgetBase
<1>2. /\ RestTyped /\ RestTyped' /\ \A q \in Pods, x \in Slots : slot[q][x] \in Slot
      /\ \A t \in Tags : revalidated[t] <= revalidated'[t] /\ ~(Zero[t] > 0)
  BY <1>1, StillTyped
<1>3. Told(p, s) /\ Known(p, s) /\ In(replies[p], s) /\ ~In(sent[p], s) /\ \A x : ~Before(replies[p], x, s)
  BY <1>1, TakenFirst DEF SyncInv, Base
<1>4. ASSUME NEW q \in Pods, NEW x \in Slots, q # p \/ x # s PROVE Told(q, x)' /\ Known(q, x)'
  <2>1. ASSUME slot[q][x].synced, NEW t \in Tags, slot[q][x].floor[t] <= manifest[q][t]
        PROVE  slot[q][x].floor[t] <= manifest'[q][t]
    <3>1. CASE q = p /\ r.ok /\ r.values[t] > 0
      <4>1. slot[q][x].at \notin {"smembers", "mget"}
        BY <2>1 DEF SyncInv, Known
      <4>2. ~(slot[q][x].floor[t] > r.values[t])
        BY <2>1, <3>1, <4>1 DEF SyncInv, Ordered, Later
      <4>3. slot[q][x].floor[t] \in Nat /\ r.values[t] \in Nat
        BY <1>2 DEF Slot, Time
      <4> QED
        BY <1>1, <3>1, <4>2, <4>3
    <3>2. CASE ~(q = p /\ r.ok /\ r.values[t] > 0)
      BY <1>1, <2>1, <3>2
    <3> QED
      BY <3>1, <3>2
  <2> QED
    BY <1>1, <1>2, <1>4, <2>1, OthersKept
<1>5. Told(p, s)'
  BY <1>1, <1>2, <1>3 DEF Told
<1>6. Known(p, s)'
  <2>1. CASE r.ok
    <3>1. ASSUME NEW t \in Tags PROVE r.floor[t] <= manifest'[p][t]
      <4>1. r.floor[t] <= r.values[t] /\ r.floor[t] \in Nat /\ r.values[t] \in Nat
            /\ manifest[p][t] \in Nat
        BY <1>1, <1>2, <1>3, <2>1 DEF Told, Answered, Slot, Time, RestTyped
      <4>2. CASE r.values[t] > 0
        BY <1>1, <2>1, <4>1, <4>2
      <4>3. CASE ~(r.values[t] > 0)
        BY <1>1, <4>1, <4>3
      <4> QED
        BY <4>2, <4>3
    <3> QED
      BY <1>1, <3>1 DEF Known
  <2>2. CASE ~r.ok
    BY <1>1, <2>2 DEF Known
  <2> QED
    BY <2>1, <2>2
<1>7. ASSUME NEW a \in Slots, NEW t \in Tags, slot[p][a].values[t] > 0,
             n.floor[t] > slot[p][a].values[t]
      PROVE  FALSE
  <2>1. Later(p, a, s)
    BY <1>1, <1>7 DEF SyncInv, Ordered
  <2> QED
    BY <1>1, <1>3, <2>1 DEF Later, Behind
<1>8. Ordered'
  BY <1>1, <1>2, <1>7, OrderedKept
<1> QED
  BY <1>4, <1>5, <1>6, <1>8 DEF SyncInv

(* What is served was looked at with a manifest that knows. *)
LEMMA ReadSync ==
    ASSUME Base, SyncInv, NEW p \in Pods, NEW s \in Slots, ResumeRead(p, s)
    PROVE  SyncInv'
<1> DEFINE r == slot[p][s]
           n == slot'[p][s]
<1>1. revalidated' = revalidated /\ manifest' = manifest
  BY DEF ResumeRead
<1>2. RestTyped /\ \A q \in Pods, x \in Slots : slot[q][x] \in Slot
  BY DEF Base, CacheInv, TypeOK, RestTyped
<1>3. \A t \in Tags : revalidated[t] <= revalidated'[t]
  BY <1>1, <1>2 DEF RestTyped, Time
<1>4. CASE Plain(p, s)
  BY <1>1, <1>3, <1>4, PlainSync DEF Plain
<1>5. CASE /\ Base' /\ Moves(p, s) /\ Moved(p, s)
           /\ r.at = "read" /\ n.at = "served" /\ r.key \in Keys /\ n.key = r.key
           /\ n.floor = r.floor /\ n.values = r.values /\ n.synced = r.synced /\ n.time = r.time
           /\ r.time # 0 /\ ~IsStaleByTags(p, r.key, r.time)
  <2>1. RestTyped'
    BY <1>5 DEF Base, CacheInv, TypeOK, RestTyped
  <2>2. ASSUME NEW q \in Pods, NEW x \in Slots, q # p \/ x # s PROVE Told(q, x)' /\ Known(q, x)'
    BY <1>1, <1>2, <1>3, <1>5, <2>1, <2>2, OthersKept
  <2>3. Told(p, s) /\ Known(p, s) /\ \A t \in Tags : ~(n.values[t] > 0)
    BY <1>5, NoValues DEF SyncInv
  <2>4. Told(p, s)'
    BY <1>1, <1>5, <2>3 DEF Told
  <2>5. Known(p, s)'
    <3>1. ASSUME n.synced, NEW t \in TagsOf[r.key] PROVE n.floor[t] < n.time
      <4>1. t \in Tags
        BY <1>5
      <4>2. r.floor[t] <= manifest[p][t]
        BY <1>5, <2>3, <3>1, <4>1 DEF Known
      <4>3. r.floor[t] \in Nat /\ manifest[p][t] \in Nat /\ r.time \in Nat
        BY <1>2, <4>1 DEF RestTyped, Slot, Time
      <4>4. ~(manifest[p][t] > 0 /\ manifest[p][t] >= r.time)
        BY <1>5 DEF IsStaleByTags
      <4> QED
        BY <1>5, <4>2, <4>3, <4>4
    <3> QED
      BY <1>5, <3>1 DEF Known
  <2>6. Ordered'
    <3>1. ASSUME NEW a \in Slots, NEW t \in Tags, slot[p][a].values[t] > 0,
                 n.floor[t] > slot[p][a].values[t]
          PROVE  Later(p, a, s)'
      <4>1. Later(p, a, s)
        BY <1>5, <3>1 DEF SyncInv, Ordered
      <4> QED
        BY <1>5, <4>1 DEF Later
    <3> QED
      BY <1>5, <2>3, <3>1, OrderedKept
  <2> QED
    BY <2>2, <2>4, <2>5, <2>6 DEF SyncInv
<1> QED
  BY <1>4, <1>5, ReadBase

-----------------------------------------------------------------------------
(* What a moved request must be when it revalidates. *)
StampedWell(p, s, n) ==
    n.at \in Stamping =>
       /\ \A q \in Pods, x \in Slots :
             (q # p \/ x # s) /\ slot[q][x].at \in Stamping => n.tags \cap slot[q][x].tags = {}
       /\ n.time <= clock /\ \A t \in n.tags : stamp[t] <= n.time
       /\ n.store = "redis" =>
             /\ \A t \in n.tags : t \notin n.todo \cup {n.tag} => stamp[t] = n.time /\ t \in indexed
             /\ n.at = "index" => stamp[n.tag] = n.time

LEMMA StampMoves ==
    ASSUME StampInv, NEW p \in Pods, NEW s \in Slots, Moves(p, s), Moved(p, s),
           UNCHANGED <<clock, stamp, indexed>>, StampedWell(p, s, slot'[p][s]),
           \A t \in Tags : revalidated'[t] <= stamp[t] /\ (revalidated'[t] > 0 => t \in indexed)
    PROVE  StampInv'
<1> DEFINE n == slot'[p][s]
<1>1. ASSUME NEW q \in Pods, NEW x \in Slots, q # p \/ x # s
      PROVE  /\ slot'[q][x].at = slot[q][x].at /\ slot'[q][x].tags = slot[q][x].tags
             /\ slot'[q][x].time = slot[q][x].time /\ slot'[q][x].store = slot[q][x].store
             /\ slot'[q][x].todo = slot[q][x].todo /\ slot'[q][x].tag = slot[q][x].tag
             /\ (Answered(q, x)' <=> Answered(q, x))
  BY <1>1 DEF Moves, Others, Alike, Moved, Answered
<1>2. ~Answered(p, s)'
  BY DEF Moved, Answered
<1>3. Alone'
  <2> SUFFICES ASSUME NEW q1 \in Pods, NEW q2 \in Pods, NEW x1 \in Slots, NEW x2 \in Slots,
                      slot'[q1][x1].at \in Stamping, slot'[q2][x2].at \in Stamping,
                      slot'[q1][x1].tags \cap slot'[q2][x2].tags # {}
               PROVE  q1 = q2 /\ x1 = x2
    BY DEF Alone
  <2>1. CASE (q1 # p \/ x1 # s) /\ (q2 # p \/ x2 # s)
    BY <1>1, <2>1 DEF StampInv, Alone
  <2>2. CASE q1 = p /\ x1 = s /\ (q2 # p \/ x2 # s)
    BY <1>1, <2>2 DEF StampedWell
  <2>3. CASE q2 = p /\ x2 = s /\ (q1 # p \/ x1 # s)
    BY <1>1, <2>3 DEF StampedWell
  <2> QED
    BY <2>1, <2>2, <2>3
<1>4. TimesPast'
  <2>1. ASSUME NEW q \in Pods, NEW x \in Slots, slot'[q][x].at \in Stamping
        PROVE  slot'[q][x].time <= clock /\ \A t \in slot'[q][x].tags : stamp[t] <= slot'[q][x].time
    <3>1. CASE q = p /\ x = s
      BY <2>1, <3>1 DEF StampedWell
    <3>2. CASE q # p \/ x # s
      BY <1>1, <2>1, <3>2 DEF StampInv, TimesPast
    <3> QED
      BY <3>1, <3>2
  <2> QED
    BY <2>1 DEF StampInv, TimesPast
<1>5. TagsDone'
  <2>1. ASSUME NEW q \in Pods, NEW x \in Slots, slot'[q][x].at \in Stamping, slot'[q][x].store = "redis"
        PROVE  /\ \A t \in slot'[q][x].tags : Done(q, x, t)' =>
                    stamp[t] = slot'[q][x].time /\ t \in indexed
               /\ (slot'[q][x].at = "index" \/ Answered(q, x)') =>
                    stamp[slot'[q][x].tag] = slot'[q][x].time
    <3>1. CASE q = p /\ x = s
      BY <1>2, <2>1, <3>1 DEF StampedWell, Done
    <3>2. CASE q # p \/ x # s
      <4>1. \A t \in slot[q][x].tags : Done(q, x, t)' <=> Done(q, x, t)
        BY <1>1, <3>2 DEF Done
      <4> QED
        BY <1>1, <2>1, <3>2, <4>1 DEF StampInv, TagsDone
    <3> QED
      BY <3>1, <3>2
  <2> QED
    BY <2>1 DEF TagsDone
<1> QED
  BY <1>3, <1>4, <1>5 DEF StampInv

(* Nothing new is revalidated. *)
LEMMA StampPlain ==
    ASSUME StampInv, NEW p \in Pods, NEW s \in Slots, Moves(p, s), Moved(p, s),
           slot'[p][s].at \notin Stamping, UNCHANGED <<clock, stamp, indexed, revalidated>>
    PROVE  StampInv'
<1>1. StampedWell(p, s, slot'[p][s])
  BY DEF StampedWell
<1> QED
  BY <1>1, StampMoves DEF StampInv, TagsDone

(* A revalidation begins: no other of its tags is under way. *)
LEMMA UpdateStamp ==
    ASSUME Serial, Base, StampInv, NEW p \in Pods, NEW s \in Slots, NEW T \in SUBSET Tags,
           CallUpdateTags(p, s, T)
    PROVE  StampInv'
<1> DEFINE n == slot'[p][s]
<1>1. /\ Moves(p, s) /\ Moved(p, s)
      /\ n.at \in Stamping => /\ n.at = "stamp" /\ n.tags = T /\ n.time = clock
                              /\ n.tag \in T /\ n.todo = T \ {n.tag}
  BY UpdateBase
<1>2. \A t \in T : ~Revalidating(t)
  BY DEF CallUpdateTags
<1>3. clock <= clock
  BY DEF Base, CacheInv, TypeOK, Time
<1>4. StampedWell(p, s, n)
  <2> SUFFICES ASSUME n.at \in Stamping
               PROVE  /\ \A q \in Pods, x \in Slots :
                           (q # p \/ x # s) /\ slot[q][x].at \in Stamping => n.tags \cap slot[q][x].tags = {}
                      /\ n.time <= clock /\ \A t \in n.tags : stamp[t] <= n.time
                      /\ \A t \in n.tags : t \in n.todo \cup {n.tag}
                      /\ n.at # "index"
    BY DEF StampedWell
  <2>1. \A q \in Pods, x \in Slots :
           (q # p \/ x # s) /\ slot[q][x].at \in Stamping => n.tags \cap slot[q][x].tags = {}
    BY <1>1, <1>2 DEF Revalidating, Stamping
  <2> QED
    BY <1>1, <1>3, <2>1 DEF StampInv, TimesPast
<1>5. UNCHANGED <<clock, stamp, indexed, revalidated>>
  BY DEF CallUpdateTags, server
<1> QED
  BY <1>1, <1>4, <1>5, StampMoves DEF StampInv, TagsDone

(* A revalidation goes on, or is over. *)
LEMMA RevalidateStamp ==
    ASSUME Base, StampInv, NEW p \in Pods, NEW s \in Slots, Revalidates(p, s),
           UNCHANGED <<clock, stamp, indexed>>,
           \A t \in Tags : revalidated'[t] <= stamp[t] /\ (revalidated'[t] > 0 => t \in indexed)
    PROVE  StampInv'
<1> DEFINE r == slot[p][s]
           n == slot'[p][s]
<1>1. /\ Moves(p, s) /\ Moved(p, s) /\ About(r) /\ r.at \in Stamping /\ In(replies[p], s)
      /\ n = Idle \/ Restamps(r, n) \/ Indexes(r, n) \/ NextTag(r, n)
  BY DEF Revalidates
<1>2. CASE n = Idle
  BY <1>1, <1>2, IdleTyped, StampMoves DEF StampedWell, Stamping
<1>3. CASE Restamps(r, n) \/ Indexes(r, n) \/ NextTag(r, n)
  <2>1. n.tags = r.tags /\ n.time = r.time /\ n.store = r.store
    BY <1>3 DEF Restamps, Indexes, NextTag, Same
  <2>2. \A q \in Pods, x \in Slots :
           (q # p \/ x # s) /\ slot[q][x].at \in Stamping => n.tags \cap slot[q][x].tags = {}
    BY <1>1, <2>1 DEF StampInv, Alone
  <2>3. n.time <= clock /\ \A t \in n.tags : stamp[t] <= n.time
    BY <1>1, <2>1 DEF StampInv, TimesPast
  <2>4. ASSUME n.store = "redis"
        PROVE  /\ \A t \in n.tags : t \notin n.todo \cup {n.tag} => stamp[t] = n.time /\ t \in indexed
               /\ n.at = "index" => stamp[n.tag] = n.time
    <3>1. /\ \A t \in r.tags : Done(p, s, t) => stamp[t] = r.time /\ t \in indexed
          /\ (r.at = "index" \/ Answered(p, s)) => stamp[r.tag] = r.time
      BY <1>1, <2>1, <2>4 DEF StampInv, TagsDone
    <3>2. CASE Restamps(r, n)
      BY <3>2 DEF Restamps, Same
    <3>3. CASE Indexes(r, n)
      BY <1>1, <3>1, <3>3 DEF Indexes, Same, Done, Answered
    <3>4. CASE NextTag(r, n)
      BY <1>1, <3>1, <3>4 DEF NextTag, Same, Done, Answered
    <3> QED
      BY <1>3, <3>2, <3>3, <3>4
  <2>5. StampedWell(p, s, n)
    BY <2>2, <2>3, <2>4 DEF StampedWell
  <2> QED
    BY <1>1, <2>5, StampMoves
<1> QED
  BY <1>1, <1>2, <1>3

(* A whole revalidation counts as succeeded when Redis has all of it. *)
LEMMA IndexStamp ==
    ASSUME Base, StampInv, NEW p \in Pods, NEW s \in Slots, ResumeIndex(p, s)
    PROVE  StampInv' /\ \A t \in Tags : revalidated[t] <= revalidated'[t]
<1> DEFINE r == slot[p][s]
<1>1. Revalidates(p, s) /\ About(r) /\ UNCHANGED <<clock, stamp, indexed>>
  BY IndexBase, SlotTyped DEF ResumeIndex, server
<1>2. /\ r \in Slot /\ \A t \in Tags : revalidated[t] \in Nat /\ stamp[t] \in Nat
      /\ \A t \in Tags : revalidated[t] <= stamp[t] /\ (revalidated[t] > 0 => t \in indexed)
  BY DEF Base, CacheInv, TypeOK, StampInv, TagsDone, Time
<1>3. CASE revalidated' = revalidated
  BY <1>1, <1>2, <1>3, RevalidateStamp
<1>4. CASE /\ r.at = "index" /\ r.ok /\ r.todo = {}
           /\ \A t \in Tags : revalidated'[t] =
                IF r.store = "redis" /\ t \in r.tags /\ r.time > revalidated[t]
                  THEN r.time ELSE revalidated[t]
  <2>1. Answered(p, s)
    BY <1>1, <1>4 DEF Revalidates, Answered
  <2>2. ASSUME r.store = "redis", NEW t \in r.tags PROVE stamp[t] = r.time /\ t \in indexed
    <3>1. Done(p, s, t)
      BY <1>4, <2>1 DEF Done
    <3> QED
      BY <1>4, <2>2, <3>1 DEF StampInv, TagsDone, Stamping
  <2>3. \A t \in Tags : revalidated[t] <= revalidated'[t]
    BY <1>2, <1>4 DEF Slot, Time
  <2>4. \A t \in Tags : revalidated'[t] <= stamp[t] /\ (revalidated'[t] > 0 => t \in indexed)
    BY <1>2, <1>4, <2>2
  <2> QED
    BY <1>1, <2>3, <2>4, RevalidateStamp
<1> QED
  BY <1>3, <1>4, IndexBase

LEMMA ReissueKept ==
    ASSUME Base, StampInv, SyncInv, NEW p \in Pods, NEW s \in Slots, Reissue(p, s)
    PROVE  StampInv' /\ SyncInv'
<1> DEFINE r == slot[p][s]
           n == slot'[p][s]
<1>1. /\ Base' /\ Moves(p, s) /\ Moved(p, s) /\ r.backoff /\ r \in Slot /\ About(r)
      /\ UNCHANGED <<clock, stamp, indexed, revalidated, manifest>>
  BY ReissueBase, SlotTyped DEF Reissue, server
<1>2. /\ n.at = r.at /\ n.tags = r.tags /\ n.time = r.time /\ n.store = r.store /\ n.tag = r.tag
      /\ n.todo = r.todo /\ n.floor = r.floor /\ n.values = r.values /\ n.synced = r.synced
      /\ n.ok = r.ok
  <2>1. n = [r EXCEPT !.backoff = FALSE]
    BY ReissueBase
  <2> HIDE DEF n
  <2> QED
    BY <1>1, <2>1 DEF Slot
<1>3. StampInv'
  <2>1. ASSUME n.at \in Stamping
        PROVE  \A q \in Pods, x \in Slots :
                 (q # p \/ x # s) /\ slot[q][x].at \in Stamping => n.tags \cap slot[q][x].tags = {}
    BY <1>2, <2>1 DEF StampInv, Alone
  <2>2. ASSUME n.at \in Stamping
        PROVE  n.time <= clock /\ \A t \in n.tags : stamp[t] <= n.time
    BY <1>2, <2>2 DEF StampInv, TimesPast
  <2>3. ASSUME n.at \in Stamping, n.store = "redis"
        PROVE  /\ \A t \in n.tags : t \notin n.todo \cup {n.tag} => stamp[t] = n.time /\ t \in indexed
               /\ n.at = "index" => stamp[n.tag] = n.time
    BY <1>2, <2>3 DEF StampInv, TagsDone, Done
  <2>4. StampedWell(p, s, n)
    BY <2>1, <2>2, <2>3 DEF StampedWell
  <2> QED
    BY <1>1, <2>4, StampMoves DEF StampInv, TagsDone
<1>4. SyncInv'
  <2>1. RestTyped /\ RestTyped' /\ \A q \in Pods, x \in Slots : slot[q][x] \in Slot
    BY <1>1 DEF Base, CacheInv, TypeOK, RestTyped
  <2>2. \A t \in Tags : revalidated[t] <= revalidated'[t]
    BY <1>1, <2>1 DEF RestTyped, Time
  <2>3. ASSUME NEW q \in Pods, NEW x \in Slots, q # p \/ x # s PROVE Told(q, x)' /\ Known(q, x)'
    BY <1>1, <2>1, <2>2, <2>3, OthersKept
  <2>4. ~In(replies[p], s) /\ Told(p, s) /\ Known(p, s)
    BY <1>1 DEF Base, QueueInv, SyncInv
  <2>5. ~Answered(p, s) /\ ~Answered(p, s)' /\ \A t \in Tags : ~(n.values[t] > 0)
    BY <1>1, <1>2, <2>4 DEF Moved, Answered, Told
  <2>6. Told(p, s)'
    BY <1>1, <1>2, <2>4, <2>5 DEF Told
  <2>7. Known(p, s)'
    <3>1. r.at # "served"
      BY <1>1 DEF About, Commands
    <3> QED
      BY <1>1, <1>2, <2>4, <3>1 DEF Known
  <2>8. ASSUME NEW a \in Slots, NEW t \in Tags, a # s, slot[p][a].values[t] > 0,
               n.floor[t] > slot[p][a].values[t]
        PROVE  Later(p, a, s)'
    <3>1. Later(p, a, s)
      BY <1>2, <2>8 DEF SyncInv, Ordered
    <3>2. Behind(p, a, s) => Behind(p, a, s)'
      <4>1. In(sent'[p], s)
        <5>1. Send(p, s, [r EXCEPT !.backoff = FALSE]) /\ sent[p] \in Seq(Slots)
          BY DEF Reissue, Base, CacheInv, TypeOK
        <5>2. sent'[p] = Append(sent[p], s)
          BY <5>1 DEF Send, Base, CacheInv, TypeOK
        <5> QED
          BY <5>1, <5>2, AppendHolds
      <4> QED
        BY <4>1 DEF Behind
    <3> QED
      BY <1>2, <3>1, <3>2 DEF Later
  <2>9. Ordered'
    BY <1>1, <2>5, <2>8, OrderedKept
  <2> QED
    BY <2>3, <2>6, <2>7, <2>9 DEF SyncInv
<1> QED
  BY <1>3, <1>4

(* A command to Redis: what is answered is what Redis holds. *)
LEMMA ExecuteStamp ==
    ASSUME Base, StampInv, NEW p \in Pods, NEW h \in Slots, Passes(p, h), Lone(p, h),
           Answers(slot[p][h], slot'[p][h]),
           \/ UNCHANGED <<stamp, indexed>> /\ (slot'[p][h].ok => slot[p][h].store # "redis")
           \/ Stamped(slot[p][h]) /\ slot[p][h].store = "redis",
           UNCHANGED <<clock, revalidated>>
    PROVE  StampInv'
<1> DEFINE r == slot[p][h]
           n == slot'[p][h]
<1>1. /\ r \in Slot /\ About(r) /\ RestTyped
      /\ \A t \in Tags : stamp[t] \in Nat /\ revalidated[t] \in Nat
  BY SlotTyped DEF RestTyped, Time
<1>2. /\ \A q \in Pods, x \in Slots : q # p \/ x # h =>
            slot'[q][x] = slot[q][x] /\ (Answered(q, x)' <=> Answered(q, x))
      /\ r.at \in Stamping => n.at = r.at /\ n.tags = r.tags /\ n.time = r.time /\ n.store = r.store
                              /\ n.todo = r.todo /\ n.tag = r.tag
      /\ n.at = r.at
  BY DEF Lone, Passes, Answers, Answered, Stamping
<1>3. \A q \in Pods, x \in Slots : slot'[q][x].at \in Stamping =>
        /\ slot[q][x].at \in Stamping /\ slot'[q][x].tags = slot[q][x].tags
        /\ slot'[q][x].time = slot[q][x].time /\ slot'[q][x].store = slot[q][x].store
        /\ slot'[q][x].todo = slot[q][x].todo /\ slot'[q][x].tag = slot[q][x].tag
        /\ slot'[q][x].at = slot[q][x].at
  BY <1>2
<1>4. Alone'
  BY <1>3 DEF StampInv, Alone
<1>5. ~Answered(p, h) /\ (Answered(p, h)' <=> n.ok)
  BY DEF Passes, Answered
(* Only the revalidation of a tag changes its timestamp, to its own time. *)
<1>6. \A t \in Tags : stamp'[t] # stamp[t] =>
        r.at = "stamp" /\ r.store = "redis" /\ t = r.tag /\ t \in r.tags /\ stamp'[t] = r.time
  BY <1>1 DEF Stamped, About, Stamping, RestTyped
<1>7. r.at = "stamp" => stamp[r.tag] <= r.time /\ r.time <= clock /\ r.tag \in Tags
  BY <1>1 DEF StampInv, TimesPast, About, Stamping, Slot
<1>8. \A t \in Tags : t \in indexed => t \in indexed'
  BY <1>1 DEF Stamped
<1>9. ASSUME NEW q \in Pods, NEW x \in Slots, q # p \/ x # h, slot[q][x].at \in Stamping,
             NEW t \in slot[q][x].tags
      PROVE  stamp'[t] = stamp[t]
  <2>1. r.at = "stamp" => r.tags \cap slot[q][x].tags = {}
    BY <1>9 DEF StampInv, Alone, Stamping
  <2>2. t \in Tags
    BY <1>9 DEF Base, CacheInv, TypeOK, Slot
  <2> QED
    BY <1>6, <2>1, <2>2
<1>10. TimesPast'
  <2>1. \A t \in Tags : stamp'[t] <= clock
    BY <1>6, <1>7 DEF StampInv, TimesPast
  <2>2. ASSUME NEW q \in Pods, NEW x \in Slots, slot'[q][x].at \in Stamping
        PROVE  slot'[q][x].time <= clock /\ \A t \in slot'[q][x].tags : stamp'[t] <= slot'[q][x].time
    <3>1. slot[q][x].time <= clock /\ \A t \in slot[q][x].tags : stamp[t] <= slot[q][x].time
      BY <1>3, <2>2 DEF StampInv, TimesPast
    <3>2. CASE q = p /\ x = h
      <4>1. r.tags \subseteq Tags /\ r.time <= r.time
        BY <1>1 DEF Slot, Time
      <4> QED
        BY <1>3, <1>6, <2>2, <3>1, <3>2, <4>1
    <3>3. CASE q # p \/ x # h
      BY <1>3, <1>9, <2>2, <3>1, <3>3
    <3> QED
      BY <3>2, <3>3
  <2> QED
    BY <2>1, <2>2 DEF TimesPast
<1>11. TagsDone'
  <2>1. \A t \in Tags : revalidated[t] <= stamp'[t] /\ (revalidated[t] > 0 => t \in indexed')
    <3> TAKE t \in Tags
    <3>1. revalidated[t] <= stamp[t] /\ (revalidated[t] > 0 => t \in indexed)
      BY DEF StampInv, TagsDone
    <3>2. CASE stamp'[t] = stamp[t]
      BY <1>8, <3>1, <3>2
    <3>3. CASE stamp'[t] # stamp[t]
      <4>1. stamp'[t] = r.time /\ stamp[t] <= r.time /\ r.time \in Nat
        BY <1>1, <1>6, <1>7, <3>3 DEF Slot, Time
      <4> QED
        BY <1>1, <1>8, <3>1, <4>1
    <3> QED
      BY <3>2, <3>3
  <2>2. ASSUME NEW q \in Pods, NEW x \in Slots, slot'[q][x].at \in Stamping, slot'[q][x].store = "redis"
        PROVE  /\ \A t \in slot'[q][x].tags : Done(q, x, t)' =>
                    stamp'[t] = slot'[q][x].time /\ t \in indexed'
               /\ (slot'[q][x].at = "index" \/ Answered(q, x)') =>
                    stamp'[slot'[q][x].tag] = slot'[q][x].time
    <3>1. /\ \A t \in slot[q][x].tags : Done(q, x, t) => stamp[t] = slot[q][x].time /\ t \in indexed
          /\ (slot[q][x].at = "index" \/ Answered(q, x)) => stamp[slot[q][x].tag] = slot[q][x].time
      BY <1>3, <2>2 DEF StampInv, TagsDone
    <3>2. slot[q][x].tags \subseteq Tags /\ slot[q][x].tag \in slot[q][x].tags
      BY <1>3, <2>2 DEF Base, CacheInv, TypeOK, Slot, About
    <3>3. CASE q # p \/ x # h
      <4>1. \A t \in slot[q][x].tags : Done(q, x, t)' <=> Done(q, x, t)
        BY <1>2, <3>3 DEF Done
      <4> QED
        BY <1>2, <1>3, <1>8, <1>9, <2>2, <3>1, <3>2, <3>3, <4>1
    <3>4. CASE q = p /\ x = h
      <4>1. n.ok => Stamped(r)
        BY <1>3, <2>2, <3>4
      <4>2. r.at = "index" => stamp' = stamp
        BY DEF Stamped
      <4>3. r.at = "stamp" /\ n.ok => stamp'[r.tag] = r.time
        BY <1>1, <1>7, <4>1 DEF Stamped, RestTyped
      <4>4. ASSUME NEW t \in r.tags, Done(p, h, t)' PROVE stamp'[t] = r.time /\ t \in indexed'
        <5>1. CASE t \notin r.todo \cup {r.tag}
          <6>1. Done(p, h, t)
            BY <5>1 DEF Done
          <6>2. stamp'[t] = stamp[t] /\ t \in Tags
            BY <1>6, <3>2, <3>4, <5>1
          <6> QED
            BY <1>8, <3>1, <3>4, <6>1, <6>2
        <5>2. CASE t = r.tag /\ r.at = "index" /\ n.ok
          BY <3>1, <3>4, <4>1, <4>2, <5>2 DEF Stamped
        <5> QED
          BY <1>3, <1>5, <2>2, <3>4, <4>4, <5>1, <5>2 DEF Done
      <4>5. (r.at = "index" \/ n.ok) => stamp'[r.tag] = r.time
        <5>1. CASE r.at = "index"
          BY <3>1, <3>4, <4>2, <5>1
        <5>2. CASE r.at = "stamp"
          BY <4>3, <5>2
        <5> QED
          BY <1>3, <2>2, <3>4, <5>1, <5>2 DEF Stamping
      <4> QED
        BY <1>3, <1>5, <2>2, <3>4, <4>4, <4>5
    <3> QED
      BY <3>3, <3>4
  <2> QED
    BY <2>1, <2>2 DEF TagsDone
<1> QED
  BY <1>4, <1>10, <1>11 DEF StampInv

LEMMA ExecuteSync ==
    ASSUME Base, StampInv, SyncInv, NEW p \in Pods, NEW h \in Slots, Passes(p, h), Lone(p, h),
           Answers(slot[p][h], slot'[p][h]), UNCHANGED <<revalidated, manifest>>
    PROVE  SyncInv'
<1> DEFINE r == slot[p][h]
           n == slot'[p][h]
<1>1. /\ r \in Slot /\ RestTyped /\ r.at \in Commands
      /\ \A q \in Pods, x \in Slots : slot[q][x] \in Slot
  BY DEF Base, CacheInv, TypeOK, RestTyped, Passes
<1>2. n.at = r.at /\ n.floor = r.floor /\ n.synced = r.synced /\ n.key = r.key
  BY DEF Answers
<1>3. \A q \in Pods, x \in Slots : q # p \/ x # h =>
        slot'[q][x] = slot[q][x] /\ (In(replies'[q], x) <=> In(replies[q], x))
  BY DEF Lone, Passes
(* What is answered to mget is no older than what has succeeded. *)
<1>4. ASSUME NEW t \in Tags, n.values[t] > 0
      PROVE  r.at = "mget" /\ n.values[t] = stamp[t] /\ revalidated[t] <= n.values[t]
  <2>1. Told(p, h) /\ ~In(replies[p], h)
    BY DEF SyncInv, Passes
  <2>2. ~(r.values[t] > 0)
    BY <2>1 DEF Told
  <2>3. r.at = "mget" /\ n.values = [u \in Tags |-> IF u \in r.tags THEN stamp[u] ELSE 0]
    BY <1>4, <2>2 DEF Answers
  <2>4. n.values[t] = stamp[t]
    BY <1>4, <2>3
  <2> QED
    BY <2>3, <2>4 DEF StampInv, TagsDone
<1>5. ASSUME NEW q \in Pods, NEW x \in Slots PROVE Told(q, x)'
  <2>1. Told(q, x)
    BY DEF SyncInv
  <2>2. CASE q # p \/ x # h
    <3>1. Answered(q, x)' <=> Answered(q, x)
      BY <1>3, <2>2 DEF Answered
    <3> QED
      BY <1>3, <2>1, <2>2, <3>1 DEF Told
  <2>3. CASE q = p /\ x = h
    <3>1. In(replies'[p], h) /\ (Answered(p, h)' <=> n.ok)
      BY DEF Passes, Answered
    <3>2. ASSUME NEW t \in Tags PROVE r.floor[t] <= revalidated[t]
      BY <2>1, <2>3 DEF Told
    <3>3. ASSUME r.at = "smembers", n.ok, NEW t \in Tags, r.floor[t] > 0 PROVE t \in n.tags
      <4>1. r.floor[t] \in Nat /\ revalidated[t] \in Nat
        BY <1>1 DEF Slot, RestTyped, Time
      <4>2. revalidated[t] > 0
        BY <3>2, <3>3, <4>1
      <4>3. t \in indexed
        BY <4>2 DEF StampInv, TagsDone
      <4> QED
        BY <3>3, <4>3 DEF Answers
    <3>4. ASSUME r.at = "mget" PROVE \A t \in Tags : r.floor[t] > 0 => t \in r.tags
      BY <2>1, <2>3, <3>4 DEF Told
    <3>5. ASSUME r.at = "mget", n.ok, NEW t \in Tags PROVE r.floor[t] <= n.values[t]
      <4>1. n.values = [u \in Tags |-> IF u \in r.tags THEN stamp[u] ELSE 0]
        BY <3>5 DEF Answers
      <4>2. r.floor[t] \in Nat /\ revalidated[t] \in Nat /\ stamp[t] \in Nat
            /\ revalidated[t] <= stamp[t] /\ r.floor[t] <= revalidated[t]
        BY <1>1, <3>2 DEF Slot, RestTyped, Time, StampInv, TagsDone
      <4>3. CASE t \in r.tags
        BY <4>1, <4>2, <4>3
      <4>4. CASE t \notin r.tags
        <5>1. n.values[t] = 0 /\ ~(r.floor[t] > 0)
          BY <3>4, <3>5, <4>1, <4>4
        <5> QED
          BY <4>2, <5>1
      <4> QED
        BY <4>3, <4>4
    <3>6. r.at = "mget" => n.tags = r.tags
      BY DEF Answers
    <3> QED
      BY <1>2, <1>4, <2>3, <3>1, <3>2, <3>3, <3>4, <3>5, <3>6 DEF Told
  <2> QED
    BY <2>2, <2>3
<1>6. ASSUME NEW q \in Pods, NEW x \in Slots PROVE Known(q, x)'
  <2>1. Known(q, x)
    BY DEF SyncInv
  <2>2. CASE q # p \/ x # h
    BY <1>3, <2>1, <2>2 DEF Known
  <2>3. CASE q = p /\ x = h
    <3>1. r.at # "served"
      BY <1>1 DEF Commands
    <3> QED
      BY <1>2, <2>1, <2>3, <3>1 DEF Known
  <2> QED
    BY <2>2, <2>3
<1>7. Ordered'
  <2> SUFFICES ASSUME NEW q \in Pods, NEW a \in Slots, NEW b \in Slots, NEW t \in Tags,
                      slot'[q][a].values[t] > 0, slot'[q][b].floor[t] > slot'[q][a].values[t]
               PROVE  Later(q, a, b)'
    BY DEF Ordered, Later, Behind, In, Before
  <2>1. slot'[q][b].floor = slot[q][b].floor /\ slot'[q][b].at = slot[q][b].at
        /\ slot'[q][b].synced = slot[q][b].synced
    BY <1>2, <1>3
  <2>2. ~(q = p /\ a = h)
    <3>1. slot[q][b].floor[t] <= revalidated[t]
      BY DEF SyncInv, Told
    <3>2. slot[q][b].floor[t] \in Nat /\ revalidated[t] \in Nat /\ stamp[t] \in Nat
      BY <1>1 DEF Slot, RestTyped, Time
    <3> QED
      BY <1>4, <2>1, <3>1, <3>2
  <2>3. slot'[q][a] = slot[q][a]
    BY <1>3, <2>2
  <2>4. Later(q, a, b)
    BY <2>1, <2>3 DEF SyncInv, Ordered
  <2>5. In(replies[q], a)
    BY <2>3 DEF SyncInv, Told
  <2>6. Behind(q, a, b) => Behind(q, a, b)'
    <3>1. CASE q = p
      BY <2>5, <3>1 DEF Behind, Passes
    <3>2. CASE q # p
      <4>1. sent'[q] = sent[q] /\ replies'[q] = replies[q]
        BY <3>2 DEF Passes
      <4> QED
        BY <4>1 DEF Behind, In, Before
    <3> QED
      BY <3>1, <3>2
  <2> QED
    BY <2>1, <2>4, <2>6 DEF Later
<1> QED
  BY <1>5, <1>6, <1>7 DEF SyncInv

(* A pod that restarts has no request to break a promise to. *)
LEMMA RestartKept ==
    ASSUME Base, StampInv, SyncInv, NEW p \in Pods, Restart(p)
    PROVE  StampInv' /\ SyncInv'
<1>1. /\ Fresh(p) /\ RestTyped /\ UNCHANGED <<clock, stamp, indexed, revalidated>>
      /\ \A q \in Pods : q # p => manifest'[q] = manifest[q]
  BY RestartBase DEF Restart, server, Base, CacheInv, TypeOK, RestTyped
<1>2. ASSUME NEW q \in Pods, NEW x \in Slots
      PROVE  IF q = p THEN slot'[q][x] = Idle
             ELSE /\ slot'[q] = slot[q] /\ sent'[q] = sent[q] /\ replies'[q] = replies[q]
                  /\ manifest'[q] = manifest[q]
  BY <1>1 DEF Fresh
<1>3. Idle.at \notin Stamping /\ ~Idle.synced /\ Idle.floor = Zero /\ Idle.values = Zero
      /\ Idle.at \notin {"smembers", "mget"}
      /\ \A t \in Tags : Zero[t] = 0 /\ ~(0 > 0) /\ revalidated[t] \in Nat
  BY <1>1, IdleTyped DEF Stamping, Zero, RestTyped, Time
<1>4. Alone' /\ TimesPast'
  BY <1>1, <1>2, <1>3 DEF StampInv, Alone, TimesPast
<1>5. TagsDone'
  <2>1. ASSUME NEW q \in Pods, NEW x \in Slots, slot'[q][x].at \in Stamping, slot'[q][x].store = "redis"
        PROVE  /\ \A t \in slot'[q][x].tags : Done(q, x, t)' =>
                    stamp[t] = slot'[q][x].time /\ t \in indexed
               /\ (slot'[q][x].at = "index" \/ Answered(q, x)') =>
                    stamp[slot'[q][x].tag] = slot'[q][x].time
    <3>1. slot'[q] = slot[q] /\ replies'[q] = replies[q]
      BY <1>2, <1>3, <2>1
    <3>2. Answered(q, x)' <=> Answered(q, x)
      BY <3>1 DEF Answered, In
    <3>3. \A t \in slot[q][x].tags : Done(q, x, t)' <=> Done(q, x, t)
      BY <3>1, <3>2 DEF Done
    <3> QED
      BY <2>1, <3>1, <3>2, <3>3 DEF StampInv, TagsDone
  <2> QED
    BY <1>1, <2>1 DEF StampInv, TagsDone
<1>6. ASSUME NEW q \in Pods, NEW x \in Slots PROVE Told(q, x)' /\ Known(q, x)'
  <2>1. CASE q = p
    <3>1. slot'[q][x] = Idle
      BY <1>2, <2>1
    <3> QED
      BY <1>1, <1>3, <3>1 DEF Told, Known
  <2>2. CASE q # p
    <3>1. slot'[q] = slot[q] /\ replies'[q] = replies[q] /\ manifest'[q] = manifest[q]
      BY <1>2, <2>2
    <3>2. (Answered(q, x)' <=> Answered(q, x)) /\ (In(replies'[q], x) <=> In(replies[q], x))
      BY <3>1 DEF Answered, In
    <3> QED
      BY <1>1, <3>1, <3>2 DEF SyncInv, Told, Known
  <2> QED
    BY <2>1, <2>2
<1>7. Ordered'
  <2> SUFFICES ASSUME NEW q \in Pods, NEW a \in Slots, NEW b \in Slots, NEW t \in Tags,
                      slot'[q][a].values[t] > 0, slot'[q][b].floor[t] > slot'[q][a].values[t]
               PROVE  Later(q, a, b)'
    BY DEF Ordered, Later, Behind, In, Before
  <2>1. slot'[q] = slot[q] /\ sent'[q] = sent[q] /\ replies'[q] = replies[q]
    BY <1>2, <1>3
  <2>2. Later(q, a, b)
    BY <2>1 DEF SyncInv, Ordered
  <2> QED
    BY <2>1, <2>2 DEF Later, Behind, In, Before
<1> QED
  BY <1>4, <1>5, <1>6, <1>7 DEF StampInv, SyncInv

(* Time passes, entries go, or nothing happens. *)
LEMMA QuietKept ==
    ASSUME Base, StampInv, SyncInv, clock' = clock \/ clock' = clock + 1,
           UNCHANGED <<stamp, indexed, revalidated, manifest, slot, sent, replies>>
    PROVE  StampInv' /\ SyncInv'
<1>1. TimesPast'
  <2>1. /\ clock \in Nat /\ \A t \in Tags : stamp[t] \in Nat
        /\ \A p \in Pods, s \in Slots : slot[p][s].time \in Nat
    BY DEF Base, CacheInv, TypeOK, Time, Slot
  <2> QED
    BY <2>1 DEF StampInv, TimesPast
<1>2. Alone' /\ TagsDone'
  BY DEF StampInv, Alone, TagsDone, Done, Answered, In
<1>3. SyncInv'
  BY DEF SyncInv, Ordered, Later, Behind, Told, Known, Answered, In, Before
<1> QED
  BY <1>1, <1>2, <1>3 DEF StampInv

(* A command that is dropped is none of refreshTags(): its place in the queue is no loss. *)
LEMMA DropKept ==
    ASSUME Base, StampInv, SyncInv, NEW p \in Pods, Drop(p)
    PROVE  StampInv' /\ SyncInv'
<1>1. PICK h \in Slots : Drops(p, h)
  BY DropBase
<1>2. UNCHANGED <<clock, stamp, indexed, manifest, slot, replies, revalidated>>
  BY DEF Drop, server
<1>3. slot[p][h].at \notin {"smembers", "mget"}
  BY <1>1 DEF Drops, Base, CacheInv, About
<1>4. Alone' /\ TimesPast' /\ TagsDone'
  BY <1>2 DEF StampInv, Alone, TimesPast, TagsDone, Done, Answered, In
<1>5. ASSUME NEW q \in Pods, NEW a \in Slots, NEW b \in Slots, Later(q, a, b)
      PROVE  Later(q, a, b)'
  <2>1. slot[q][b].at \in {"smembers", "mget"} /\ In(sent[q], b) => In(sent'[q], b)
    BY <1>1, <1>3 DEF Drops
  <2>2. Before(replies'[q], a, b) <=> Before(replies[q], a, b)
    BY <1>2 DEF Before
  <2> QED
    BY <1>2, <1>5, <2>1, <2>2 DEF Later, Behind
<1>6. Ordered'
  BY <1>2, <1>5 DEF SyncInv, Ordered
<1>7. \A q \in Pods, x \in Slots : Told(q, x)' /\ Known(q, x)'
  BY <1>2 DEF SyncInv, Told, Known, Answered, In
<1> QED
  BY <1>4, <1>6, <1>7 DEF StampInv, SyncInv

LEMMA RespectInit == Init => RespectInv
<1> SUFFICES ASSUME Init PROVE RespectInv
  OBVIOUS
<1>1. Base
  BY BaseInit
<1>2. /\ \A p \in Pods, s \in Slots : slot[p][s] = Idle
      /\ \A t \in Tags : Zero[t] = 0 /\ 0 <= 0 /\ 0 <= 1 /\ ~(0 > 0)
      /\ clock = 1 /\ stamp = Zero /\ revalidated = Zero /\ indexed = {}
  BY DEF Init, Zero
<1>3. Idle.at = "idle" /\ ~Idle.synced /\ Idle.floor = Zero /\ Idle.values = Zero
  BY IdleTyped
<1>4. StampInv
  BY <1>2, <1>3 DEF StampInv, Alone, TimesPast, TagsDone, Stamping
<1>5. SyncInv
  BY <1>2, <1>3 DEF SyncInv, Ordered, Told, Known
<1> QED
  BY <1>1, <1>4, <1>5 DEF RespectInv

LEMMA RespectNext == Serial /\ RespectInv /\ [Next]_vars => RespectInv'
<1> SUFFICES ASSUME Serial, Base, StampInv, SyncInv, [Next]_vars PROVE StampInv' /\ SyncInv'
  BY BaseNext DEF RespectInv
<1>0. Base' /\ \A t \in Tags : revalidated[t] <= revalidated[t]
  BY BaseNext DEF Base, CacheInv, TypeOK, Time
<1>1. ASSUME NEW p \in Pods, NEW s \in Slots, NEW k \in Keys, BeginRequest(p, s, k)
      PROVE  StampInv' /\ SyncInv'
  <2>1. Moves(p, s) /\ Moved(p, s) /\ slot'[p][s].at \notin Stamping
    BY <1>1, BeginBase DEF Stamping
  <2>2. UNCHANGED <<clock, stamp, indexed, revalidated>>
    BY <1>1 DEF BeginRequest, server
  <2> QED
    BY <1>1, <2>1, <2>2, StampPlain, BeginSync
<1>2. ASSUME NEW p \in Pods, NEW s \in Slots, NEW T \in SUBSET Tags, CallUpdateTags(p, s, T)
      PROVE  StampInv' /\ SyncInv'
  <2>1. /\ Moves(p, s) /\ Moved(p, s) /\ Quits(slot[p][s], slot'[p][s]) /\ revalidated' = revalidated
        /\ \A q \in Pods, t \in Tags :
              manifest'[q][t] = IF q = p /\ t \in T THEN clock ELSE manifest[q][t]
    BY <1>2, UpdateBase DEF CallUpdateTags
  <2>2. ASSUME NEW q \in Pods, NEW x \in Slots, NEW t \in Tags, slot[q][x].floor[t] <= manifest[q][t]
        PROVE  slot[q][x].floor[t] <= manifest'[q][t]
    <3>1. /\ slot[q][x].floor[t] \in Nat /\ revalidated[t] \in Nat /\ stamp[t] \in Nat /\ clock \in Nat
          /\ slot[q][x].floor[t] <= revalidated[t]
          /\ revalidated[t] <= stamp[t] /\ stamp[t] <= clock
      BY DEF Base, CacheInv, TypeOK, Slot, Time, SyncInv, Told, StampInv, TagsDone, TimesPast
    <3> QED
      BY <2>1, <2>2, <3>1
  <2>3. SyncInv'
    BY <1>0, <2>1, <2>2, PlainSync
  <2> QED
    BY <1>2, <2>3, UpdateStamp
(* A step that neither synchronizes nor revalidates. *)
<1>3. ASSUME NEW p \in Pods, NEW s \in Slots, Plain(p, s),
             UNCHANGED <<clock, stamp, indexed, revalidated, manifest>>
      PROVE  StampInv' /\ SyncInv'
  BY <1>0, <1>3, StampPlain, PlainSync DEF Plain
<1>4. ASSUME NEW p \in Pods, NEW s \in Slots, CallSet(p, s) PROVE StampInv' /\ SyncInv'
  BY <1>3, <1>4, CallSetBase DEF CallSet, server
(* A step of a revalidation is over with, or goes on with, nothing to know. *)
<1>5. ASSUME NEW p \in Pods, NEW s \in Slots, Revalidates(p, s), manifest' = manifest,
             \A t \in Tags : revalidated[t] <= revalidated'[t]
      PROVE  SyncInv'
  <2> DEFINE r == slot[p][s]
             n == slot'[p][s]
  <2>1. CASE n = Idle
    <3>1. Quits(r, n)
      BY <2>1, IdleTyped DEF Quits, Syncing
    <3> QED
      BY <1>0, <1>5, <3>1, PlainSync DEF Revalidates
  <2>2. CASE Restamps(r, n) \/ Indexes(r, n) \/ NextTag(r, n)
    <3>1. Goes(r, n)
      BY <1>5, <2>2 DEF Goes, Syncing, Getting, Stamping, Revalidates, Restamps, Indexes, NextTag, Same
    <3> QED
      BY <1>0, <1>5, <3>1, PlainSync DEF Revalidates
  <2> QED
    BY <1>5, <2>1, <2>2 DEF Revalidates
<1>6. ASSUME NEW p \in Pods, NEW s \in Slots, Progress(p, s) PROVE StampInv' /\ SyncInv'
  <2>1. CASE Reissue(p, s)
    BY <2>1, ReissueKept
  <2>2. CASE ResumeSmembers(p, s)
    <3>1. Moves(p, s) /\ Moved(p, s) /\ slot'[p][s].at \notin Stamping
      BY <2>2, SmembersBase DEF Stamping
    <3>2. UNCHANGED <<clock, stamp, indexed, revalidated>>
      BY <2>2 DEF ResumeSmembers, server
    <3> QED
      BY <2>2, <3>1, <3>2, StampPlain, SmembersSync
  <2>3. CASE ResumeMget(p, s)
    <3>1. Moves(p, s) /\ Moved(p, s) /\ slot'[p][s].at \notin Stamping
      BY <2>3, MgetBase DEF Stamping
    <3>2. UNCHANGED <<clock, stamp, indexed, revalidated>>
      BY <2>3 DEF ResumeMget, server
    <3> QED
      BY <2>3, <3>1, <3>2, StampPlain, MgetSync
  <2>4. CASE CallGet(p, s)
    BY <1>3, <2>4, CallGetBase DEF CallGet, server
  <2>5. CASE ProceedGet(p, s)
    BY <1>3, <2>5, ProceedBase DEF ProceedGet, server
  <2>6. CASE ResumeRead(p, s)
    <3>1. Moves(p, s) /\ Moved(p, s) /\ slot'[p][s].at \notin Stamping
      BY <2>6, ReadBase DEF Stamping, Plain
    <3>2. UNCHANGED <<clock, stamp, indexed, revalidated>>
      BY <2>6 DEF ResumeRead, server
    <3> QED
      BY <2>6, <3>1, <3>2, StampPlain, ReadSync
  <2>7. CASE EndRequest(p, s)
    BY <1>3, <2>7, EndBase DEF EndRequest, server
  <2>8. CASE Rendered(p, s)
    BY <1>3, <2>8, RenderedBase DEF Rendered, server
  <2>9. CASE ResumeStore(p, s)
    BY <1>3, <2>9, StoreBase DEF ResumeStore, server
  <2>10. CASE ResumeStamp(p, s)
    <3>1. Revalidates(p, s) /\ UNCHANGED <<clock, stamp, indexed, revalidated, manifest>>
      BY <2>10, StampBase DEF ResumeStamp, server
    <3>2. \A t \in Tags : revalidated'[t] <= stamp[t] /\ (revalidated'[t] > 0 => t \in indexed)
      BY <3>1 DEF StampInv, TagsDone
    <3> QED
      BY <1>0, <1>5, <3>1, <3>2, RevalidateStamp
  <2>11. CASE ResumeIndex(p, s)
    <3>1. Revalidates(p, s) /\ manifest' = manifest
      BY <2>11, IndexBase DEF ResumeIndex
    <3> QED
      BY <1>5, <2>11, <3>1, IndexStamp
  <2> QED
    BY <1>6, <2>1, <2>2, <2>3, <2>4, <2>5, <2>6, <2>7, <2>8, <2>9, <2>10, <2>11 DEF Progress
<1>7. ASSUME NEW p \in Pods, Execute(p) PROVE StampInv' /\ SyncInv'
  <2>1. UNCHANGED <<clock, revalidated, manifest>>
    BY <1>7 DEF Execute
  <2> QED
    BY <1>7, <2>1, ExecuteBase, ExecuteStamp, ExecuteSync
<1>8. ASSUME NEW p \in Pods, Restart(p) PROVE StampInv' /\ SyncInv'
  BY <1>8, RestartKept
<1>9. CASE (\E k \in Keys : Expire(k)) \/ (\E p \in Pods : WorkerDies(p)) \/ Tick \/ UNCHANGED vars
  <2>1. /\ clock' = clock \/ clock' = clock + 1
        /\ UNCHANGED <<stamp, indexed, revalidated, manifest, slot, sent, replies>>
    BY <1>9 DEF Expire, WorkerDies, Tick, vars, server
  <2> QED
    BY <2>1, QuietKept
<1>10. ASSUME NEW p \in Pods, Drop(p) PROVE StampInv' /\ SyncInv'
  BY <1>10, DropKept
<1> QED
  BY <1>1, <1>2, <1>4, <1>6, <1>7, <1>8, <1>9, <1>10 DEF Next

(***************************************************************************)
(* When revalidations of one tag do not overlap, a request whose           *)
(* refreshTags() succeeded is never served an entry as old as a            *)
(* revalidation that had succeeded, on whatever pod, when it began.        *)
(***************************************************************************)
THEOREM RevalidationsRespected == Serial => (Spec => []RevalidationRespected)
<1> SUFFICES ASSUME Serial PROVE Spec => []RevalidationRespected
  OBVIOUS
<1>1. RespectInv => RevalidationRespected
  BY DEF RespectInv, SyncInv, Known, RevalidationRespected
<1>2. RespectInv /\ [Next]_vars => RespectInv'
  BY RespectNext
<1> QED
  BY RespectInit, <1>1, <1>2, PTL DEF Spec
=============================================================================
