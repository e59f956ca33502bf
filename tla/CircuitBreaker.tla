--------------------------- MODULE CircuitBreaker ---------------------------
(***************************************************************************)
(* The circuit breaker of the portal's Next.js cache handler               *)
(* (apps/portal/src/lib/next-cache-handler.ts), one per pod, and the Redis *)
(* pub/sub channel over which the pods tell each other of its transitions. *)
(*                                                                         *)
(* A call is one get(), set() or updateTags(): it asks allowRequest(),     *)
(* waits for the cache store (retries included) and reports onSuccess() or *)
(* onFailure().  The store is Redis or, when getRedisClient() finds no     *)
(* connection, the pod's own SQLite fallback.                              *)
(***************************************************************************)
EXTENDS Naturals, Sequences, FiniteSets

CONSTANTS
    Pods,             \* the portal processes
    Calls,            \* the cache calls a pod can have in flight at once
    FailureThreshold, \* CIRCUIT_DEFAULTS.failureThreshold
    Cooldown,         \* CIRCUIT_DEFAULTS.cooldownMs, in ticks
    InitialLink,      \* "unset" on a fresh deployment, "joined" once all pods subscribed
    Faults,           \* what may happen to Redis: a subset of {"erroring", "down"}
    Lossy,            \* whether a fire-and-forget publish may be lost
    RendersFail,      \* whether the rendering of an entry handed to set() may fail
    MaxMessages       \* bound: no new call result is handled with more messages in transit

ASSUME BreakerAssumption ==
    /\ FailureThreshold \in Nat \ {0}
    /\ Cooldown \in Nat \ {0}
    /\ InitialLink \in {"unset", "joined"}
    /\ Faults \subseteq {"erroring", "down"}
    /\ {Lossy, RendersFail} \subseteq BOOLEAN
    /\ MaxMessages \in Nat

VARIABLES
    breaker,  \* breaker[p]: the CircuitBreaker singleton of pod p
    link,     \* link[p]: how far ensureBreakerPubSub() got on pod p
    outbox,   \* outbox[p]: states p published that Redis has not yet broadcast
    inbox,    \* inbox[p]: broadcast states the subscriber of p has not yet handled
    call,     \* call[p][c]: where the cache call c of pod p stands
    redis     \* "up", "erroring" (replies with errors) or "down" (connections lost)

vars == <<breaker, link, outbox, inbox, call, redis>>

CircuitState == {"CLOSED", "OPEN", "HALF_OPEN"}

(***************************************************************************)
(* failures saturates at the threshold, the only value it is compared      *)
(* with; cooling is what is left of cooldownMs since lastFailureTime.      *)
(***************************************************************************)
Breaker == [state : CircuitState, failures : 0..FailureThreshold, cooling : 0..Cooldown]

NewBreaker == [state |-> "CLOSED", failures |-> 0, cooling |-> 0]

(***************************************************************************)
(* "subscribing": breakerRedisPub is set, the subscription not confirmed.  *)
(* "deaf": the subscriber lost its connection; its retryStrategy returns   *)
(* null, and ensureBreakerPubSub() never runs twice.                       *)
(***************************************************************************)
LinkState == {"unset", "connecting", "subscribing", "joined", "deaf", "alone"}

CallState == {"idle", "redis", "fallback", "ok", "err"}

TypeOK ==
    /\ breaker \in [Pods -> Breaker]
    /\ link \in [Pods -> LinkState]
    /\ outbox \in [Pods -> Seq(CircuitState)]
    /\ inbox \in [Pods -> Seq(CircuitState)]
    /\ call \in [Pods -> [Calls -> CallState]]
    /\ redis \in {"up", "erroring", "down"}

Init ==
    /\ breaker = [p \in Pods |-> NewBreaker]
    /\ link = [p \in Pods |-> InitialLink]
    /\ outbox = [p \in Pods |-> <<>>]
    /\ inbox = [p \in Pods |-> <<>>]
    /\ call = [p \in Pods |-> [c \in Calls |-> "idle"]]
    /\ redis = "up"

-----------------------------------------------------------------------------
(* The methods of class CircuitBreaker, as functions of its fields.        *)

GetState(b) ==
    IF b.state = "OPEN" /\ b.cooling = 0 THEN [b EXCEPT !.state = "HALF_OPEN"] ELSE b

OnSuccess(b) ==
    [state    |-> IF b.state = "HALF_OPEN" THEN "CLOSED" ELSE b.state,
     failures |-> 0,
     cooling  |-> b.cooling]

(* Faulty variant: one failure too many before the breaker opens. *)
OnFailureAboveThreshold(b) ==
    [state    |-> IF b.failures >= FailureThreshold THEN "OPEN" ELSE b.state,
     failures |-> IF b.failures < FailureThreshold THEN b.failures + 1 ELSE FailureThreshold,
     cooling  |-> Cooldown]

OnFailure(b) ==
    LET n == IF b.failures < FailureThreshold THEN b.failures + 1 ELSE FailureThreshold
    IN  [state    |-> IF n >= FailureThreshold THEN "OPEN" ELSE b.state,
         failures |-> n,
         cooling  |-> Cooldown]

ResetOnlyOpen(b) == IF b.state = "OPEN" THEN NewBreaker ELSE b \* faulty variant

Reset(b) == IF b.state = "CLOSED" THEN b ELSE NewBreaker

(* Faulty variant: the forced opening counts as one more failure. *)
ForceOpenCounted(b) ==
    IF b.state = "OPEN" THEN b
    ELSE [state |-> "OPEN", failures |-> b.failures + 2, cooling |-> Cooldown]

ForceOpen(b) ==
    IF b.state = "OPEN" THEN b
    ELSE [state |-> "OPEN", failures |-> FailureThreshold, cooling |-> Cooldown]

ForceHalfOpen(b) == IF b.state = "OPEN" THEN [b EXCEPT !.state = "HALF_OPEN"] ELSE b

-----------------------------------------------------------------------------
Transit(p) == Len(outbox[p]) + Len(inbox[p])

(* The bound on new work, so that TLC's queues stay finite. *)
Uncongested == Cardinality(UNION {{p} \X (1..Transit(p)) : p \in Pods}) < MaxMessages

(***************************************************************************)
(* publishBreakerEvent(state): fire and forget.  Nothing leaves the pod    *)
(* before breakerRedisPub is set; a publish may fail, and always does once *)
(* the client it was taken from has given up reconnecting.                 *)
(***************************************************************************)
Publish(p, s) ==
    \/ /\ link[p] \in {"subscribing", "joined", "deaf"}
       /\ outbox' = [outbox EXCEPT ![p] = Append(@, s)]
    \/ /\ link[p] \notin {"subscribing", "joined"} \/ Lossy
       /\ UNCHANGED outbox

(* Faulty variant: publishes whether or not the state changed. *)
BecomeAlwaysPublishing(p, b) ==
    /\ breaker' = [breaker EXCEPT ![p] = b]
    /\ Publish(p, b.state)

(* getState, onSuccess, onFailure and reset publish the transition they make. *)
Become(p, b) ==
    /\ breaker' = [breaker EXCEPT ![p] = b]
    /\ IF b.state = breaker[p].state THEN UNCHANGED outbox ELSE Publish(p, b.state)

-----------------------------------------------------------------------------
(***************************************************************************)
(* allowRequest() for a new call: starts ensureBreakerPubSub() once, lets  *)
(* getState() move OPEN to HALF_OPEN, and admits unless OPEN.  An admitted *)
(* call goes to Redis, or to the fallback store when there is no ready     *)
(* connection.                                                             *)
(***************************************************************************)
AllowRequest(p, c) ==
    /\ Uncongested
    /\ call[p][c] = "idle"
    /\ link' = [link EXCEPT ![p] = IF @ = "unset" THEN "connecting" ELSE @]
    /\ Become(p, GetState(breaker[p]))
    /\ IF breaker'[p].state = "OPEN"
         THEN UNCHANGED call
         ELSE \E store \in {"redis"} \cup (IF redis = "down" THEN {"fallback"} ELSE {}) :
                 call' = [call EXCEPT ![p][c] = store]
    /\ UNCHANGED <<inbox, redis>>

(* getCircuitBreakerState(), polled by the health and metrics routes. *)
Observe(p) ==
    /\ Uncongested
    /\ Become(p, GetState(breaker[p]))
    /\ UNCHANGED <<link, inbox, call, redis>>

(* The store settles the call: Redis by its condition, the fallback always. *)
Settle(p, c) ==
    /\ \/ /\ call[p][c] = "redis"
          /\ call' = [call EXCEPT ![p][c] = IF redis = "up" THEN "ok" ELSE "err"]
       \/ /\ call[p][c] = "fallback"
          /\ call' = [call EXCEPT ![p][c] = "ok"]
    /\ UNCHANGED <<breaker, link, outbox, inbox, redis>>

(* The call resumes and reports its outcome to the breaker. *)
Succeed(p, c) ==
    /\ Uncongested
    /\ call[p][c] = "ok"
    /\ Become(p, OnSuccess(breaker[p]))
    /\ call' = [call EXCEPT ![p][c] = "idle"]
    /\ UNCHANGED <<link, inbox, redis>>

Fail(p, c) ==
    /\ Uncongested
    /\ call[p][c] = "err"
    /\ Become(p, OnFailure(breaker[p]))
    /\ call' = [call EXCEPT ![p][c] = "idle"]
    /\ UNCHANGED <<link, inbox, redis>>

(* set(): the entry it awaits is rejected, or its stream breaks off; the   *)
(* catch block reports a failure of a call that was never admitted.        *)
FailRender(p) ==
    /\ RendersFail /\ Uncongested
    /\ Become(p, OnFailure(breaker[p]))
    /\ UNCHANGED <<link, inbox, call, redis>>

-----------------------------------------------------------------------------
(***************************************************************************)
(* ensureBreakerPubSub() on Redis: keeps the publisher, then waits for the *)
(* subscription; without Redis the pod runs on its own, for good.          *)
(***************************************************************************)
Connect(p) ==
    /\ \/ /\ link[p] = "connecting"
          /\ link' = [link EXCEPT ![p] = IF redis = "down" THEN "alone" ELSE "subscribing"]
       \/ /\ link[p] = "subscribing" /\ redis # "down"
          /\ link' = [link EXCEPT ![p] = "joined"]
    /\ UNCHANGED <<breaker, outbox, inbox, call, redis>>

(***************************************************************************)
(* Redis hands the oldest state p published to every subscriber but p      *)
(* itself, which ignores its own events; with no connection it is lost.    *)
(***************************************************************************)
Broadcast(p) ==
    /\ outbox[p] # <<>>
    /\ outbox' = [outbox EXCEPT ![p] = Tail(@)]
    /\ inbox' = [q \in Pods |->
                    IF redis # "down" /\ q # p /\ link[q] = "joined"
                      THEN Append(inbox[q], Head(outbox[p]))
                      ELSE inbox[q]]
    /\ UNCHANGED <<breaker, link, call, redis>>

(* The 'message' handler; only the CLOSED and HALF_OPEN cases may publish. *)
Receive(p) ==
    /\ inbox[p] # <<>>
    /\ inbox' = [inbox EXCEPT ![p] = Tail(@)]
    /\ LET b == breaker[p]
       IN  CASE Head(inbox[p]) = "OPEN" ->
                  /\ breaker' = [breaker EXCEPT ![p] = ForceOpen(b)]
                  /\ UNCHANGED outbox
             [] Head(inbox[p]) = "CLOSED" -> Become(p, Reset(b))
             [] Head(inbox[p]) = "HALF_OPEN" ->
                  IF GetState(b).state = "OPEN"
                    THEN /\ breaker' = [breaker EXCEPT ![p] = ForceHalfOpen(b)]
                         /\ UNCHANGED outbox
                    ELSE Become(p, GetState(b))
    /\ UNCHANGED <<link, call, redis>>

-----------------------------------------------------------------------------
(* Time passes on every pod alike. *)
Tick ==
    /\ \E p \in Pods : breaker[p].cooling > 0
    /\ breaker' = [p \in Pods |->
                     [breaker[p] EXCEPT !.cooling = IF @ > 0 THEN @ - 1 ELSE 0]]
    /\ UNCHANGED <<link, outbox, inbox, call, redis>>

(* Losing the connections ends every subscription. *)
RedisChanges ==
    /\ redis' \in (Faults \cup {"up"}) \ {redis}
    /\ link' = [p \in Pods |->
                  IF redis' = "down" /\ link[p] \in {"subscribing", "joined"}
                    THEN "deaf" ELSE link[p]]
    /\ UNCHANGED <<breaker, outbox, inbox, call>>

-----------------------------------------------------------------------------
Next ==
    \/ \E p \in Pods : \/ \E c \in Calls : \/ AllowRequest(p, c)
                                          \/ Settle(p, c)
                                          \/ Succeed(p, c)
                                          \/ Fail(p, c)
                       \/ Observe(p)
                       \/ FailRender(p)
                       \/ Connect(p)
                       \/ Broadcast(p)
                       \/ Receive(p)
    \/ Tick
    \/ RedisChanges

Spec == Init /\ [][Next]_vars

(***************************************************************************)
(* Promises settle, replies and messages are processed, timers run, and    *)
(* every pod keeps being asked for pages.  Redis itself owes nothing.      *)
(***************************************************************************)
Fairness ==
    /\ \A p \in Pods :
          /\ WF_vars(Connect(p))
          /\ WF_vars(Broadcast(p))
          /\ WF_vars(Receive(p))
          /\ \A c \in Calls : /\ WF_vars(AllowRequest(p, c))
                              /\ WF_vars(Settle(p, c))
                              /\ WF_vars(Succeed(p, c))
                              /\ WF_vars(Fail(p, c))
    /\ WF_vars(Tick)

FairSpec == Spec /\ Fairness

-----------------------------------------------------------------------------
Closed(p) == breaker[p].state = "CLOSED"

Quiet == \A p \in Pods : Transit(p) = 0

(***************************************************************************)
(* A closed breaker has counted fewer failures than the threshold: however *)
(* it was closed (own probe, another pod's CLOSED event) and whatever late *)
(* results came in, FailureThreshold consecutive failures open it.         *)
(***************************************************************************)
ClosedBelowThreshold ==
    \A p \in Pods : Closed(p) => breaker[p].failures < FailureThreshold

(***************************************************************************)
(* "Publishes local state changes so all pods sync": when no event is in   *)
(* transit, either every breaker is closed or none is.                     *)
(***************************************************************************)
Agreement == Quiet => \A p, q \in Pods : Closed(p) => Closed(q)

(***************************************************************************)
(* Why the pods agree: an inductive strengthening of Agreement.            *)
(*   - Two pods that disagree have the event that will align them coming.  *)
(*   - An OPEN event that pod p has yet to handle is followed by a CLOSED  *)
(*     one, or every closed pod has an OPEN event coming as well.          *)
(*   - What a closed pod has yet to send of its openings ends with CLOSED. *)
(***************************************************************************)
In(s, queue) == \E i \in 1..Len(queue) : queue[i] = s

Followed(i, queue) == \E j \in (i + 1)..Len(queue) : queue[j] = "CLOSED"

InOutboxes(s, q) == \E r \in Pods \ {q} : In(s, outbox[r])

Coming(s, q) == In(s, inbox[q]) \/ InOutboxes(s, q)

DisagreementHeals ==
    \A p, q \in Pods : ~Closed(p) /\ Closed(q) => Coming("CLOSED", p) \/ Coming("OPEN", q)

OpenEventsHeal ==
    \A p \in Pods : \A q \in Pods \ {p} : \A i \in 1..Len(inbox[p]) :
        Closed(q) /\ inbox[p][i] = "OPEN" =>
            Followed(i, inbox[p]) \/ InOutboxes("CLOSED", p) \/ Coming("OPEN", q)

OwnOpenFollowed ==
    \A q \in Pods : \A i \in 1..Len(outbox[q]) :
        Closed(q) /\ outbox[q][i] = "OPEN" => Followed(i, outbox[q])

ChannelUp == redis # "down" /\ \A p \in Pods : link[p] = "joined"

AgreementInv == ChannelUp /\ DisagreementHeals /\ OpenEventsHeal /\ OwnOpenFollowed

(* What Agreement needs: all pods subscribed, and no event ever lost. *)
ReliableChannel == InitialLink = "joined" /\ "down" \notin Faults /\ ~Lossy

(***************************************************************************)
(* Once Redis works for good every breaker closes for good, whatever stale *)
(* OPEN and HALF_OPEN events, late errors and probes are still under way,  *)
(* and the events this sets off die out: no echo of CLOSED or HALF_OPEN    *)
(* bounces between the pods for ever.                                      *)
(***************************************************************************)
RecoveryCloses == <>[](redis = "up") => <>[](Quiet /\ \A p \in Pods : Closed(p))

(***************************************************************************)
(* "cross-pod pub/sub coordination": a pod that had subscribed listens     *)
(* again once the connection to Redis is back for good.                    *)
(***************************************************************************)
CoordinationResumes ==
    \A p \in Pods : <>[](redis # "down") => <>[](link[p] = "joined")
=============================================================================
