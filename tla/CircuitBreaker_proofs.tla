----------------------- MODULE CircuitBreaker_proofs -----------------------
(***************************************************************************)
(* Proofs about the circuit breaker, for any number of pods and calls and  *)
(* any threshold and cooldown: type correctness, ClosedBelowThreshold, and *)
(* the agreement of all breakers over a reliable channel.                  *)
(***************************************************************************)
EXTENDS CircuitBreaker, TLAPS

USE BreakerAssumption DEF BreakerAssumption

(* The methods of the breaker return breakers. *)
LEMMA BreakerMethods ==
    ASSUME NEW b \in Breaker
    PROVE  /\ GetState(b) \in Breaker
           /\ OnSuccess(b) \in Breaker
           /\ OnFailure(b) \in Breaker
           /\ Reset(b) \in Breaker
           /\ ForceOpen(b) \in Breaker
           /\ ForceHalfOpen(b) \in Breaker
  <1> USE DEF Breaker, CircuitState
  <1>1. GetState(b) \in Breaker
    BY DEF GetState
  <1>2. OnSuccess(b) \in Breaker
    BY DEF OnSuccess
  <1>3. OnFailure(b) \in Breaker
    BY DEF OnFailure
  <1>4. Reset(b) \in Breaker
    BY DEF Reset, NewBreaker
  <1>5. ForceOpen(b) \in Breaker
    BY DEF ForceOpen
  <1>6. ForceHalfOpen(b) \in Breaker
    BY DEF ForceHalfOpen
  <1>7. QED
    BY <1>1, <1>2, <1>3, <1>4, <1>5, <1>6

(* A call that moves on leaves call within its type. *)
LEMMA CallMoves ==
    ASSUME TypeOK, NEW p \in Pods, NEW c \in Calls, NEW v \in CallState,
           call' = [call EXCEPT ![p][c] = v]
    PROVE  call' \in [Pods -> [Calls -> CallState]]
  BY Zenon DEF TypeOK

(* A transition that is published keeps the types of breakers and outboxes. *)
LEMMA BecomeType ==
    ASSUME TypeOK, NEW p \in Pods, NEW b \in Breaker, Become(p, b)
    PROVE  /\ breaker' \in [Pods -> Breaker]
           /\ outbox' \in [Pods -> Seq(CircuitState)]
  <1>1. breaker' \in [Pods -> Breaker]
    BY DEF TypeOK, Become
  <1>2. b.state \in CircuitState
    BY DEF Breaker
  <1>3. outbox' \in [Pods -> Seq(CircuitState)]
    <2>1. Append(outbox[p], b.state) \in Seq(CircuitState)
      BY <1>2 DEF TypeOK
    <2>2. UNCHANGED outbox \/ outbox' = [outbox EXCEPT ![p] = Append(@, b.state)]
      BY DEF Become, Publish
    <2>3. QED
      BY <2>1, <2>2 DEF TypeOK
  <1>4. QED
    BY <1>1, <1>3

(* Every variable stays within its type (TypeOK). *)
THEOREM TypeCorrect == Spec => []TypeOK
  <1>1. Init => TypeOK
    BY DEF Init, TypeOK, NewBreaker, Breaker, CircuitState, LinkState, CallState
  <1>2. TypeOK /\ [Next]_vars => TypeOK'
    <2> SUFFICES ASSUME TypeOK, [Next]_vars PROVE TypeOK'
      OBVIOUS
    <2>1. ASSUME NEW p \in Pods, NEW c \in Calls, AllowRequest(p, c) PROVE TypeOK'
      <3>1. GetState(breaker[p]) \in Breaker
        BY BreakerMethods DEF TypeOK
      <3>2. breaker' \in [Pods -> Breaker] /\ outbox' \in [Pods -> Seq(CircuitState)]
        BY <2>1, <3>1, BecomeType DEF AllowRequest
      <3>3. link' \in [Pods -> LinkState]
        BY <2>1 DEF AllowRequest, TypeOK, LinkState
      <3>4. call' \in [Pods -> [Calls -> CallState]]
        <4>1. "redis" \in CallState /\ "fallback" \in CallState
          BY DEF CallState
        <4>2. \/ UNCHANGED call
              \/ call' = [call EXCEPT ![p][c] = "redis"]
              \/ call' = [call EXCEPT ![p][c] = "fallback"]
          BY <2>1 DEF AllowRequest
        <4>3. QED
          BY <4>1, <4>2, CallMoves DEF TypeOK
      <3>5. QED
        BY <2>1, <3>2, <3>3, <3>4 DEF AllowRequest, TypeOK
    <2>2. ASSUME NEW p \in Pods, Observe(p) \/ FailRender(p) PROVE TypeOK'
      <3>1. GetState(breaker[p]) \in Breaker /\ OnFailure(breaker[p]) \in Breaker
        BY BreakerMethods DEF TypeOK
      <3>2. breaker' \in [Pods -> Breaker] /\ outbox' \in [Pods -> Seq(CircuitState)]
        BY <2>2, <3>1, BecomeType DEF Observe, FailRender
      <3>3. QED
        BY <2>2, <3>2 DEF Observe, FailRender, TypeOK
    <2>3. ASSUME NEW p \in Pods, NEW c \in Calls, Settle(p, c) PROVE TypeOK'
      <3>1. \E v \in CallState : call' = [call EXCEPT ![p][c] = v]
        BY <2>3 DEF Settle, CallState
      <3>2. call' \in [Pods -> [Calls -> CallState]]
        BY <3>1, CallMoves
      <3>3. QED
        BY <2>3, <3>2 DEF Settle, TypeOK
    <2>4. ASSUME NEW p \in Pods, NEW c \in Calls, Succeed(p, c) \/ Fail(p, c) PROVE TypeOK'
      <3>1. OnSuccess(breaker[p]) \in Breaker /\ OnFailure(breaker[p]) \in Breaker
        BY BreakerMethods DEF TypeOK
      <3>2. breaker' \in [Pods -> Breaker] /\ outbox' \in [Pods -> Seq(CircuitState)]
        BY <2>4, <3>1, BecomeType DEF Succeed, Fail
      <3>3. call' \in [Pods -> [Calls -> CallState]]
        <4>1. call' = [call EXCEPT ![p][c] = "idle"] /\ "idle" \in CallState
          BY <2>4 DEF Succeed, Fail, CallState
        <4>2. QED
          BY <4>1, CallMoves
      <3>4. QED
        BY <2>4, <3>2, <3>3 DEF Succeed, Fail, TypeOK
    <2>5. ASSUME NEW p \in Pods, Connect(p) PROVE TypeOK'
      BY <2>5 DEF Connect, TypeOK, LinkState
    <2>6. ASSUME NEW p \in Pods, Broadcast(p) PROVE TypeOK'
      <3>1. Head(outbox[p]) \in CircuitState /\ Tail(outbox[p]) \in Seq(CircuitState)
        BY <2>6 DEF Broadcast, TypeOK
      <3>2. outbox' \in [Pods -> Seq(CircuitState)]
        BY <2>6, <3>1 DEF Broadcast, TypeOK
      <3>3. inbox' \in [Pods -> Seq(CircuitState)]
        BY <2>6, <3>1 DEF Broadcast, TypeOK
      <3>4. QED
        BY <2>6, <3>2, <3>3 DEF Broadcast, TypeOK
    <2>7. ASSUME NEW p \in Pods, Receive(p) PROVE TypeOK'
      <3>1. Head(inbox[p]) \in CircuitState /\ Tail(inbox[p]) \in Seq(CircuitState)
        BY <2>7 DEF Receive, TypeOK
      <3>2. inbox' \in [Pods -> Seq(CircuitState)]
        BY <2>7, <3>1 DEF Receive, TypeOK
      <3>3. breaker[p] \in Breaker
        BY DEF TypeOK
      <3>4. breaker' \in [Pods -> Breaker] /\ outbox' \in [Pods -> Seq(CircuitState)]
        <4>1. CASE Head(inbox[p]) = "OPEN"
          BY <2>7, <3>3, <4>1, BreakerMethods DEF Receive, TypeOK
        <4>2. CASE Head(inbox[p]) = "CLOSED"
          <5>1. Become(p, Reset(breaker[p]))
            BY <2>7, <4>2 DEF Receive
          <5>2. QED
            BY <3>3, <5>1, BreakerMethods, BecomeType
        <4>3. CASE Head(inbox[p]) = "HALF_OPEN" /\ GetState(breaker[p]).state = "OPEN"
          BY <2>7, <3>3, <4>3, BreakerMethods DEF Receive, TypeOK
        <4>4. CASE Head(inbox[p]) = "HALF_OPEN" /\ GetState(breaker[p]).state # "OPEN"
          <5>1. Become(p, GetState(breaker[p]))
            BY <2>7, <4>4 DEF Receive
          <5>2. QED
            BY <3>3, <5>1, BreakerMethods, BecomeType
        <4>5. QED
          BY <3>1, <4>1, <4>2, <4>3, <4>4 DEF CircuitState
      <3>5. QED
        BY <2>7, <3>2, <3>4 DEF Receive, TypeOK
    <2>8. CASE Tick
      <3>1. breaker' \in [Pods -> Breaker]
        <4>1. ASSUME NEW b \in Breaker
              PROVE  [b EXCEPT !.cooling = IF @ > 0 THEN @ - 1 ELSE 0] \in Breaker
          BY DEF Breaker
        <4>2. QED
          BY <2>8, <4>1 DEF Tick, TypeOK
      <3>2. QED
        BY <2>8, <3>1 DEF Tick, TypeOK
    <2>9. CASE RedisChanges
      BY <2>9 DEF RedisChanges, TypeOK, LinkState
    <2>10. CASE UNCHANGED vars
      BY <2>10 DEF vars, TypeOK
    <2>11. QED
      BY <2>1, <2>2, <2>3, <2>4, <2>5, <2>6, <2>7, <2>8, <2>9, <2>10 DEF Next
  <1>3. QED
    BY <1>1, <1>2, PTL DEF Spec

-----------------------------------------------------------------------------
(***************************************************************************)
(* A closed breaker has counted fewer failures than the threshold          *)
(* (ClosedBelowThreshold).  It is inductive on its own: every method that  *)
(* leaves a breaker closed either resets the count or keeps it below the   *)
(* threshold.                                                              *)
(***************************************************************************)
Below(b) == b.state = "CLOSED" => b.failures < FailureThreshold

LEMMA MethodsKeepBelow ==
    ASSUME NEW b \in Breaker, Below(b)
    PROVE  /\ Below(GetState(b))
           /\ Below(OnSuccess(b))
           /\ Below(OnFailure(b))
           /\ Below(Reset(b))
           /\ Below(ForceOpen(b))
           /\ Below(ForceHalfOpen(b))
  <1> USE DEF Breaker, Below
  <1>1. Below(GetState(b)) /\ Below(ForceHalfOpen(b))
    BY DEF GetState, ForceHalfOpen
  <1>2. Below(OnSuccess(b))
    BY DEF OnSuccess
  <1>3. Below(OnFailure(b))
    BY DEF OnFailure
  <1>4. Below(Reset(b)) /\ Below(ForceOpen(b))
    BY DEF Reset, NewBreaker, ForceOpen
  <1>5. QED
    BY <1>1, <1>2, <1>3, <1>4

(* A breaker only changes by one of its methods, or by the passing of time. *)
BreakerChanges(b, new) ==
    new \in {b, GetState(b), OnSuccess(b), OnFailure(b), Reset(b), ForceOpen(b),
             ForceHalfOpen(b), [b EXCEPT !.cooling = IF @ > 0 THEN @ - 1 ELSE 0]}

LEMMA BreakerStep ==
    ASSUME TypeOK, [Next]_vars, NEW p \in Pods
    PROVE  BreakerChanges(breaker[p], breaker'[p])
  <1> USE DEF BreakerChanges
  <1>1. ASSUME NEW q \in Pods, NEW c \in Calls, AllowRequest(q, c)
        PROVE  BreakerChanges(breaker[p], breaker'[p])
    BY <1>1 DEF AllowRequest, Become, TypeOK
  <1>2. ASSUME NEW q \in Pods, Observe(q) \/ FailRender(q)
        PROVE  BreakerChanges(breaker[p], breaker'[p])
    BY <1>2 DEF Observe, FailRender, Become, TypeOK
  <1>3. ASSUME NEW q \in Pods, NEW c \in Calls, Succeed(q, c) \/ Fail(q, c)
        PROVE  BreakerChanges(breaker[p], breaker'[p])
    BY <1>3 DEF Succeed, Fail, Become, TypeOK
  <1>4. ASSUME NEW q \in Pods, Receive(q) PROVE BreakerChanges(breaker[p], breaker'[p])
    <2>1. Head(inbox[q]) \in CircuitState
      BY <1>4 DEF Receive, TypeOK
    <2>2. \E b \in {ForceOpen(breaker[q]), Reset(breaker[q]), ForceHalfOpen(breaker[q]),
                    GetState(breaker[q])} : breaker' = [breaker EXCEPT ![q] = b]
      BY <1>4, <2>1 DEF Receive, Become, CircuitState
    <2>3. QED
      BY <2>2 DEF TypeOK
  <1>5. CASE Tick
    BY <1>5 DEF Tick, TypeOK
  <1>6. CASE UNCHANGED breaker
    BY <1>6 DEF TypeOK
  <1>7. QED
    BY <1>1, <1>2, <1>3, <1>4, <1>5, <1>6
       DEF Next, vars, Settle, Connect, Broadcast, RedisChanges

THEOREM BelowThreshold == Spec => []ClosedBelowThreshold
  <1>1. Init => ClosedBelowThreshold
    BY DEF Init, ClosedBelowThreshold, Closed, NewBreaker
  <1>2. TypeOK /\ ClosedBelowThreshold /\ [Next]_vars => ClosedBelowThreshold'
    <2> SUFFICES ASSUME TypeOK, ClosedBelowThreshold, [Next]_vars, NEW p \in Pods
                 PROVE  Below(breaker'[p])
      BY DEF ClosedBelowThreshold, Closed, Below
    <2>1. breaker[p] \in Breaker /\ Below(breaker[p])
      BY DEF TypeOK, ClosedBelowThreshold, Closed, Below
    <2>2. Below([breaker[p] EXCEPT !.cooling = IF @ > 0 THEN @ - 1 ELSE 0])
      BY <2>1 DEF Below, Breaker
    <2>3. QED
      BY <2>1, <2>2, BreakerStep, MethodsKeepBelow DEF BreakerChanges
  <1>3. QED
    BY <1>1, <1>2, TypeCorrect, PTL DEF Spec

-----------------------------------------------------------------------------
(***************************************************************************)
(* Agreement over a reliable channel.  First, what the queues do to the    *)
(* predicates the invariant is made of.                                    *)
(***************************************************************************)
LEMMA AppendQueue ==
    ASSUME NEW u \in Seq(CircuitState), NEW x \in CircuitState
    PROVE  /\ In(x, Append(u, x))
           /\ \A s : In(s, u) => In(s, Append(u, x))
           /\ \A i \in 1..Len(u) : Followed(i, u) => Followed(i, Append(u, x))
           /\ x = "CLOSED" => \A i \in 1..Len(u) : Followed(i, Append(u, x))
           /\ \A i \in 1..Len(Append(u, x)) :
                 (i \in 1..Len(u) /\ Append(u, x)[i] = u[i]) \/ Append(u, x)[i] = x
  <1> DEFINE v == Append(u, x)
  <1>1. /\ Len(v) = Len(u) + 1 /\ Len(u) \in Nat
        /\ v[Len(u) + 1] = x
        /\ \A i \in 1..Len(u) : v[i] = u[i]
    OBVIOUS
  <1> HIDE DEF v
  <1>2. In(x, v)
    BY <1>1 DEF In
  <1>3. \A s : In(s, u) => In(s, v)
    BY <1>1 DEF In
  <1>4. \A i \in 1..Len(u) : Followed(i, u) => Followed(i, v)
    BY <1>1 DEF Followed
  <1>5. x = "CLOSED" => \A i \in 1..Len(u) : Followed(i, v)
    BY <1>1 DEF Followed
  <1>6. \A i \in 1..Len(v) : (i \in 1..Len(u) /\ v[i] = u[i]) \/ v[i] = x
    BY <1>1
  <1>7. QED
    BY <1>2, <1>3, <1>4, <1>5, <1>6 DEF v

LEMMA TailQueue ==
    ASSUME NEW u \in Seq(CircuitState), u # <<>>
    PROVE  /\ \A s : In(s, u) => s = Head(u) \/ In(s, Tail(u))
           /\ \A i \in 1..Len(Tail(u)) : /\ i + 1 \in 1..Len(u)
                                         /\ Tail(u)[i] = u[i + 1]
                                         /\ Followed(i + 1, u) => Followed(i, Tail(u))
           /\ Followed(1, u) => In("CLOSED", Tail(u))
  <1> DEFINE v == Tail(u)
  <1>1. /\ Len(v) = Len(u) - 1 /\ Len(u) \in Nat /\ Len(u) >= 1
        /\ Head(u) = u[1]
        /\ \A i \in 1..Len(v) : v[i] = u[i + 1]
    OBVIOUS
  <1> HIDE DEF v
  <1>2. \A s : In(s, u) => s = Head(u) \/ In(s, v)
    <2> SUFFICES ASSUME NEW s, NEW i \in 1..Len(u), u[i] = s, i # 1 PROVE In(s, v)
      BY <1>1 DEF In
    <2>1. i - 1 \in 1..Len(v) /\ v[i - 1] = s
      BY <1>1
    <2>2. QED
      BY <2>1 DEF In
  <1>3. \A i \in 1..Len(v) : i + 1 \in 1..Len(u) /\ v[i] = u[i + 1]
    BY <1>1
  <1>4. ASSUME NEW i \in 1..Len(v), Followed(i + 1, u) PROVE Followed(i, v)
    <2>1. PICK j \in (i + 2)..Len(u) : u[j] = "CLOSED"
      BY <1>1, <1>4 DEF Followed
    <2>2. j - 1 \in (i + 1)..Len(v) /\ v[j - 1] = "CLOSED"
      BY <1>1, <2>1
    <2>3. QED
      BY <2>2 DEF Followed
  <1>5. ASSUME Followed(1, u) PROVE In("CLOSED", v)
    <2>1. PICK j \in 2..Len(u) : u[j] = "CLOSED"
      BY <1>5 DEF Followed
    <2>2. j - 1 \in 1..Len(v) /\ v[j - 1] = "CLOSED"
      BY <1>1, <2>1
    <2>3. QED
      BY <2>2 DEF In
  <1>6. QED
    BY <1>2, <1>3, <1>4, <1>5 DEF v

(* A transition between OPEN and HALF_OPEN that is not published. *)
ChangesSilently(p, b) ==
    /\ breaker' = [breaker EXCEPT ![p] = b]
    /\ breaker[p].state # "CLOSED" /\ b.state # "CLOSED"
    /\ UNCHANGED outbox

(* What a pod that makes a transition of its own, or handles an event      *)
(* other than OPEN, does to the invariant.                                 *)
LEMMA BecomeKeeps ==
    ASSUME TypeOK, AgreementInv, ~Lossy,
           NEW p \in Pods, NEW b \in Breaker,
           Become(p, b) \/ ChangesSilently(p, b),
           Closed(p) /\ b.state # "CLOSED" => b.state = "OPEN",
           \/ inbox' = inbox
           \/ /\ inbox[p] # <<>>
              /\ inbox' = [inbox EXCEPT ![p] = Tail(@)]
              /\ Head(inbox[p]) # "OPEN"
              /\ Head(inbox[p]) = "CLOSED" => b.state = "CLOSED"
    PROVE  DisagreementHeals' /\ OpenEventsHeal' /\ OwnOpenFollowed'
  <1> USE DEF Closed
  <1>1. b.state \in CircuitState
    BY DEF Breaker
  <1>2. /\ breaker'[p].state = b.state
        /\ \A q \in Pods \ {p} : breaker'[q] = breaker[q]
    BY DEF TypeOK, Become, ChangesSilently
  <1>3. \/ (Closed(p) <=> b.state = "CLOSED") /\ outbox' = outbox
        \/ b.state # breaker[p].state /\ outbox' = [outbox EXCEPT ![p] = Append(@, b.state)]
    BY DEF Become, ChangesSilently, Publish, AgreementInv, ChannelUp
  <1>4. ASSUME NEW q \in Pods, NEW s, In(s, outbox[q]) PROVE In(s, outbox'[q])
    <2>1. outbox[q] \in Seq(CircuitState)
      BY DEF TypeOK
    <2>2. outbox'[q] = outbox[q] \/ outbox'[q] = Append(outbox[q], b.state)
      BY <1>3 DEF TypeOK
    <2>3. In(s, Append(outbox[q], b.state))
      BY <1>1, <1>4, <2>1, AppendQueue
    <2>4. QED
      BY <1>4, <2>2, <2>3
  <1>5. (Closed(p) <=> b.state = "CLOSED") \/ In(b.state, outbox'[p])
    <2>1. outbox[p] \in Seq(CircuitState)
      BY DEF TypeOK
    <2>2. (Closed(p) <=> b.state = "CLOSED") \/ outbox'[p] = Append(outbox[p], b.state)
      BY <1>3 DEF TypeOK
    <2>3. In(b.state, Append(outbox[p], b.state))
      BY <1>1, <2>1, AppendQueue
    <2>4. QED
      BY <2>2, <2>3
  <1>6. ASSUME NEW q \in Pods, In("OPEN", inbox[q]) PROVE In("OPEN", inbox'[q])
    <2>1. inbox[q] \in Seq(CircuitState)
      BY DEF TypeOK
    <2>2. inbox'[q] = inbox[q]
            \/ (inbox[q] # <<>> /\ inbox'[q] = Tail(inbox[q]) /\ Head(inbox[q]) # "OPEN")
      BY DEF TypeOK
    <2>3. QED
      BY <1>6, <2>1, <2>2, TailQueue
  <1>7. ASSUME NEW q \in Pods, In("CLOSED", inbox[q]), breaker'[q].state # "CLOSED"
        PROVE  In("CLOSED", inbox'[q])
    <2>1. inbox[q] \in Seq(CircuitState)
      BY DEF TypeOK
    <2>2. inbox'[q] = inbox[q]
            \/ (inbox[q] # <<>> /\ inbox'[q] = Tail(inbox[q]) /\ Head(inbox[q]) # "CLOSED")
      BY <1>2, <1>7 DEF TypeOK
    <2>3. QED
      BY <1>7, <2>1, <2>2, TailQueue
  <1>8. ASSUME NEW q \in Pods, NEW i \in 1..Len(inbox'[q]), inbox'[q][i] = "OPEN"
        PROVE  \E k \in 1..Len(inbox[q]) :
                  inbox[q][k] = "OPEN" /\ (Followed(k, inbox[q]) => Followed(i, inbox'[q]))
    <2>1. inbox[q] \in Seq(CircuitState)
      BY DEF TypeOK
    <2>2. CASE inbox'[q] = inbox[q]
      BY <1>8, <2>2
    <2>3. CASE inbox[q] # <<>> /\ inbox'[q] = Tail(inbox[q])
      <3>1. /\ i + 1 \in 1..Len(inbox[q])
            /\ inbox'[q][i] = inbox[q][i + 1]
            /\ Followed(i + 1, inbox[q]) => Followed(i, inbox'[q])
        BY <2>1, <2>3, TailQueue
      <3>2. QED
        BY <1>8, <3>1
    <2>4. QED
      BY <2>2, <2>3 DEF TypeOK
  <1>9. ASSUME NEW q \in Pods, NEW s, InOutboxes(s, q) PROVE InOutboxes(s, q)'
    BY <1>4, <1>9 DEF InOutboxes
  <1>10. ASSUME NEW q \in Pods, Coming("OPEN", q) PROVE Coming("OPEN", q)'
    BY <1>6, <1>9, <1>10 DEF Coming
  <1>11. ASSUME NEW q \in Pods, ~Closed(q), Closed(q)'
         PROVE  q = p /\ \A x \in Pods \ {q} : InOutboxes("CLOSED", x)'
    BY <1>2, <1>5, <1>11 DEF InOutboxes
  <1>12. DisagreementHeals'
    <2> SUFFICES ASSUME NEW x \in Pods, NEW y \in Pods, ~Closed(x)', Closed(y)'
                 PROVE  Coming("CLOSED", x)' \/ Coming("OPEN", y)'
      BY DEF DisagreementHeals
    <2>1. CASE ~Closed(y)
      BY <1>11, <2>1 DEF Coming
    <2>2. CASE Closed(x)
      BY <1>2, <1>5, <2>2 DEF Coming, InOutboxes
    <2>3. CASE ~Closed(x) /\ Closed(y)
      <3>1. Coming("CLOSED", x) \/ Coming("OPEN", y)
        BY <2>3 DEF AgreementInv, DisagreementHeals
      <3>2. QED
        BY <1>7, <1>9, <1>10, <3>1 DEF Coming
    <2>4. QED
      BY <2>1, <2>2, <2>3
  <1>13. OpenEventsHeal'
    <2> SUFFICES ASSUME NEW x \in Pods, NEW y \in Pods \ {x}, NEW i \in 1..Len(inbox'[x]),
                        Closed(y)', inbox'[x][i] = "OPEN"
                 PROVE  Followed(i, inbox'[x]) \/ InOutboxes("CLOSED", x)' \/ Coming("OPEN", y)'
      BY DEF OpenEventsHeal
    <2>1. CASE ~Closed(y)
      BY <1>11, <2>1
    <2>2. CASE Closed(y)
      <3>1. PICK k \in 1..Len(inbox[x]) :
               inbox[x][k] = "OPEN" /\ (Followed(k, inbox[x]) => Followed(i, inbox'[x]))
        BY <1>8
      <3>2. Followed(k, inbox[x]) \/ InOutboxes("CLOSED", x) \/ Coming("OPEN", y)
        BY <2>2, <3>1 DEF AgreementInv, OpenEventsHeal
      <3>3. QED
        BY <1>9, <1>10, <3>1, <3>2
    <2>3. QED
      BY <2>1, <2>2
  <1>14. OwnOpenFollowed'
    <2> SUFFICES ASSUME NEW y \in Pods, NEW i \in 1..Len(outbox'[y]),
                        Closed(y)', outbox'[y][i] = "OPEN"
                 PROVE  Followed(i, outbox'[y])
      BY DEF OwnOpenFollowed
    <2>1. CASE outbox'[y] = outbox[y] /\ Closed(y)
      BY <2>1 DEF AgreementInv, OwnOpenFollowed
    <2>2. CASE y = p /\ outbox' = [outbox EXCEPT ![p] = Append(@, "CLOSED")]
      <3>1. outbox'[y] = Append(outbox[y], "CLOSED") /\ outbox[y] \in Seq(CircuitState)
        BY <2>2 DEF TypeOK
      <3>2. QED
        BY <3>1, AppendQueue DEF CircuitState
    <2>3. QED
      BY <1>2, <1>3, <2>1, <2>2 DEF TypeOK
  <1>15. QED
    BY <1>12, <1>13, <1>14

(* What handling an OPEN event does to the invariant. *)
LEMMA ForcedOpenKeeps ==
    ASSUME TypeOK, AgreementInv,
           NEW p \in Pods, inbox[p] # <<>>, Head(inbox[p]) = "OPEN",
           inbox' = [inbox EXCEPT ![p] = Tail(@)],
           breaker' = [breaker EXCEPT ![p] = ForceOpen(breaker[p])],
           UNCHANGED outbox
    PROVE  DisagreementHeals' /\ OpenEventsHeal' /\ OwnOpenFollowed'
  <1> USE DEF Closed
  <1>1. inbox[p] \in Seq(CircuitState) /\ breaker[p] \in Breaker
    BY DEF TypeOK
  <1>2. /\ breaker'[p].state = "OPEN"
        /\ \A q \in Pods \ {p} : breaker'[q] = breaker[q] /\ inbox'[q] = inbox[q]
        /\ inbox'[p] = Tail(inbox[p])
    BY DEF TypeOK, ForceOpen
  <1>3. \A q \in Pods : \A s : InOutboxes(s, q) => InOutboxes(s, q)'
    BY DEF InOutboxes
  <1>4. \A q \in Pods \ {p} : Coming("OPEN", q) => Coming("OPEN", q)'
    BY <1>2, <1>3 DEF Coming
  <1>5. DisagreementHeals'
    <2> SUFFICES ASSUME NEW x \in Pods, NEW y \in Pods, ~Closed(x)', Closed(y)'
                 PROVE  Coming("CLOSED", x)' \/ Coming("OPEN", y)'
      BY DEF DisagreementHeals
    <2>1. y # p /\ Closed(y)
      BY <1>2
    <2>2. CASE ~Closed(x)
      <3>1. Coming("CLOSED", x) \/ Coming("OPEN", y)
        BY <2>1, <2>2 DEF AgreementInv, DisagreementHeals
      <3>2. In("CLOSED", inbox[x]) => In("CLOSED", inbox'[x])
        BY <1>1, <1>2, TailQueue
      <3>3. QED
        BY <1>3, <1>4, <2>1, <3>1, <3>2 DEF Coming
    <2>3. CASE x = p
      <3>1. 1 \in 1..Len(inbox[p]) /\ inbox[p][1] = "OPEN"
        BY <1>1
      <3>2. Followed(1, inbox[p]) \/ InOutboxes("CLOSED", p) \/ Coming("OPEN", y)
        BY <2>1, <3>1 DEF AgreementInv, OpenEventsHeal
      <3>3. Followed(1, inbox[p]) => In("CLOSED", inbox'[p])
        BY <1>1, <1>2, TailQueue
      <3>4. QED
        BY <1>3, <1>4, <2>1, <2>3, <3>2, <3>3 DEF Coming
    <2>4. QED
      BY <1>2, <2>2, <2>3
  <1>6. OpenEventsHeal'
    <2> SUFFICES ASSUME NEW x \in Pods, NEW y \in Pods \ {x}, NEW i \in 1..Len(inbox'[x]),
                        Closed(y)', inbox'[x][i] = "OPEN"
                 PROVE  Followed(i, inbox'[x]) \/ InOutboxes("CLOSED", x)' \/ Coming("OPEN", y)'
      BY DEF OpenEventsHeal
    <2>1. y # p /\ Closed(y)
      BY <1>2
    <2>2. \E k \in 1..Len(inbox[x]) :
             inbox[x][k] = "OPEN" /\ (Followed(k, inbox[x]) => Followed(i, inbox'[x]))
      <3>1. CASE x = p
        <4>1. inbox[x] \in Seq(CircuitState) /\ inbox[x] # <<>> /\ inbox'[x] = Tail(inbox[x])
          BY <1>1, <1>2, <3>1
        <4>2. /\ i + 1 \in 1..Len(inbox[x])
              /\ inbox'[x][i] = inbox[x][i + 1]
              /\ Followed(i + 1, inbox[x]) => Followed(i, inbox'[x])
          BY <4>1, TailQueue
        <4>3. QED
          BY <4>2
      <3>2. CASE x # p
        BY <1>2, <3>2
      <3>3. QED
        BY <3>1, <3>2
    <2>3. QED
      BY <1>3, <1>4, <2>1, <2>2 DEF AgreementInv, OpenEventsHeal
  <1>7. OwnOpenFollowed'
    BY <1>2 DEF AgreementInv, OwnOpenFollowed
  <1>8. QED
    BY <1>5, <1>6, <1>7

(* What a broadcast does to the invariant: what was coming still is. *)
LEMMA BroadcastKeeps ==
    ASSUME TypeOK, AgreementInv, NEW r \in Pods, Broadcast(r)
    PROVE  DisagreementHeals' /\ OpenEventsHeal' /\ OwnOpenFollowed'
  <1> USE DEF Closed
  <1> DEFINE h == Head(outbox[r])
  <1>1. /\ outbox[r] \in Seq(CircuitState) /\ outbox[r] # <<>> /\ h \in CircuitState
        /\ outbox'[r] = Tail(outbox[r])
        /\ \A q \in Pods \ {r} : outbox'[q] = outbox[q]
    BY DEF Broadcast, TypeOK
  <1>2. /\ inbox'[r] = inbox[r]
        /\ \A q \in Pods \ {r} : inbox'[q] = Append(inbox[q], h)
        /\ \A q \in Pods : inbox[q] \in Seq(CircuitState)
    BY DEF Broadcast, TypeOK, AgreementInv, ChannelUp
  <1>3. breaker' = breaker
    BY DEF Broadcast
  <1> HIDE DEF h
  <1>4. ASSUME NEW q \in Pods, NEW s, In(s, inbox[q]) PROVE In(s, inbox'[q])
    <2>1. In(s, Append(inbox[q], h))
      BY <1>1, <1>2, <1>4, AppendQueue
    <2>2. QED
      BY <1>2, <1>4, <2>1
  <1>5. ASSUME NEW q \in Pods \ {r} PROVE In(h, inbox'[q])
    <2>1. In(h, Append(inbox[q], h))
      BY <1>1, <1>2, AppendQueue
    <2>2. QED
      BY <1>2, <2>1
  <1>6. ASSUME NEW s, In(s, outbox[r]), s # h PROVE In(s, outbox'[r])
    BY <1>1, <1>6, TailQueue DEF h
  <1>7. ASSUME NEW q \in Pods, NEW s, InOutboxes(s, q)
        PROVE  InOutboxes(s, q)' \/ (q # r /\ s = h)
    <2>1. PICK x \in Pods \ {q} : In(s, outbox[x])
      BY <1>7 DEF InOutboxes
    <2>2. CASE x # r
      BY <1>1, <2>1, <2>2 DEF InOutboxes
    <2>3. CASE x = r /\ s # h
      BY <1>6, <2>1, <2>3 DEF InOutboxes
    <2>4. QED
      BY <2>1, <2>2, <2>3
  <1>8. ASSUME NEW q \in Pods, NEW s, Coming(s, q) PROVE Coming(s, q)'
    BY <1>4, <1>5, <1>7, <1>8 DEF Coming
  <1>9. DisagreementHeals'
    BY <1>3, <1>8 DEF AgreementInv, DisagreementHeals
  <1>10. OpenEventsHeal'
    <2> SUFFICES ASSUME NEW x \in Pods, NEW y \in Pods \ {x}, NEW i \in 1..Len(inbox'[x]),
                        Closed(y), inbox'[x][i] = "OPEN"
                 PROVE  Followed(i, inbox'[x]) \/ InOutboxes("CLOSED", x)' \/ Coming("OPEN", y)'
      BY <1>3 DEF OpenEventsHeal
    <2>1. CASE i \in 1..Len(inbox[x]) /\ inbox[x][i] = "OPEN"
      <3>1. Followed(i, inbox[x]) \/ InOutboxes("CLOSED", x) \/ Coming("OPEN", y)
        BY <2>1 DEF AgreementInv, OpenEventsHeal
      <3>2. CASE Followed(i, inbox[x])
        <4>1. Followed(i, Append(inbox[x], h))
          BY <1>1, <1>2, <2>1, <3>2, AppendQueue
        <4>2. QED
          BY <1>2, <3>2, <4>1
      <3>3. CASE x # r /\ h = "CLOSED"
        <4>1. Followed(i, Append(inbox[x], h))
          BY <1>1, <1>2, <2>1, <3>3, AppendQueue
        <4>2. QED
          BY <1>2, <3>3, <4>1
      <3>4. QED
        BY <1>7, <1>8, <3>1, <3>2, <3>3
    <2>2. CASE x # r /\ h = "OPEN"
      <3>1. CASE y # r
        BY <1>5, <2>2, <3>1 DEF Coming
      <3>2. CASE y = r
        <4>1. 1 \in 1..Len(outbox[r]) /\ outbox[r][1] = "OPEN"
          BY <1>1, <2>2 DEF h
        <4>2. Followed(1, outbox[r])
          BY <3>2, <4>1 DEF AgreementInv, OwnOpenFollowed
        <4>3. In("CLOSED", outbox'[r])
          BY <1>1, <4>2, TailQueue
        <4>4. QED
          BY <2>2, <4>3 DEF InOutboxes
      <3>3. QED
        BY <3>1, <3>2
    <2>3. (i \in 1..Len(inbox[x]) /\ inbox[x][i] = "OPEN") \/ (x # r /\ h = "OPEN")
      <3>1. CASE x = r
        BY <1>2, <3>1
      <3>2. CASE x # r
        <4>1. inbox'[x] = Append(inbox[x], h) /\ inbox[x] \in Seq(CircuitState)
          BY <1>2, <3>2
        <4>2. QED
          BY <1>1, <3>2, <4>1, AppendQueue
      <3>3. QED
        BY <3>1, <3>2
    <2>4. QED
      BY <2>1, <2>2, <2>3
  <1>11. OwnOpenFollowed'
    <2> SUFFICES ASSUME NEW y \in Pods, NEW i \in 1..Len(outbox'[y]),
                        Closed(y), outbox'[y][i] = "OPEN"
                 PROVE  Followed(i, outbox'[y])
      BY <1>3 DEF OwnOpenFollowed
    <2>1. CASE y # r
      BY <1>1, <2>1 DEF AgreementInv, OwnOpenFollowed
    <2>2. CASE y = r
      <3>1. /\ i + 1 \in 1..Len(outbox[r])
            /\ outbox'[r][i] = outbox[r][i + 1]
            /\ Followed(i + 1, outbox[r]) => Followed(i, outbox'[r])
        BY <1>1, <2>2, TailQueue
      <3>2. QED
        BY <2>2, <3>1 DEF AgreementInv, OwnOpenFollowed
    <2>3. QED
      BY <2>1, <2>2
  <1>12. QED
    BY <1>9, <1>10, <1>11

(* Every step of a system with a reliable channel preserves the invariant. *)
LEMMA AgreementStep ==
    ASSUME ReliableChannel, TypeOK, AgreementInv, [Next]_vars
    PROVE  AgreementInv'
  <1> USE DEF ReliableChannel
  <1>1. ASSUME NEW p \in Pods, NEW c \in Calls, AllowRequest(p, c)
        PROVE  AgreementInv'
    <2>1. GetState(breaker[p]) \in Breaker /\ Become(p, GetState(breaker[p])) /\ inbox' = inbox
      BY <1>1, BreakerMethods DEF AllowRequest, TypeOK
    <2>2. DisagreementHeals' /\ OpenEventsHeal' /\ OwnOpenFollowed'
      BY <2>1, BecomeKeeps DEF GetState, Closed
    <2>3. ChannelUp'
      BY <1>1 DEF AllowRequest, AgreementInv, ChannelUp, TypeOK
    <2>4. QED
      BY <2>2, <2>3 DEF AgreementInv
  <1>2. ASSUME NEW p \in Pods, Observe(p) PROVE AgreementInv'
    <2>1. GetState(breaker[p]) \in Breaker /\ Become(p, GetState(breaker[p])) /\ inbox' = inbox
      BY <1>2, BreakerMethods DEF Observe, TypeOK
    <2>2. DisagreementHeals' /\ OpenEventsHeal' /\ OwnOpenFollowed'
      BY <2>1, BecomeKeeps DEF GetState, Closed
    <2>3. QED
      BY <1>2, <2>2 DEF Observe, AgreementInv, ChannelUp
  <1>3. ASSUME NEW p \in Pods, NEW c \in Calls, Succeed(p, c) PROVE AgreementInv'
    <2>1. OnSuccess(breaker[p]) \in Breaker /\ Become(p, OnSuccess(breaker[p])) /\ inbox' = inbox
      BY <1>3, BreakerMethods DEF Succeed, TypeOK
    <2>2. Closed(p) => OnSuccess(breaker[p]).state = "CLOSED"
      BY DEF OnSuccess, Closed
    <2>3. DisagreementHeals' /\ OpenEventsHeal' /\ OwnOpenFollowed'
      BY <2>1, <2>2, BecomeKeeps
    <2>4. QED
      BY <1>3, <2>3 DEF Succeed, AgreementInv, ChannelUp
  <1>4. ASSUME NEW p \in Pods, FailRender(p) \/ \E c \in Calls : Fail(p, c) PROVE AgreementInv'
    <2>1. OnFailure(breaker[p]) \in Breaker /\ Become(p, OnFailure(breaker[p])) /\ inbox' = inbox
      BY <1>4, BreakerMethods DEF Fail, FailRender, TypeOK
    <2>2. Closed(p) /\ OnFailure(breaker[p]).state # "CLOSED" => OnFailure(breaker[p]).state = "OPEN"
      BY DEF OnFailure, Closed
    <2>3. DisagreementHeals' /\ OpenEventsHeal' /\ OwnOpenFollowed'
      BY <2>1, <2>2, BecomeKeeps
    <2>4. QED
      BY <1>4, <2>3 DEF Fail, FailRender, AgreementInv, ChannelUp
  <1>5. ASSUME NEW p \in Pods, Broadcast(p) PROVE AgreementInv'
    BY <1>5, BroadcastKeeps DEF Broadcast, AgreementInv, ChannelUp
  <1>6. ASSUME NEW p \in Pods, Receive(p) PROVE AgreementInv'
    <2>1. inbox[p] \in Seq(CircuitState) /\ inbox[p] # <<>> /\ breaker[p] \in Breaker
      BY <1>6 DEF Receive, TypeOK
    <2>2. Head(inbox[p]) \in CircuitState /\ inbox' = [inbox EXCEPT ![p] = Tail(@)]
      BY <1>6, <2>1 DEF Receive
    <2>3. CASE Head(inbox[p]) = "OPEN"
      <3>1. breaker' = [breaker EXCEPT ![p] = ForceOpen(breaker[p])] /\ UNCHANGED outbox
        BY <1>6, <2>3 DEF Receive
      <3>2. QED
        BY <1>6, <2>1, <2>2, <2>3, <3>1, ForcedOpenKeeps DEF Receive, AgreementInv, ChannelUp
    <2>4. CASE Head(inbox[p]) = "CLOSED"
      <3>1. Become(p, Reset(breaker[p])) /\ Reset(breaker[p]) \in Breaker
        BY <1>6, <2>1, <2>4, BreakerMethods DEF Receive
      <3>2. Reset(breaker[p]).state = "CLOSED"
        BY DEF Reset, NewBreaker
      <3>3. DisagreementHeals' /\ OpenEventsHeal' /\ OwnOpenFollowed'
        BY <2>1, <2>2, <2>4, <3>1, <3>2, BecomeKeeps
      <3>4. QED
        BY <1>6, <3>3 DEF Receive, AgreementInv, ChannelUp
    <2>5. CASE Head(inbox[p]) = "HALF_OPEN" /\ GetState(breaker[p]).state # "OPEN"
      <3>1. Become(p, GetState(breaker[p])) /\ GetState(breaker[p]) \in Breaker
        BY <1>6, <2>1, <2>5, BreakerMethods DEF Receive
      <3>2. Closed(p) => GetState(breaker[p]).state = "CLOSED"
        BY DEF GetState, Closed
      <3>3. DisagreementHeals' /\ OpenEventsHeal' /\ OwnOpenFollowed'
        BY <2>1, <2>2, <2>5, <3>1, <3>2, BecomeKeeps
      <3>4. QED
        BY <1>6, <3>3 DEF Receive, AgreementInv, ChannelUp
    <2>6. CASE Head(inbox[p]) = "HALF_OPEN" /\ GetState(breaker[p]).state = "OPEN"
      <3>1. breaker[p].state = "OPEN"
        BY <2>6 DEF GetState
      <3>2. ForceHalfOpen(breaker[p]) \in Breaker /\ ForceHalfOpen(breaker[p]).state = "HALF_OPEN"
        BY <2>1, <3>1, BreakerMethods DEF ForceHalfOpen, Breaker
      <3>3. ChangesSilently(p, ForceHalfOpen(breaker[p]))
        BY <1>6, <2>6, <3>1, <3>2 DEF Receive, ChangesSilently
      <3>4. DisagreementHeals' /\ OpenEventsHeal' /\ OwnOpenFollowed'
        BY <2>1, <2>2, <2>6, <3>1, <3>2, <3>3, BecomeKeeps DEF Closed
      <3>5. QED
        BY <1>6, <3>4 DEF Receive, AgreementInv, ChannelUp
    <2>7. QED
      BY <2>2, <2>3, <2>4, <2>5, <2>6 DEF CircuitState
  <1>7. CASE RedisChanges
    <2>1. redis' # "down" /\ link' = link
      BY <1>7 DEF RedisChanges, TypeOK
    <2>2. QED
      BY <1>7, <2>1 DEF RedisChanges, AgreementInv, ChannelUp, DisagreementHeals,
         OpenEventsHeal, OwnOpenFollowed, Closed, Coming, InOutboxes
  <1>8. CASE Tick
    <2>1. \A p \in Pods : breaker'[p].state = breaker[p].state
      BY <1>8 DEF Tick, TypeOK, Breaker
    <2>2. QED
      BY <1>8, <2>1 DEF Tick, AgreementInv, ChannelUp, DisagreementHeals,
         OpenEventsHeal, OwnOpenFollowed, Closed, Coming, InOutboxes
  <1>9. ASSUME NEW p \in Pods, Connect(p) PROVE FALSE
    BY <1>9 DEF Connect, AgreementInv, ChannelUp
  <1>10. CASE \/ \E p \in Pods, c \in Calls : Settle(p, c)
              \/ UNCHANGED vars
    BY <1>10 DEF Settle, vars, AgreementInv, ChannelUp, DisagreementHeals,
       OpenEventsHeal, OwnOpenFollowed, Closed, Coming, InOutboxes
  <1>11. QED
    BY <1>1, <1>2, <1>3, <1>4, <1>5, <1>6, <1>7, <1>8, <1>9, <1>10 DEF Next

(***************************************************************************)
(* "Publishes local state changes so all pods sync" (Agreement), for any   *)
(* number of pods, when all have subscribed and no event is lost.          *)
(***************************************************************************)
THEOREM PodsAgree == ReliableChannel => (Spec => []Agreement)
  <1> SUFFICES ASSUME ReliableChannel PROVE Spec => []Agreement
    OBVIOUS
  <1>1. Init => AgreementInv
    BY DEF Init, NewBreaker, ReliableChannel, AgreementInv, ChannelUp, DisagreementHeals,
       OpenEventsHeal, OwnOpenFollowed, Closed
  <1>2. TypeOK /\ AgreementInv /\ [Next]_vars => AgreementInv'
    BY AgreementStep
  <1>3. TypeOK /\ AgreementInv => Agreement
    <2> SUFFICES ASSUME TypeOK, AgreementInv, Quiet PROVE \A p, q \in Pods : Closed(p) => Closed(q)
      BY DEF Agreement
    <2>1. \A p \in Pods : Len(outbox[p]) = 0 /\ Len(inbox[p]) = 0
      BY DEF TypeOK, Quiet, Transit
    <2>2. \A p \in Pods : \A s : ~Coming(s, p)
      BY <2>1 DEF Coming, InOutboxes, In
    <2>3. QED
      BY <2>2 DEF AgreementInv, DisagreementHeals
  <1>4. QED
    BY <1>1, <1>2, <1>3, TypeCorrect, PTL DEF Spec
=============================================================================
