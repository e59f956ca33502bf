---------------------------- MODULE Backend_proofs ----------------------------
(***************************************************************************)
(* Proofs about the mechanisms behind the portal, for any number of the    *)
(* servers, requests, objects, supervisors and callers of each: the shared *)
(* Redis client, the deduplication of pushed values, the supervisor and    *)
(* the Modbus connections of one piece of equipment; and about all         *)
(* mechanisms side by side, those of Records_proofs included.              *)
(***************************************************************************)
EXTENDS MCServer, Records_proofs

-----------------------------------------------------------------------------
(***************************************************************************)
(* The shared Redis client.                                                *)
(***************************************************************************)
(* Every variable keeps to its type. *)
THEOREM ClientTypeCorrect == ClientSpec => []ClientTypeOK
<1> USE ObjectsAssumption DEF ObjectsAssumption, ClientTypeOK, Objects
<1>1. ASSUME ClientInit PROVE ClientTypeOK
  <2>1. cooling \in BOOLEAN /\ disturbed \in BOOLEAN
    BY <1>1 DEF ClientInit
  <2>2. object \in [Objects -> {"ended", "connecting", "ready", "reconnecting", "quit"}]
    BY <1>1 DEF ClientInit
  <2>3. awaited \subseteq Objects
    BY <1>1 DEF ClientInit
  <2> QED
    BY <1>1, <2>1, <2>2, <2>3 DEF ClientInit
<1>2. ClientTypeOK /\ [ClientNext]_clientVars => ClientTypeOK'
  <2> SUFFICES ASSUME ClientTypeOK, [ClientNext]_clientVars PROVE ClientTypeOK'
    OBVIOUS
  <2>1. ASSUME CoolsDown PROVE ClientTypeOK'
    BY <2>1 DEF CoolsDown
  <2>10. ASSUME PingsNothing PROVE ClientTypeOK'
    BY <2>10 DEF PingsNothing
  <2>2. CASE CloseRedis
    BY <2>2 DEF CloseRedis
  <2>3. CASE QuitAnswered
    BY <2>3 DEF QuitAnswered, Ready, Becomes
  <2>4. ASSUME NEW k \in Objects, GetRedisClient(k) PROVE ClientTypeOK'
    BY <2>4 DEF GetRedisClient, Becomes
  <2>5. ASSUME NEW k \in Objects, Connected(k) PROVE ClientTypeOK'
    BY <2>5 DEF Connected, Becomes, Settled
  <2>6. ASSUME NEW k \in Objects, ConnectFails(k) PROVE ClientTypeOK'
    BY <2>6 DEF ConnectFails, Becomes, Settled
  <2>7. ASSUME NEW k \in Objects, ConnectionLost(k) PROVE ClientTypeOK'
    BY <2>7 DEF ConnectionLost, Becomes
  <2>11. ASSUME NEW k \in Objects, Reconnected(k) PROVE ClientTypeOK'
    BY <2>11 DEF Reconnected, Becomes
  <2>8. ASSUME NEW k \in Objects, Ended(k) PROVE ClientTypeOK'
    BY <2>8 DEF Ended, Becomes
  <2>9. CASE UNCHANGED clientVars
    BY <2>9 DEF clientVars
  <2> QED
    BY <2>1, <2>2, <2>3, <2>4, <2>5, <2>6, <2>7, <2>8, <2>9, <2>10, <2>11 DEF ClientNext
<1> QED
  BY <1>1, <1>2, PTL DEF ClientSpec

-----------------------------------------------------------------------------
(* No step leaves in `connecting` the promise of an attempt that is over: *)
(* only getRedisClient() fills it, and whoever ends an attempt empties it. *)
LEMMA AttemptKept ==
    ClientTypeOK /\ AttemptUnderWay /\ [ClientNext]_clientVars => AttemptUnderWay'
<1> USE ObjectsAssumption DEF ObjectsAssumption, ClientTypeOK, Objects, AttemptUnderWay
<1> SUFFICES ASSUME ClientTypeOK, AttemptUnderWay, [ClientNext]_clientVars
             PROVE  AttemptUnderWay'
  OBVIOUS
<1>1. CASE CoolsDown \/ PingsNothing
  BY <1>1 DEF CoolsDown, PingsNothing
<1>2. CASE CloseRedis
  BY <1>2 DEF CloseRedis
<1>3. CASE QuitAnswered
  BY <1>3 DEF QuitAnswered
<1>4. ASSUME NEW k \in Objects, GetRedisClient(k) PROVE AttemptUnderWay'
  BY <1>4 DEF GetRedisClient, Becomes
<1>5. ASSUME NEW k \in Objects, Connected(k) \/ ConnectFails(k) PROVE AttemptUnderWay'
  BY <1>5 DEF Connected, ConnectFails, Settled
<1>6. ASSUME NEW k \in Objects, ConnectionLost(k) \/ Reconnected(k) PROVE AttemptUnderWay'
  BY <1>6 DEF ConnectionLost, Reconnected, Becomes
<1>7. ASSUME NEW k \in Objects, Ended(k) PROVE AttemptUnderWay'
  BY <1>7 DEF Ended
<1>8. CASE UNCHANGED clientVars
  BY <1>8 DEF clientVars
<1> QED
  BY <1>1, <1>2, <1>3, <1>4, <1>5, <1>6, <1>7, <1>8 DEF ClientNext

(* What `connecting` holds is an attempt under way (client.ts, 191 and 244). *)
THEOREM AttemptsUnderWay == ClientSpec => []AttemptUnderWay
<1>1. ClientInit => AttemptUnderWay
  BY DEF ClientInit, AttemptUnderWay
<1> QED
  BY <1>1, AttemptKept, ClientTypeCorrect, PTL DEF ClientSpec

-----------------------------------------------------------------------------
(***************************************************************************)
(* While nothing failed, an object that has not ended is either the one    *)
(* attempt of `connecting` or, with no attempt under way, the ready client *)
(* every caller is given.                                                  *)
(***************************************************************************)
OneHolder ==
    ~disturbed =>
        /\ quitting = 0
        /\ \A k \in Objects :
              \/ object[k] = "ended"
              \/ object[k] = "connecting" /\ k = connecting
              \/ object[k] = "ready" /\ k = adopted /\ connecting = 0

(* OneHolder is inductive. *)
LEMMA OneHolderKept ==
    ClientTypeOK /\ OneHolder /\ [ClientNext]_clientVars => OneHolder'
<1> USE ObjectsAssumption DEF ObjectsAssumption, ClientTypeOK, Objects, OneHolder
<1> SUFFICES ASSUME ClientTypeOK, OneHolder, [ClientNext]_clientVars
             PROVE  OneHolder'
  OBVIOUS
<1>1. CASE CoolsDown \/ PingsNothing
  BY <1>1 DEF CoolsDown, PingsNothing
<1>2. CASE CloseRedis
  BY <1>2 DEF CloseRedis
<1>3. CASE QuitAnswered
  BY <1>3 DEF QuitAnswered, Ready
<1>4. ASSUME NEW k \in Objects, GetRedisClient(k) PROVE OneHolder'
  BY <1>4 DEF GetRedisClient, MayConnect, Ready, Becomes
<1>5. ASSUME NEW k \in Objects, Connected(k) PROVE OneHolder'
  BY <1>5 DEF Connected, Settled, Becomes
<1>6. ASSUME NEW k \in Objects, ConnectFails(k) \/ ConnectionLost(k) PROVE OneHolder'
  BY <1>6 DEF ConnectFails, ConnectionLost
<1>7. ASSUME NEW k \in Objects, Reconnected(k) \/ Ended(k) PROVE OneHolder'
  BY <1>7 DEF Reconnected, Ended
<1>8. CASE UNCHANGED clientVars
  BY <1>8 DEF clientVars
<1> QED
  BY <1>1, <1>2, <1>3, <1>4, <1>5, <1>6, <1>7, <1>8 DEF ClientNext

(* A set whose elements are all the same has at most one. *)
LEMMA AtMostOne ==
    ASSUME NEW S, \A x, y \in S : x = y
    PROVE  Cardinality(S) <= 1
<1>1. CASE S = {}
  BY <1>1, FS_EmptySet
<1>2. ASSUME NEW x \in S PROVE Cardinality(S) <= 1
  <2>1. S = {x}
    BY <1>2
  <2> QED
    BY <2>1, FS_Singleton
<1> QED
  BY <1>1, <1>2

(* OneHolder bounds the connections. *)
LEMMA HolderIsSingle == OneHolder => Singleton
<1> SUFFICES ASSUME OneHolder, ~disturbed
             PROVE  Cardinality({k \in Objects : object[k] # "ended"}) <= 1
  BY DEF Singleton
<1>1. \A j, k \in {i \in Objects : object[i] # "ended"} : j = k
  BY DEF OneHolder, Objects
<1> QED
  BY <1>1, AtMostOne

(* "Get or create the singleton Redis client" (client.ts), undisturbed. *)
THEOREM OneConnection == ClientSpec => []Singleton
<1>1. ClientInit => OneHolder
  BY DEF ClientInit, OneHolder
<1> QED
  BY <1>1, OneHolderKept, HolderIsSingle, ClientTypeCorrect, PTL DEF ClientSpec

-----------------------------------------------------------------------------
(***************************************************************************)
(* Telemetry.  Until something is uncertain at most one request has been   *)
(* accepted and is not yet remembered everywhere, and no other has looked  *)
(* meanwhile; what the two levels hold besides is what FUXA shows.         *)
(***************************************************************************)
Unsettled(r) == push[r].at \in {"accepted", "storing"}

(* Types, and a request under way has a value. *)
TelemetryTypes ==
    /\ TelemetryTypeOK
    /\ \A r \in Pushes : push[r].at # "idle" => push[r].value \in Values

(* Nobody has looked past a request that is not yet remembered. *)
OneUnsettled ==
    \A r, q \in Pushes : Unsettled(r) /\ (Unsettled(q) \/ push[q].at = "seen") => r = q

(* What is not yet remembered is what FUXA shows. *)
UnsettledIsShown == \A r \in Pushes : Unsettled(r) => push[r].value = shown

(* Meanwhile the other servers remember nothing. *)
OthersForget ==
    \A r \in Pushes : push[r].at = "accepted" =>
        \A p \in Servers \ {push[r].server} : local[p] = NoValue

(* Otherwise a server remembers what is shown, *)
LocalIsShown ==
    (\A r \in Pushes : push[r].at # "accepted") =>
        \A p \in Servers : local[p] # NoValue => local[p] = shown

(* and so does the shared level, *)
RemoteIsShown ==
    (\A r \in Pushes : ~Unsettled(r)) => (remote # NoValue => remote = shown)

(* and who found a value there found what is shown. *)
SeenIsShown ==
    \A r \in Pushes : push[r].at = "seen" /\ push[r].seen # NoValue => push[r].seen = shown

(* All of it. *)
Certain ==
    OneUnsettled /\ UnsettledIsShown /\ OthersForget /\ LocalIsShown /\ RemoteIsShown /\ SeenIsShown

(* As long as nothing is uncertain. *)
TelemetryInv == TelemetryTypes /\ (~uncertain => Certain)

(* A request that is over is a request. *)
LEMMA NoPushTyped ==
    ASSUME TelemetryAssumption
    PROVE  NoPush \in Push /\ NoPush.at = "idle"
<1> QED
  BY DEF TelemetryAssumption, NoPush, Push, Value

(* What a step makes of one request, the others are as they were. *)
LEMMA PushBecomes ==
    ASSUME TelemetryTypes, NEW r \in Pushes, NEW rec \in Push, push' = [push EXCEPT ![r] = rec],
           rec.at # "idle" => rec.value \in Values
    PROVE  /\ \A q \in Pushes : push'[q] = IF q = r THEN rec ELSE push[q]
           /\ push' \in [Pushes -> Push]
           /\ \A q \in Pushes : push'[q].at # "idle" => push'[q].value \in Values
<1>1. \A q \in Pushes : push'[q] = IF q = r THEN rec ELSE push[q]
  BY DEF TelemetryTypes, TelemetryTypeOK
<1>2. push' \in [Pushes -> Push]
  BY DEF TelemetryTypes, TelemetryTypeOK
<1> QED
  BY <1>1, <1>2 DEF TelemetryTypes

(* A request goes on with what it carries. *)
LEMMA GoesOn ==
    ASSUME TelemetryTypes, NEW r \in Pushes, push[r].at # "idle",
           NEW phase \in {"looking", "seen", "sending", "accepted", "storing"}, Goes(r, phase)
    PROVE  \E rec \in Push :
              /\ push' = [push EXCEPT ![r] = rec]
              /\ rec.at = phase /\ rec.value = push[r].value /\ rec.server = push[r].server
              /\ rec.seen = push[r].seen /\ rec.value \in Values
<1> DEFINE rec == [push[r] EXCEPT !.at = phase]
<1>1. push[r] \in Push /\ push[r].value \in Values
  BY DEF TelemetryTypes, TelemetryTypeOK
<1>2. /\ rec \in Push /\ rec.at = phase /\ rec.value = push[r].value
      /\ rec.server = push[r].server /\ rec.seen = push[r].seen
  BY <1>1 DEF Push
<1>3. push' = [push EXCEPT ![r] = rec]
  BY DEF Goes
<1> HIDE DEF rec
<1> QED
  BY <1>1, <1>2, <1>3

(* The request is answered and forgotten. *)
LEMMA AnsweredOnce ==
    ASSUME TelemetryAssumption, TelemetryTypes, NEW r \in Pushes, Answered(r)
    PROVE  /\ \A q \in Pushes : push'[q] = IF q = r THEN NoPush ELSE push[q]
           /\ push' \in [Pushes -> Push] /\ NoPush.at = "idle"
           /\ \A q \in Pushes : push'[q].at # "idle" => push'[q].value \in Values
<1> QED
  BY NoPushTyped, PushBecomes DEF Answered

(* A new value arrives. *)
LEMMA ReceiveKeeps ==
    ASSUME TelemetryAssumption, TelemetryInv, NEW r \in Pushes, NEW p \in Servers, NEW v \in Values,
           Receive(r, p, v)
    PROVE  TelemetryInv'
<1> DEFINE rec == [at |-> "looking", server |-> p, value |-> v, seen |-> NoValue]
<1>1. rec \in Push /\ rec.at = "looking" /\ rec.value = v
  BY DEF Push, Value
<1>2. push' = [push EXCEPT ![r] = rec] /\ UNCHANGED <<shown, local, remote, uncertain>>
  BY DEF Receive
<1>3. push[r].at = "idle"
  BY DEF Receive
<1> HIDE DEF rec
<1>4. /\ \A q \in Pushes : push'[q] = IF q = r THEN rec ELSE push[q]
      /\ push' \in [Pushes -> Push]
      /\ \A q \in Pushes : push'[q].at # "idle" => push'[q].value \in Values
  BY <1>1, <1>2, PushBecomes DEF TelemetryInv
<1>5. TelemetryTypes'
  BY <1>2, <1>4 DEF TelemetryInv, TelemetryTypes, TelemetryTypeOK
<1>6. ASSUME Certain PROVE Certain'
  BY <1>1, <1>2, <1>3, <1>4, <1>6 DEF Certain, OneUnsettled, UnsettledIsShown, OthersForget, LocalIsShown,
     RemoteIsShown, SeenIsShown, Unsettled
<1> QED
  BY <1>2, <1>5, <1>6 DEF TelemetryInv

(* What is seen is what FUXA shows: nobody is between FUXA and Redis. *)
LEMMA LookUpKeeps ==
    ASSUME TelemetryAssumption, TelemetryInv, NEW r \in Pushes, LookUp(r)
    PROVE  TelemetryInv'
<1>1. push[r].at = "looking" /\ UNCHANGED <<shown, local, remote>>
      /\ uncertain' = (uncertain \/ \E q \in Pushes \ {r} : Unsettled(q))
  BY DEF LookUp, Unsettled
<1>2. PICK seen \in {remote, NoValue} :
         push' = [push EXCEPT ![r].at = "seen", ![r].seen = seen]
  BY DEF LookUp
<1> DEFINE rec == [[push[r] EXCEPT !.at = "seen"] EXCEPT !.seen = seen]
<1>3. push[r] \in Push /\ push[r].value \in Values /\ seen \in Value
  BY <1>1 DEF TelemetryInv, TelemetryTypes, TelemetryTypeOK, Value
<1>4. rec \in Push /\ rec.at = "seen" /\ rec.value = push[r].value /\ rec.seen = seen
  BY <1>3 DEF Push
<1>5. push' = [push EXCEPT ![r] = rec]
  BY <1>2 DEF TelemetryInv, TelemetryTypes, TelemetryTypeOK
<1> HIDE DEF rec
<1>6. /\ \A q \in Pushes : push'[q] = IF q = r THEN rec ELSE push[q]
      /\ push' \in [Pushes -> Push]
      /\ \A q \in Pushes : push'[q].at # "idle" => push'[q].value \in Values
  BY <1>3, <1>4, <1>5, PushBecomes DEF TelemetryInv
<1>7. TelemetryTypes'
  BY <1>1, <1>6 DEF TelemetryInv, TelemetryTypes, TelemetryTypeOK
<1>8. ASSUME ~uncertain' PROVE Certain'
  <2>1. Certain /\ \A q \in Pushes : ~Unsettled(q)
    BY <1>1, <1>8 DEF TelemetryInv, Unsettled
  <2>2. \A q \in Pushes : ~Unsettled(q)'
    BY <1>4, <1>6, <2>1 DEF Unsettled
  <2>3. SeenIsShown'
    BY <1>1, <1>2, <1>4, <1>6, <2>1 DEF Certain, SeenIsShown, RemoteIsShown
  <2>4. LocalIsShown' /\ RemoteIsShown'
    BY <1>1, <2>1 DEF Certain, LocalIsShown, RemoteIsShown, Unsettled
  <2> QED
    BY <2>2, <2>3, <2>4 DEF Certain, OneUnsettled, UnsettledIsShown, OthersForget, Unsettled
<1> QED
  BY <1>7, <1>8 DEF TelemetryInv

(* The shared level has the value already. *)
LEMMA UnchangedKeeps ==
    ASSUME TelemetryAssumption, TelemetryInv, NEW r \in Pushes, Unchanged(r)
    PROVE  TelemetryInv'
<1>1. /\ push[r].at = "seen" /\ push[r].seen = push[r].value
      /\ local' = [local EXCEPT ![push[r].server] = push[r].value] /\ Answered(r)
      /\ UNCHANGED <<shown, remote, uncertain>>
  BY DEF Unchanged
<1>2. /\ \A q \in Pushes : push'[q] = IF q = r THEN NoPush ELSE push[q]
      /\ push' \in [Pushes -> Push] /\ NoPush.at = "idle"
      /\ \A q \in Pushes : push'[q].at # "idle" => push'[q].value \in Values
  BY <1>1, AnsweredOnce DEF TelemetryInv
<1>3. /\ push[r].value \in Values /\ push[r].server \in Servers
      /\ local \in [Servers -> Value]
  BY <1>1 DEF TelemetryInv, TelemetryTypes, TelemetryTypeOK, Push
<1>4. TelemetryTypes'
  BY <1>1, <1>2, <1>3 DEF TelemetryInv, TelemetryTypes, TelemetryTypeOK, Value
<1>5. ASSUME Certain PROVE Certain'
  <2>1. \A q \in Pushes : ~Unsettled(q)
    BY <1>1, <1>5 DEF Certain, OneUnsettled, Unsettled
  <2>2. push[r].value = shown
    BY <1>1, <1>3, <1>5 DEF Certain, SeenIsShown, TelemetryAssumption
  <2>3. \A q \in Pushes : ~Unsettled(q)'
    BY <1>2, <2>1 DEF Unsettled
  <2>4. \A p \in Servers : local'[p] # NoValue => local'[p] = shown
    BY <1>1, <1>3, <1>5, <2>1, <2>2 DEF Certain, LocalIsShown, Unsettled
  <2>5. SeenIsShown'
    BY <1>1, <1>2, <1>5 DEF Certain, SeenIsShown
  <2>6. RemoteIsShown' /\ LocalIsShown'
    BY <1>1, <1>5, <2>1, <2>4 DEF Certain, RemoteIsShown, LocalIsShown
  <2> QED
    BY <2>3, <2>5, <2>6 DEF Certain, OneUnsettled, UnsettledIsShown, OthersForget, Unsettled
<1> QED
  BY <1>1, <1>4, <1>5 DEF TelemetryInv

(* It has another one, and FUXA is told. *)
LEMMA ChangedKeeps ==
    ASSUME TelemetryAssumption, TelemetryInv, NEW r \in Pushes, Changed(r)
    PROVE  TelemetryInv'
<1>1. push[r].at = "seen" /\ Goes(r, "sending") /\ UNCHANGED <<shown, local, remote, uncertain>>
  BY DEF Changed
<1>2. PICK rec \in Push :
         /\ push' = [push EXCEPT ![r] = rec]
         /\ rec.at = "sending" /\ rec.value \in Values
  BY <1>1, GoesOn DEF TelemetryInv
<1>3. /\ \A q \in Pushes : push'[q] = IF q = r THEN rec ELSE push[q]
      /\ push' \in [Pushes -> Push]
      /\ \A q \in Pushes : push'[q].at # "idle" => push'[q].value \in Values
  BY <1>2, PushBecomes DEF TelemetryInv
<1>4. TelemetryTypes'
  BY <1>1, <1>3 DEF TelemetryInv, TelemetryTypes, TelemetryTypeOK
<1>5. ASSUME Certain PROVE Certain'
  BY <1>1, <1>2, <1>3, <1>5 DEF Certain, OneUnsettled, UnsettledIsShown, OthersForget,
     LocalIsShown, RemoteIsShown, SeenIsShown, Unsettled
<1> QED
  BY <1>1, <1>4, <1>5 DEF TelemetryInv

(* FUXA shows another value: certain only when nobody else holds an older one. *)
LEMMA FuxaAcceptsKeeps ==
    ASSUME TelemetryAssumption, TelemetryInv, NEW r \in Pushes, FuxaAccepts(r)
    PROVE  TelemetryInv'
<1>1. /\ push[r].at = "sending" /\ Goes(r, "accepted") /\ UNCHANGED <<local, remote>>
      /\ shown' = push[r].value /\ uncertain' = (uncertain \/ Outdates(r))
  BY DEF FuxaAccepts
<1>2. PICK rec \in Push :
         /\ push' = [push EXCEPT ![r] = rec]
         /\ rec.at = "accepted" /\ rec.value = push[r].value /\ rec.server = push[r].server
         /\ rec.value \in Values
  BY <1>1, GoesOn DEF TelemetryInv
<1>3. /\ \A q \in Pushes : push'[q] = IF q = r THEN rec ELSE push[q]
      /\ push' \in [Pushes -> Push]
      /\ \A q \in Pushes : push'[q].at # "idle" => push'[q].value \in Values
  BY <1>2, PushBecomes DEF TelemetryInv
<1>4. Outdates(r) \in BOOLEAN
  BY DEF Outdates
<1>5. TelemetryTypes'
  BY <1>1, <1>2, <1>3, <1>4 DEF TelemetryInv, TelemetryTypes, TelemetryTypeOK, Value
<1>6. ASSUME ~uncertain' PROVE Certain'
  <2>1. /\ Certain
        /\ \A p \in Servers \ {push[r].server} : local[p] = NoValue
        /\ \A q \in Pushes \ {r} : push[q].at \notin {"seen", "accepted", "storing"}
    BY <1>1, <1>6 DEF TelemetryInv, Outdates
  <2>2. \A q \in Pushes : push'[q].at \in {"seen", "accepted", "storing"} => q = r
    BY <1>3, <2>1
  <2>3. push'[r] = rec
    BY <1>3
  <2>4. OneUnsettled'
    BY <2>2 DEF OneUnsettled, Unsettled
  <2>5. UnsettledIsShown' /\ OthersForget'
    BY <1>1, <1>2, <2>1, <2>2, <2>3 DEF UnsettledIsShown, OthersForget, Unsettled
  <2>6. LocalIsShown' /\ RemoteIsShown' /\ SeenIsShown'
    BY <1>2, <2>2, <2>3 DEF LocalIsShown, RemoteIsShown, SeenIsShown, Unsettled
  <2> QED
    BY <2>4, <2>5, <2>6 DEF Certain
<1> QED
  BY <1>5, <1>6 DEF TelemetryInv

(* FUXA refuses, or its answer is lost. *)
LEMMA FuxaFailsKeeps ==
    ASSUME TelemetryAssumption, TelemetryInv, NEW r \in Pushes, FuxaRefuses(r) \/ FuxaUnheard(r)
    PROVE  TelemetryInv'
<1>1. /\ push[r].at = "sending" /\ Answered(r) /\ UNCHANGED <<local, remote>>
      /\ \/ shown' = shown /\ uncertain' = uncertain
         \/ shown' = push[r].value /\ uncertain' = TRUE
  BY DEF FuxaRefuses, FuxaUnheard
<1>2. /\ \A q \in Pushes : push'[q] = IF q = r THEN NoPush ELSE push[q]
      /\ push' \in [Pushes -> Push] /\ NoPush.at = "idle"
      /\ \A q \in Pushes : push'[q].at # "idle" => push'[q].value \in Values
  BY <1>1, AnsweredOnce DEF TelemetryInv
<1>3. push[r].value \in Values
  BY <1>1 DEF TelemetryInv, TelemetryTypes
<1>4. TelemetryTypes'
  BY <1>1, <1>2, <1>3 DEF TelemetryInv, TelemetryTypes, TelemetryTypeOK, Value
<1>5. ASSUME Certain, shown' = shown PROVE Certain'
  BY <1>1, <1>2, <1>5 DEF Certain, OneUnsettled, UnsettledIsShown, OthersForget,
     LocalIsShown, RemoteIsShown, SeenIsShown, Unsettled
<1> QED
  BY <1>1, <1>4, <1>5 DEF TelemetryInv

(* The server remembers what FUXA accepted. *)
LEMMA RememberKeeps ==
    ASSUME TelemetryAssumption, TelemetryInv, NEW r \in Pushes, Remember(r)
    PROVE  TelemetryInv'
<1>1. /\ push[r].at = "accepted" /\ Goes(r, "storing") /\ UNCHANGED <<shown, remote, uncertain>>
      /\ local' = [local EXCEPT ![push[r].server] = push[r].value]
  BY DEF Remember, Remembered
<1>2. PICK rec \in Push :
         /\ push' = [push EXCEPT ![r] = rec]
         /\ rec.at = "storing" /\ rec.value = push[r].value /\ rec.value \in Values
  BY <1>1, GoesOn DEF TelemetryInv
<1>3. /\ \A q \in Pushes : push'[q] = IF q = r THEN rec ELSE push[q]
      /\ push' \in [Pushes -> Push]
      /\ \A q \in Pushes : push'[q].at # "idle" => push'[q].value \in Values
  BY <1>2, PushBecomes DEF TelemetryInv
<1>4. push[r].server \in Servers /\ local \in [Servers -> Value]
  BY DEF TelemetryInv, TelemetryTypes, TelemetryTypeOK, Push
<1>5. TelemetryTypes'
  BY <1>1, <1>2, <1>3, <1>4 DEF TelemetryInv, TelemetryTypes, TelemetryTypeOK, Value
<1>6. ASSUME Certain PROVE Certain'
  <2>1. \A q \in Pushes : push[q].at \in {"seen", "accepted", "storing"} => q = r
    BY <1>1, <1>6 DEF Certain, OneUnsettled, Unsettled
  <2>2. \A q \in Pushes : push'[q].at \in {"seen", "accepted", "storing"} => q = r
    BY <1>3, <2>1
  <2>3. push'[r] = rec
    BY <1>3
  <2>4. \A p \in Servers : local'[p] # NoValue => local'[p] = shown
    BY <1>1, <1>4, <1>6 DEF Certain, OthersForget, UnsettledIsShown, Unsettled
  <2>5. OneUnsettled' /\ OthersForget'
    BY <1>2, <2>2, <2>3 DEF OneUnsettled, OthersForget, Unsettled
  <2>6. UnsettledIsShown'
    BY <1>1, <1>2, <1>6, <2>2, <2>3 DEF Certain, UnsettledIsShown, Unsettled
  <2>7. LocalIsShown'
    BY <1>1, <2>4 DEF LocalIsShown
  <2>8. RemoteIsShown' /\ SeenIsShown'
    BY <1>2, <2>2, <2>3 DEF RemoteIsShown, SeenIsShown, Unsettled
  <2> QED
    BY <2>5, <2>6, <2>7, <2>8 DEF Certain
<1> QED
  BY <1>1, <1>5, <1>6 DEF TelemetryInv

(* And stores it, or fails to, in the shared level. *)
LEMMA StoreRemoteKeeps ==
    ASSUME TelemetryAssumption, TelemetryInv, NEW r \in Pushes, StoreRemote(r)
    PROVE  TelemetryInv'
<1>1. /\ push[r].at = "storing" /\ Answered(r) /\ UNCHANGED <<shown, local>>
      /\ \/ remote' = push[r].value /\ UNCHANGED uncertain
         \/ uncertain' = TRUE /\ UNCHANGED remote
  BY DEF StoreRemote
<1>2. /\ \A q \in Pushes : push'[q] = IF q = r THEN NoPush ELSE push[q]
      /\ push' \in [Pushes -> Push] /\ NoPush.at = "idle"
      /\ \A q \in Pushes : push'[q].at # "idle" => push'[q].value \in Values
  BY <1>1, AnsweredOnce DEF TelemetryInv
<1>3. push[r].value \in Values
  BY <1>1 DEF TelemetryInv, TelemetryTypes
<1>4. TelemetryTypes'
  BY <1>1, <1>2, <1>3 DEF TelemetryInv, TelemetryTypes, TelemetryTypeOK, Value
<1>5. ASSUME Certain, remote' = push[r].value PROVE Certain'
  <2>1. \A q \in Pushes : push'[q].at \notin {"seen", "accepted", "storing"}
    BY <1>1, <1>2, <1>5 DEF Certain, OneUnsettled, Unsettled
  <2>2. \A q \in Pushes : push[q].at # "accepted"
    BY <1>1, <1>5 DEF Certain, OneUnsettled, Unsettled
  <2>3. LocalIsShown'
    BY <1>1, <1>5, <2>2 DEF Certain, LocalIsShown
  <2>4. RemoteIsShown'
    BY <1>1, <1>5 DEF Certain, UnsettledIsShown, RemoteIsShown, Unsettled
  <2> QED
    BY <2>1, <2>3, <2>4 DEF Certain, OneUnsettled, UnsettledIsShown, OthersForget, SeenIsShown,
       Unsettled
<1> QED
  BY <1>1, <1>4, <1>5 DEF TelemetryInv

(* A restart forgets the requests of its server and what it remembers. *)
LEMMA RestartKeeps ==
    ASSUME TelemetryAssumption, TelemetryInv, NEW p \in Servers, Restart(p)
    PROVE  TelemetryInv'
<1> DEFINE lost == {r \in Pushes : push[r].at # "idle" /\ push[r].server = p}
<1>1. /\ local' = [local EXCEPT ![p] = NoValue]
      /\ push' = [r \in Pushes |-> IF r \in lost THEN NoPush ELSE push[r]]
      /\ uncertain' = (uncertain \/ \E r \in lost : Unsettled(r))
      /\ UNCHANGED <<shown, remote>>
  BY DEF Restart, Unsettled
<1> HIDE DEF lost
<1>2. \A q \in Pushes : push'[q] = push[q] \/ (q \in lost /\ push'[q] = NoPush)
  BY <1>1
<1>3. TelemetryTypes'
  <2>1. push' \in [Pushes -> Push]
    BY <1>1, NoPushTyped DEF TelemetryInv, TelemetryTypes, TelemetryTypeOK
  <2>2. local' \in [Servers -> Value] /\ uncertain' \in BOOLEAN
    BY <1>1 DEF TelemetryInv, TelemetryTypes, TelemetryTypeOK, Value
  <2>3. \A r \in Pushes : push'[r].at # "idle" => push'[r].value \in Values
    BY <1>2, NoPushTyped DEF TelemetryInv, TelemetryTypes
  <2> QED
    BY <1>1, <2>1, <2>2, <2>3 DEF TelemetryInv, TelemetryTypes, TelemetryTypeOK
<1>4. ASSUME ~uncertain' PROVE Certain'
  <2>1. Certain /\ \A r \in lost : ~Unsettled(r)
    BY <1>1, <1>4 DEF TelemetryInv
  <2>2. ASSUME NEW q \in Pushes, push'[q].at \in {"seen", "accepted", "storing"}
        PROVE  push'[q] = push[q]
    <3>1. NoPush.at = "idle"
      BY NoPushTyped
    <3> QED
      BY <1>2, <2>2, <3>1
  <2>3. \A q \in Pushes : Unsettled(q) => push'[q] = push[q]
    BY <1>2, <2>1
  <2>4. \A s \in Servers : local'[s] = local[s] \/ local'[s] = NoValue
    BY <1>1 DEF TelemetryInv, TelemetryTypes, TelemetryTypeOK
  <2>5. OneUnsettled'
    BY <2>1, <2>2 DEF Certain, OneUnsettled, Unsettled
  <2>6. UnsettledIsShown' /\ SeenIsShown'
    BY <1>1, <2>1, <2>2 DEF Certain, UnsettledIsShown, SeenIsShown, Unsettled
  <2>7. OthersForget'
    BY <2>1, <2>2, <2>4 DEF Certain, OthersForget
  <2>8. LocalIsShown'
    BY <1>1, <2>1, <2>3, <2>4 DEF Certain, LocalIsShown, Unsettled
  <2>9. RemoteIsShown'
    BY <1>1, <2>1, <2>3 DEF Certain, RemoteIsShown, Unsettled
  <2> QED
    BY <2>5, <2>6, <2>7, <2>8, <2>9 DEF Certain
<1> QED
  BY <1>3, <1>4 DEF TelemetryInv

(* Every step keeps what is remembered shown. *)
LEMMA TelemetryInvKept ==
    ASSUME TelemetryAssumption, TelemetryInv, [TelemetryNext]_telemetryVars
    PROVE  TelemetryInv'
<1>1. CASE ExpireRemote
  <2>1. /\ remote' = NoValue /\ UNCHANGED <<shown, local, push, uncertain>>
    BY <1>1 DEF ExpireRemote
  <2>2. TelemetryTypes'
    BY <2>1 DEF TelemetryInv, TelemetryTypes, TelemetryTypeOK, Value
  <2>3. Certain => Certain'
    BY <2>1 DEF Certain, OneUnsettled, UnsettledIsShown, OthersForget, LocalIsShown,
       RemoteIsShown, SeenIsShown, Unsettled
  <2> QED
    BY <2>1, <2>2, <2>3 DEF TelemetryInv
<1>2. CASE UNCHANGED telemetryVars
  BY <1>2 DEF telemetryVars, TelemetryInv, TelemetryTypes, TelemetryTypeOK, Certain, OneUnsettled,
     UnsettledIsShown, OthersForget, LocalIsShown, RemoteIsShown, SeenIsShown, Unsettled
<1> QED
  BY <1>1, <1>2, ReceiveKeeps, LookUpKeeps, UnchangedKeeps, ChangedKeeps, FuxaAcceptsKeeps,
     FuxaFailsKeeps, RememberKeeps, StoreRemoteKeeps, RestartKeeps DEF TelemetryNext

(* Nothing is remembered at first. *)
LEMMA TelemetryInvBegins ==
    ASSUME TelemetryAssumption, TelemetryInit PROVE TelemetryInv
<1>1. \A r \in Pushes : push[r] = NoPush
  BY DEF TelemetryInit
<1>2. TelemetryTypes
  BY <1>1, NoPushTyped DEF TelemetryInit, TelemetryTypes, TelemetryTypeOK, Value
<1>3. Certain
  BY <1>1, NoPushTyped DEF TelemetryInit, Certain, OneUnsettled,
     UnsettledIsShown, OthersForget, LocalIsShown, RemoteIsShown, SeenIsShown, Unsettled
<1> QED
  BY <1>2, <1>3 DEF TelemetryInv

(***************************************************************************)
(* No change is lost: a value either level suppresses is the one FUXA      *)
(* shows, for every number of pods and requests, until one of the cases    *)
(* the module names makes it uncertain (telemetry push route).             *)
(***************************************************************************)
THEOREM SuppressedAreShown == TelemetrySpec => []SuppressedIsShown
<1>1. TelemetrySpec => []TelemetryInv
  BY TelemetryAssumption, TelemetryInvBegins, TelemetryInvKept, PTL DEF TelemetrySpec
<1>2. TelemetryInv => SuppressedIsShown
  <2> SUFFICES ASSUME TelemetryInv, ~uncertain PROVE SuppressedIsShown
    BY DEF SuppressedIsShown
  <2>1. Certain /\ TelemetryTypes
    BY DEF TelemetryInv
  <2>2. \A r \in Pushes : push[r].at = "seen" => push[r].value # NoValue
    BY <2>1, TelemetryAssumption DEF TelemetryTypes, TelemetryAssumption
  <2> QED
    BY <2>1, <2>2 DEF SuppressedIsShown, Certain, LocalIsShown, SeenIsShown
<1> QED
  BY <1>1, <1>2, PTL

(* Every variable of the deduplication keeps to its type. *)
THEOREM TelemetryTypeCorrect == TelemetrySpec => []TelemetryTypeOK
<1>1. TelemetrySpec => []TelemetryInv
  BY TelemetryAssumption, TelemetryInvBegins, TelemetryInvKept, PTL DEF TelemetrySpec
<1>2. TelemetryInv => TelemetryTypeOK
  BY DEF TelemetryInv, TelemetryTypes
<1> QED
  BY <1>1, <1>2, PTL

-----------------------------------------------------------------------------
(***************************************************************************)
(* The supervisor.  What is counted since the last reset is never more     *)
(* than what is in the file, nor than what a supervisor has read and may   *)
(* write back; and the application runs only below the limit.              *)
(***************************************************************************)
Covered(tallies) == crashes <= tallies.restarts /\ wakes <= tallies.wakes

(* All of it, and the bound itself. *)
RecoveryInv ==
    /\ SupervisorTypeOK
    /\ RecoveryBounded
    /\ Covered(stateFile)
    /\ \A s \in Supervisors : supervisor[s].at # "off" => Covered(supervisor[s].state)
    /\ \A s \in Supervisors : supervisor[s].at = "running" => stateFile.restarts < MaxRestarts

(* There is one supervisor. *)
OneSupervisor == \A s, t \in Supervisors : s = t

(* What a supervisor waits for after a step. *)
LEMMA Waits ==
    ASSUME SupervisorTypeOK, NEW s \in Supervisors, NEW at, NEW state, WaitsAt(s, at, state),
           OneSupervisor
    PROVE  \A t \in Supervisors : supervisor'[t] = [at |-> at, state |-> state]
<1> QED
  BY DEF SupervisorTypeOK, WaitsAt, OneSupervisor

(* A supervisor that exits is off. *)
LEMMA Exited ==
    ASSUME SupervisorTypeOK, NEW s \in Supervisors, Exits(s), OneSupervisor
    PROVE  /\ \A t \in Supervisors : supervisor'[t].at = "off"
           /\ supervisor' \in [Supervisors ->
                [at : {"off", "running", "healing", "waking", "healed"}, state : Tallies]]
<1> QED
  BY DEF SupervisorTypeOK, WaitsAt, OneSupervisor, Exits, NoTallies, Tallies

(* The application is run, or the limit reached. *)
LEMMA RunsKeeps ==
    ASSUME SupervisorAssumption, OneSupervisor, RecoveryInv, NEW s \in Supervisors, Runs(s),
           UNCHANGED <<stateFile, crashes, wakes>>, starts' \in 0..MaxRuns
    PROVE  RecoveryInv'
<1>1. SupervisorTypeOK /\ RecoveryBounded /\ Covered(stateFile)
  BY DEF RecoveryInv
<1>2. CASE stateFile.restarts >= MaxRestarts /\ Exits(s)
  BY <1>1, <1>2, Exited DEF RecoveryInv, SupervisorTypeOK, RecoveryBounded, Covered
<1>3. CASE ~(stateFile.restarts >= MaxRestarts) /\ WaitsAt(s, "running", stateFile)
  <2>1. \A t \in Supervisors : supervisor'[t] = [at |-> "running", state |-> stateFile]
    BY <1>1, <1>3, Waits
  <2>2. stateFile.restarts < MaxRestarts
    BY <1>1, <1>3 DEF SupervisorTypeOK, Tallies, SupervisorAssumption
  <2>3. SupervisorTypeOK'
    BY <1>1, <1>3 DEF SupervisorTypeOK, WaitsAt
  <2>4. RecoveryBounded' /\ Covered(stateFile)'
    BY <1>1 DEF RecoveryBounded, Covered
  <2> QED
    BY <1>1, <2>1, <2>2, <2>3, <2>4 DEF RecoveryInv, Covered
<1> QED
  BY <1>2, <1>3 DEF Runs

(* The agent is woken, which is counted, or the supervisor gives up. *)
LEMMA WakesKeeps ==
    ASSUME SupervisorAssumption, OneSupervisor, RecoveryInv, NEW s \in Supervisors,
           NEW state \in Tallies, Wakes(s, state),
           starts' = starts, crashes' \in Nat, crashes' <= state.restarts, crashes' <= MaxRestarts,
           wakes <= state.wakes
    PROVE  RecoveryInv'
<1>1. SupervisorTypeOK /\ RecoveryBounded
  BY DEF RecoveryInv
<1>2. CASE state.wakes < MaxWakes
  <2> DEFINE noted == [state EXCEPT !.wakes = @ + 1]
  <2>1. noted \in Tallies /\ noted.restarts = state.restarts /\ noted.wakes = state.wakes + 1
    BY DEF Tallies
  <2>2. stateFile' = noted /\ WaitsAt(s, "waking", noted) /\ wakes' = wakes + 1
    BY <1>2 DEF Wakes
  <2> HIDE DEF noted
  <2>3. \A t \in Supervisors : supervisor'[t] = [at |-> "waking", state |-> noted]
    BY <1>1, <2>2, Waits
  <2>4. SupervisorTypeOK'
    BY <1>1, <2>1, <2>2 DEF SupervisorTypeOK, WaitsAt
  <2>5. wakes' <= noted.wakes /\ wakes' <= MaxWakes
    BY <1>1, <1>2, <2>1, <2>2 DEF SupervisorTypeOK, Tallies, SupervisorAssumption
  <2>6. RecoveryBounded' /\ Covered(stateFile)'
    BY <2>1, <2>2, <2>5 DEF RecoveryBounded, Covered
  <2> QED
    BY <2>1, <2>3, <2>4, <2>5, <2>6 DEF RecoveryInv, Covered
<1>3. CASE ~(state.wakes < MaxWakes)
  <2>1. stateFile' = state /\ Exits(s) /\ UNCHANGED wakes
    BY <1>3 DEF Wakes
  <2>2. SupervisorTypeOK' /\ \A t \in Supervisors : supervisor'[t].at = "off"
    BY <1>1, <2>1, Exited DEF SupervisorTypeOK
  <2>3. RecoveryBounded' /\ Covered(stateFile)'
    BY <1>1, <2>1 DEF RecoveryBounded, Covered
  <2> QED
    BY <2>2, <2>3 DEF RecoveryInv
<1> QED
  BY <1>2, <1>3

(* Every step keeps the tallies above what is counted. *)
LEMMA RecoveryInvKept ==
    ASSUME SupervisorAssumption, OneSupervisor, RecoveryInv, [SupervisorNext]_supervisorVars
    PROVE  RecoveryInv'
<1>1. SupervisorTypeOK /\ RecoveryBounded /\ Covered(stateFile) /\ NoTallies \in Tallies
      /\ NoTallies.restarts = 0 /\ NoTallies.wakes = 0
  BY DEF RecoveryInv, NoTallies, Tallies
<1>2. ASSUME NEW s \in Supervisors, StartSupervisor(s) PROVE RecoveryInv'
  <2>1. starts' \in 0..MaxRuns
    BY <1>1, <1>2 DEF StartSupervisor, SupervisorTypeOK, SupervisorAssumption
  <2> QED
    BY <1>2, <2>1, RunsKeeps DEF StartSupervisor
<1>3. ASSUME NEW s \in Supervisors, Restarts(s) PROVE RecoveryInv'
  BY <1>1, <1>3, RunsKeeps DEF Restarts, SupervisorTypeOK
<1>4. ASSUME NEW s \in Supervisors, EndsBySignal(s) PROVE RecoveryInv'
  <2>1. SupervisorTypeOK' /\ \A t \in Supervisors : supervisor'[t].at = "off"
    BY <1>1, <1>4, Exited DEF EndsBySignal, SupervisorTypeOK
  <2> QED
    BY <1>1, <1>4, <2>1 DEF EndsBySignal, RecoveryInv, RecoveryBounded, Covered, SupervisorAssumption
<1>5. ASSUME NEW s \in Supervisors, EndsStable(s) PROVE RecoveryInv'
  <2> DEFINE tallies == [supervisor[s].state EXCEPT !.restarts = 0]
  <2>1. supervisor[s].state \in Tallies /\ Covered(supervisor[s].state)
    BY <1>1, <1>5 DEF EndsStable, RecoveryInv, SupervisorTypeOK
  <2>2. tallies \in Tallies /\ tallies.restarts = 0 /\ tallies.wakes = supervisor[s].state.wakes
    BY <2>1 DEF Tallies
  <2>3. stateFile' = tallies /\ Exits(s) /\ crashes' = 0 /\ UNCHANGED <<starts, wakes>>
    BY <1>5 DEF EndsStable
  <2> HIDE DEF tallies
  <2>4. SupervisorTypeOK' /\ \A t \in Supervisors : supervisor'[t].at = "off"
    BY <1>1, <2>2, <2>3, Exited DEF SupervisorTypeOK
  <2>5. RecoveryBounded' /\ Covered(stateFile)'
    BY <1>1, <2>1, <2>2, <2>3 DEF RecoveryBounded, Covered, SupervisorAssumption
  <2> QED
    BY <2>4, <2>5 DEF RecoveryInv
<1>6. ASSUME NEW s \in Supervisors, Crashes(s) PROVE RecoveryInv'
  <2> DEFINE state == [stateFile EXCEPT !.restarts = @ + 1]
  <2>1. stateFile \in Tallies /\ stateFile.restarts < MaxRestarts /\ crashes \in Nat /\ wakes \in Nat
    BY <1>1, <1>6 DEF Crashes, RecoveryInv, SupervisorTypeOK
  <2>2. state \in Tallies /\ state.restarts = stateFile.restarts + 1 /\ state.wakes = stateFile.wakes
    BY <2>1 DEF Tallies
  <2>3. /\ \/ stateFile' = state /\ WaitsAt(s, "healing", state) /\ UNCHANGED wakes
           \/ Wakes(s, state)
        /\ crashes' = crashes + 1 /\ starts' = starts
    BY <1>6 DEF Crashes
  <2> HIDE DEF state
  <2>4. /\ crashes' \in Nat /\ crashes' <= state.restarts /\ crashes' <= MaxRestarts
        /\ wakes <= state.wakes
    BY <1>1, <2>1, <2>2, <2>3 DEF Covered, Tallies, SupervisorAssumption
  <2>5. CASE stateFile' = state /\ WaitsAt(s, "healing", state) /\ UNCHANGED wakes
    <3>1. \A t \in Supervisors : supervisor'[t] = [at |-> "healing", state |-> state]
      BY <1>1, <2>5, Waits
    <3>2. SupervisorTypeOK'
      BY <1>1, <2>2, <2>3, <2>4, <2>5 DEF SupervisorTypeOK, WaitsAt
    <3>3. RecoveryBounded' /\ Covered(stateFile)'
      BY <1>1, <2>4, <2>5 DEF RecoveryBounded, Covered
    <3> QED
      BY <2>4, <2>5, <3>1, <3>2, <3>3 DEF RecoveryInv, Covered
  <2>6. CASE Wakes(s, state)
    BY <2>2, <2>3, <2>4, <2>6, WakesKeeps
  <2> QED
    BY <2>3, <2>5, <2>6
<1>7. ASSUME NEW s \in Supervisors, Heals(s) PROVE RecoveryInv'
  <2>1. supervisor[s].state \in Tallies /\ Covered(supervisor[s].state)
    BY <1>1, <1>7 DEF Heals, RecoveryInv, SupervisorTypeOK
  <2>2. /\ stateFile' = supervisor[s].state /\ WaitsAt(s, "healed", supervisor[s].state)
        /\ UNCHANGED <<starts, crashes, wakes>>
    BY <1>7 DEF Heals
  <2>3. \A t \in Supervisors : supervisor'[t] = [at |-> "healed", state |-> supervisor[s].state]
    BY <1>1, <2>2, Waits
  <2>4. SupervisorTypeOK'
    BY <1>1, <2>1, <2>2 DEF SupervisorTypeOK, WaitsAt
  <2>5. RecoveryBounded' /\ Covered(stateFile)'
    BY <1>1, <2>1, <2>2 DEF RecoveryBounded, Covered
  <2> QED
    BY <2>1, <2>2, <2>3, <2>4, <2>5 DEF RecoveryInv, Covered
<1>8. ASSUME NEW s \in Supervisors, HealingFails(s) PROVE RecoveryInv'
  <2>1. supervisor[s].state \in Tallies /\ Covered(supervisor[s].state)
    BY <1>1, <1>8 DEF HealingFails, RecoveryInv, SupervisorTypeOK
  <2>2. Wakes(s, supervisor[s].state) /\ starts' = starts /\ crashes' = crashes
    BY <1>8 DEF HealingFails
  <2> QED
    BY <1>1, <2>1, <2>2, WakesKeeps DEF Covered, RecoveryBounded, SupervisorTypeOK
<1>9. ASSUME NEW s \in Supervisors, WakingFails(s) \/ SupervisorKilled(s) PROVE RecoveryInv'
  <2>1. Exits(s) /\ UNCHANGED <<stateFile, starts, crashes, wakes>>
    BY <1>9 DEF WakingFails, SupervisorKilled
  <2>2. SupervisorTypeOK' /\ \A t \in Supervisors : supervisor'[t].at = "off"
    BY <1>1, <2>1, Exited DEF SupervisorTypeOK
  <2> QED
    BY <1>1, <2>1, <2>2 DEF RecoveryInv, RecoveryBounded, Covered
<1>10. CASE ResetByHand
  <2>1. SupervisorTypeOK' /\ RecoveryBounded' /\ Covered(stateFile)'
    BY <1>1, <1>10 DEF ResetByHand, SupervisorTypeOK, RecoveryBounded, Covered, SupervisorAssumption
  <2>2. ASSUME NEW s \in Supervisors, supervisor'[s].at # "off"
        PROVE  Covered(supervisor[s].state)'
    BY <1>1, <1>10, <2>2 DEF ResetByHand, SupervisorTypeOK, Covered, Tallies
  <2>3. ASSUME NEW s \in Supervisors, supervisor'[s].at = "running"
        PROVE  stateFile'.restarts < MaxRestarts
    <3>1. stateFile.restarts < MaxRestarts /\ stateFile.restarts \in Nat
      BY <1>1, <1>10, <2>3 DEF ResetByHand, RecoveryInv, SupervisorTypeOK, Tallies
    <3> QED
      BY <1>1, <1>10, <3>1 DEF ResetByHand, SupervisorAssumption
  <2> QED
    BY <2>1, <2>2, <2>3 DEF RecoveryInv
<1>11. CASE UNCHANGED supervisorVars
  BY <1>11 DEF supervisorVars, RecoveryInv, SupervisorTypeOK, RecoveryBounded, Covered
<1> QED
  BY <1>2, <1>3, <1>4, <1>5, <1>6, <1>7, <1>8, <1>9, <1>10, <1>11 DEF SupervisorNext

(***************************************************************************)
(* Since the counts were reset the application has crashed at most         *)
(* MaxRestarts times and the agent was woken at most MaxWakes times, when  *)
(* one supervisor runs (monorepo-supervisor.mjs takes no lock of its file).*)
(***************************************************************************)
THEOREM RecoveryIsBounded ==
    ASSUME OneSupervisor PROVE SupervisorSpec => []RecoveryBounded
<1>1. SupervisorInit => RecoveryInv
  BY SupervisorAssumption DEF SupervisorAssumption, SupervisorInit, RecoveryInv, SupervisorTypeOK,
     RecoveryBounded, Covered, NoTallies, Tallies
<1>2. RecoveryInv /\ [SupervisorNext]_supervisorVars => RecoveryInv'
  BY SupervisorAssumption, RecoveryInvKept
<1>3. RecoveryInv => RecoveryBounded
  BY DEF RecoveryInv
<1> QED
  BY <1>1, <1>2, <1>3, PTL DEF SupervisorSpec

(* The tallies that are written. *)
LEMMA TalliesTyped ==
    /\ NoTallies \in Tallies
    /\ \A state \in Tallies : /\ [state EXCEPT !.restarts = 0] \in Tallies
                              /\ [state EXCEPT !.restarts = @ + 1] \in Tallies
                              /\ [state EXCEPT !.wakes = @ + 1] \in Tallies
  BY DEF NoTallies, Tallies

(* Where a supervisor waits, its type is kept. *)
LEMMA WaitsTyped ==
    ASSUME SupervisorTypeOK, NEW s \in Supervisors, NEW state \in Tallies,
           NEW at \in {"off", "running", "healing", "waking", "healed"}, WaitsAt(s, at, state)
    PROVE  supervisor' \in [Supervisors ->
              [at : {"off", "running", "healing", "waking", "healed"}, state : Tallies]]
  BY DEF SupervisorTypeOK, WaitsAt

(* Every step keeps the types, of any number of supervisors. *)
LEMMA SupervisorTypeKept ==
    ASSUME SupervisorAssumption, SupervisorTypeOK, [SupervisorNext]_supervisorVars
    PROVE  SupervisorTypeOK'
<1> DEFINE Waiting == supervisor' \in [Supervisors ->
                         [at : {"off", "running", "healing", "waking", "healed"}, state : Tallies]]
<1>1. /\ stateFile \in Tallies /\ starts \in 0..MaxRuns /\ crashes \in Nat /\ wakes \in Nat
      /\ \A s \in Supervisors : supervisor[s].state \in Tallies
  BY DEF SupervisorTypeOK
<1>2. ASSUME NEW s \in Supervisors, Exits(s) PROVE Waiting
  BY <1>2, TalliesTyped, WaitsTyped DEF Exits
<1>3. ASSUME NEW s \in Supervisors, Runs(s) PROVE Waiting
  BY <1>1, <1>2, <1>3, WaitsTyped DEF Runs
<1>4. ASSUME NEW s \in Supervisors, NEW state \in Tallies, Wakes(s, state)
      PROVE  stateFile' \in Tallies /\ Waiting /\ wakes' \in Nat
  <2> DEFINE noted == [state EXCEPT !.wakes = @ + 1]
  <2>1. noted \in Tallies
    BY TalliesTyped
  <2>2. \/ stateFile' = noted /\ WaitsAt(s, "waking", noted) /\ wakes' = wakes + 1
        \/ stateFile' = state /\ Exits(s) /\ UNCHANGED wakes
    BY <1>4 DEF Wakes
  <2> HIDE DEF noted
  <2> QED
    BY <1>1, <1>2, <2>1, <2>2, WaitsTyped
<1>5. ASSUME NEW s \in Supervisors, StartSupervisor(s) PROVE SupervisorTypeOK'
  <2>1. Runs(s) /\ starts < MaxRuns /\ starts' = starts + 1 /\ UNCHANGED <<stateFile, crashes, wakes>>
    BY <1>5 DEF StartSupervisor
  <2>2. starts' \in 0..MaxRuns
    BY <1>1, <2>1 DEF SupervisorAssumption
  <2> QED
    BY <1>1, <1>3, <2>1, <2>2 DEF SupervisorTypeOK
<1>6. ASSUME NEW s \in Supervisors, EndsBySignal(s) PROVE SupervisorTypeOK'
  BY <1>1, <1>2, <1>6, TalliesTyped DEF EndsBySignal, SupervisorTypeOK
<1>7. ASSUME NEW s \in Supervisors, EndsStable(s) PROVE SupervisorTypeOK'
  BY <1>1, <1>2, <1>7, TalliesTyped DEF EndsStable, SupervisorTypeOK
<1>8. ASSUME NEW s \in Supervisors, Crashes(s) PROVE SupervisorTypeOK'
  <2> DEFINE state == [stateFile EXCEPT !.restarts = @ + 1]
  <2>1. state \in Tallies
    BY <1>1, TalliesTyped
  <2>2. /\ \/ stateFile' = state /\ WaitsAt(s, "healing", state) /\ UNCHANGED wakes
           \/ Wakes(s, state)
        /\ crashes' = crashes + 1 /\ starts' = starts
    BY <1>8 DEF Crashes
  <2> HIDE DEF state
  <2>3. stateFile' \in Tallies /\ Waiting /\ wakes' \in Nat
    BY <1>1, <1>4, <2>1, <2>2, WaitsTyped
  <2> QED
    BY <1>1, <2>2, <2>3 DEF SupervisorTypeOK
<1>9. ASSUME NEW s \in Supervisors, Heals(s) PROVE SupervisorTypeOK'
  BY <1>1, <1>9, WaitsTyped DEF Heals, SupervisorTypeOK
<1>10. ASSUME NEW s \in Supervisors, HealingFails(s) PROVE SupervisorTypeOK'
  BY <1>1, <1>4, <1>10 DEF HealingFails, SupervisorTypeOK
<1>11. ASSUME NEW s \in Supervisors, WakingFails(s) \/ SupervisorKilled(s) PROVE SupervisorTypeOK'
  BY <1>1, <1>2, <1>11 DEF WakingFails, SupervisorKilled, SupervisorTypeOK
<1>12. ASSUME NEW s \in Supervisors, Restarts(s) PROVE SupervisorTypeOK'
  BY <1>1, <1>3, <1>12 DEF Restarts, SupervisorTypeOK
<1>13. CASE ResetByHand
  BY <1>13, TalliesTyped DEF ResetByHand, SupervisorTypeOK
<1>14. CASE UNCHANGED supervisorVars
  BY <1>14 DEF supervisorVars, SupervisorTypeOK
<1> QED
  BY <1>5, <1>6, <1>7, <1>8, <1>9, <1>10, <1>11, <1>12, <1>13, <1>14 DEF SupervisorNext

(* Every variable of the supervisors keeps to its type, were there several. *)
THEOREM SupervisorTypeCorrect == SupervisorSpec => []SupervisorTypeOK
<1>1. SupervisorInit => SupervisorTypeOK
  BY SupervisorAssumption, TalliesTyped DEF SupervisorAssumption, SupervisorInit, SupervisorTypeOK
<1>2. SupervisorTypeOK /\ [SupervisorNext]_supervisorVars => SupervisorTypeOK'
  BY SupervisorAssumption, SupervisorTypeKept
<1> QED
  BY <1>1, <1>2, PTL DEF SupervisorSpec

-----------------------------------------------------------------------------
(***************************************************************************)
(* The Modbus connections.  The assumption is used from here on.           *)
(***************************************************************************)
USE ModbusAssumption DEF ModbusAssumption

(* A new client is one nothing refers to. *)
LEMMA NewClientIsFree ==
    Free # {} => NewClient \in Free /\ NewClient \in Ids
  BY DEF NewClient, Free

(* The records of a client and of a call that the handlers write. *)
LEMMA Records ==
    /\ Gone \in Client
    /\ [Gone EXCEPT !.at = "dialling"] \in Client
    /\ NoCall \in Call
    /\ \A k \in Ids, reads \in BOOLEAN :
          [at |-> "dialling", on |-> k, then |-> "return", reads |-> reads] \in Call
    /\ \A x \in Client : /\ Erring(x) \in Client
                         /\ [x EXCEPT !.at = "closed"] \in Client
                         /\ [x EXCEPT !.at = "down"] \in Client
                         /\ [x EXCEPT !.errors = 0] \in Client
<1>1. Gone \in Client
  BY DEF Gone, Client
<1>2. [Gone EXCEPT !.at = "dialling"] \in Client
  BY <1>1 DEF Client
<1>3. NoCall \in Call
  BY DEF NoCall, Call
<1>4. ASSUME NEW k \in Ids, NEW reads \in BOOLEAN
      PROVE  [at |-> "dialling", on |-> k, then |-> "return", reads |-> reads] \in Call
  BY DEF Call, Ids
<1>5. ASSUME NEW x \in Client
      PROVE  Erring(x) \in Client
  BY DEF Client, Erring
<1>6. ASSUME NEW x \in Client
      PROVE  /\ [x EXCEPT !.at = "closed"] \in Client
             /\ [x EXCEPT !.at = "down"] \in Client
             /\ [x EXCEPT !.errors = 0] \in Client
  BY DEF Client
<1> QED
  BY <1>1, <1>2, <1>3, <1>4, <1>5, <1>6

(* What connect() does to the types. *)
LEMMA ConnectTypes ==
    ASSUME ModbusTypeOK, NEW c \in Callers, NEW reads \in BOOLEAN, Free # {}, Connect(c, reads)
    PROVE  /\ client' \in [Ids -> Client]
           /\ registered' \in 0..MaxClients
           /\ running' \subseteq Ids
           /\ call' \in [Callers -> Call]
  <1>1. CASE entry = 0
    BY <1>1, NewClientIsFree, Records DEF Connect, Dials, ModbusTypeOK
  <1>2. CASE entry # 0
    <2>1. [at |-> "closing", on |-> entry, then |-> "connect", reads |-> reads] \in Call
      BY DEF Call, ModbusTypeOK
    <2> QED
      BY <1>2, <2>1 DEF Connect, Disconnects, ModbusTypeOK
  <1> QED
    BY <1>1, <1>2

(* Counting an error keeps the clients within their type. *)
LEMMA ErrsType ==
    ASSUME ModbusTypeOK, NEW k \in Ids
    PROVE  Errs(k) \in [Ids -> Client]
<1>1. client \in [Ids -> Client] /\ Erring(client[k]) \in Client
  BY Records DEF ModbusTypeOK
<1> QED
  BY <1>1 DEF Errs

(* A timer more. *)
LEMMA SchedulesType ==
    ModbusTypeOK /\ Schedules => timers' \in 0..MaxTimers
  BY DEF Schedules, ModbusTypeOK

(* What is dialled is a client, so that an interval has one to poll. *)
DialsAClient == \A c \in Callers : call[c].at = "dialling" => call[c].on \in Ids

(* Only a new client is dialled. *)
LEMMA DialsKept ==
    ModbusTypeOK /\ DialsAClient /\ [ModbusNext]_modbusVars => DialsAClient'
<1> SUFFICES ASSUME ModbusTypeOK, DialsAClient, [ModbusNext]_modbusVars,
                    NEW d \in Callers, call'[d].at = "dialling"
             PROVE  call'[d].on \in Ids
  BY DEF DialsAClient
<1> USE DEF DialsAClient
<1>1. ASSUME NEW c \in Callers, NEW reads \in BOOLEAN, Free # {}, Connect(c, reads)
      PROVE  call'[d].on \in Ids
  BY <1>1, NewClientIsFree DEF Connect, Dials, Disconnects, ModbusTypeOK
<1>2. ASSUME NEW c \in Callers, DeleteConnection(c)
      PROVE  call'[d].on \in Ids
  BY <1>2 DEF DeleteConnection, Disconnects, ModbusTypeOK
<1>3. ASSUME NEW c \in Callers, CloseDone(c)
      PROVE  call'[d].on \in Ids
  <2>1. CASE call[c].then = "connect" /\ Free # {}
    BY <1>3, <2>1, NewClientIsFree DEF CloseDone, ModbusTypeOK
  <2>2. CASE ~(call[c].then = "connect" /\ Free # {})
    BY <1>3, <2>2 DEF CloseDone, ModbusTypeOK, NoCall
  <2> QED
    BY <2>1, <2>2
<1>4. ASSUME NEW c \in Callers, Dialled(c) \/ DialFails(c)
      PROVE  call'[d].on \in Ids
  BY <1>4 DEF Dialled, DialFails, ModbusTypeOK, NoCall
<1>5. CASE UNCHANGED call
  BY <1>5
<1> QED
  BY <1>1, <1>2, <1>3, <1>4, <1>5
     DEF ModbusNext, modbusVars, PostConnect, DeleteInterval, TimerFires, Poll, PollSucceeds, PollFails, LinkBreaks

(* Every variable keeps to its type. *)
LEMMA TypeKept ==
    ModbusTypeOK /\ DialsAClient /\ [ModbusNext]_modbusVars => ModbusTypeOK'
<1> SUFFICES ASSUME ModbusTypeOK, DialsAClient, [ModbusNext]_modbusVars PROVE ModbusTypeOK'
  OBVIOUS
<1>1. ASSUME NEW c \in Callers, NEW reads \in BOOLEAN, PostConnect(c, reads)
      PROVE  ModbusTypeOK'
  <2>1. overlapped' \in BOOLEAN
    BY <1>1 DEF PostConnect, Begins, ModbusTypeOK
  <2> QED
    BY <1>1, <2>1, ConnectTypes DEF PostConnect, ModbusTypeOK
<1>2. ASSUME NEW c \in Callers, DeleteConnection(c)
      PROVE  ModbusTypeOK'
  <2>1. [at |-> "closing", on |-> entry, then |-> "return", reads |-> FALSE] \in Call
    BY DEF Call, ModbusTypeOK
  <2>2. overlapped' \in BOOLEAN
    BY <1>2 DEF DeleteConnection, Begins, ModbusTypeOK
  <2>3. /\ registered' \in 0..MaxClients
        /\ running' \subseteq Ids
        /\ call' \in [Callers -> Call]
    BY <1>2, <2>1 DEF DeleteConnection, Disconnects, ModbusTypeOK
  <2> QED
    BY <1>2, <2>2, <2>3 DEF DeleteConnection, ModbusTypeOK
<1>3. ASSUME NEW c \in Callers, TimerFires(c)
      PROVE  ModbusTypeOK'
  <2>1. timers' \in 0..MaxTimers
    BY <1>3 DEF TimerFires, ModbusTypeOK
  <2>2. CASE entry # 0 /\ ~client[entry].connected
    <3>1. overlapped' \in BOOLEAN
      BY <1>3, <2>2 DEF TimerFires, Begins, ModbusTypeOK
    <3> QED
      BY <1>3, <2>1, <2>2, <3>1, ConnectTypes DEF TimerFires, ModbusTypeOK
  <2>3. CASE ~(entry # 0 /\ ~client[entry].connected)
    BY <1>3, <2>1, <2>3 DEF TimerFires, ModbusTypeOK
  <2> QED
    BY <2>2, <2>3
<1>4. ASSUME NEW c \in Callers, CloseDone(c)
      PROVE  ModbusTypeOK'
  <2> DEFINE gone == [client EXCEPT ![call[c].on].at = "closed"]
  <2>1. gone \in [Ids -> Client]
    BY Records DEF ModbusTypeOK
  <2>2. CASE call[c].then = "connect" /\ Free # {}
    <3>1. client' \in [Ids -> Client]
      BY <1>4, <2>1, <2>2, NewClientIsFree, Records DEF CloseDone
    <3>2. call[c].reads \in BOOLEAN
      BY DEF ModbusTypeOK, Call
    <3>3. call' \in [Callers -> Call]
      BY <1>4, <2>2, <3>2, NewClientIsFree, Records DEF CloseDone, ModbusTypeOK
    <3> QED
      BY <1>4, <3>1, <3>3 DEF CloseDone, ModbusTypeOK
  <2>3. CASE ~(call[c].then = "connect" /\ Free # {})
    BY <1>4, <2>1, <2>3, Records DEF CloseDone, ModbusTypeOK
  <2> QED
    BY <2>2, <2>3
<1>5. ASSUME NEW c \in Callers, Dialled(c)
      PROVE  ModbusTypeOK'
  <2>1. call[c].on \in 0..MaxClients
    BY DEF ModbusTypeOK, Call
  <2>5. call[c].on \in Ids
    BY <1>5 DEF Dialled, DialsAClient
  <2>2. [at |-> "up", connected |-> TRUE, errors |-> 0] \in Client
    BY DEF Client
  <2>3. client' \in [Ids -> Client]
    BY <1>5, <2>2 DEF Dialled, ModbusTypeOK
  <2>4. call' \in [Callers -> Call]
    <3>1. NoCall \in Call
      BY Records
    <3>2. call' = [call EXCEPT ![c] = NoCall]
      BY <1>5 DEF Dialled
    <3> QED
      BY <3>1, <3>2 DEF ModbusTypeOK
  <2> QED
    BY <1>5, <2>1, <2>3, <2>4, <2>5 DEF Dialled, ModbusTypeOK
<1>6. ASSUME NEW c \in Callers, DialFails(c)
      PROVE  ModbusTypeOK'
  <2>1. timers' \in 0..MaxTimers
    BY <1>6, SchedulesType DEF DialFails
  <2>2. call' \in [Callers -> Call]
    BY <1>6, Records DEF DialFails, ModbusTypeOK
  <2>3. ASSUME NEW f \in [Ids -> Client], NEW k
        PROVE  [f EXCEPT ![k].at = "closed"] \in [Ids -> Client]
    BY Records
  <2>4. client' \in [Ids -> Client]
    <3>1. CASE entry = 0
      BY <1>6, <2>3, <3>1 DEF DialFails, ModbusTypeOK
    <3>2. CASE entry # 0
      <4>1. Errs(entry) \in [Ids -> Client]
        BY <3>2, ErrsType DEF ModbusTypeOK, Ids
      <4> QED
        BY <1>6, <2>3, <3>2, <4>1 DEF DialFails
    <3> QED
      BY <3>1, <3>2
  <2> QED
    BY <1>6, <2>1, <2>2, <2>4 DEF DialFails, ModbusTypeOK
<1>7. ASSUME NEW k \in Ids, Poll(k)
      PROVE  ModbusTypeOK'
  BY <1>7 DEF Poll, ModbusTypeOK
<1>11. ASSUME NEW k \in Ids, PollSucceeds(k)
      PROVE  ModbusTypeOK'
  <2>1. polls' \in [Ids -> 0..MaxPolls]
    BY <1>11 DEF PollSucceeds, ModbusTypeOK
  <2>2. client' \in [Ids -> Client]
    BY <1>11, Records DEF PollSucceeds, ModbusTypeOK
  <2> QED
    BY <1>11, <2>1, <2>2 DEF PollSucceeds, ModbusTypeOK
<1>8. ASSUME NEW k \in Ids, PollFails(k)
      PROVE  ModbusTypeOK'
  <2>1. polls' \in [Ids -> 0..MaxPolls]
    BY <1>8 DEF PollFails, ModbusTypeOK
  <2>2. timers' \in 0..MaxTimers
    BY <1>8, SchedulesType DEF PollFails, ModbusTypeOK
  <2> QED
    BY <1>8, <2>1, <2>2, ErrsType DEF PollFails, ModbusTypeOK
<1>9. ASSUME NEW k \in Ids, LinkBreaks(k)
      PROVE  ModbusTypeOK'
  <2>1. client' \in [Ids -> Client]
    BY <1>9, Records DEF LinkBreaks, ModbusTypeOK
  <2> QED
    BY <1>9, <2>1 DEF LinkBreaks, ModbusTypeOK
<1>10. CASE UNCHANGED modbusVars
  BY <1>10 DEF modbusVars, ModbusTypeOK
<1>12. CASE DeleteInterval
  BY <1>12 DEF DeleteInterval, ModbusTypeOK
<1> QED
  BY <1>1, <1>2, <1>3, <1>4, <1>5, <1>6, <1>7, <1>8, <1>9, <1>10, <1>11, <1>12 DEF ModbusNext

(* For any bounds, every variable keeps to its type. *)
THEOREM ModbusTypeCorrect == ModbusSpec => []ModbusTypeOK
<1>1. ASSUME ModbusInit PROVE ModbusTypeOK
  <2>1. client \in [Ids -> Client] /\ call \in [Callers -> Call]
    BY <1>1, Records DEF ModbusInit
  <2>2. polls \in [Ids -> 0..MaxPolls]
    BY <1>1 DEF ModbusInit
  <2>3. overlapped \in BOOLEAN
    BY <1>1 DEF ModbusInit
  <2> QED
    BY <1>1, <2>1, <2>2, <2>3 DEF ModbusInit, ModbusTypeOK
<1>2. ModbusInit => DialsAClient
  BY DEF ModbusInit, DialsAClient, NoCall
<1> QED
  BY <1>1, <1>2, DialsKept, TypeKept, PTL DEF ModbusSpec

-----------------------------------------------------------------------------
(***************************************************************************)
(* Why NothingLeaks holds: the one call under way closes the client of the *)
(* entry, its interval cleared, or dials while there is no entry.          *)
(***************************************************************************)
OneAtATime ==
    /\ \A c, d \in Callers : call[c].at # "idle" /\ call[d].at # "idle" => c = d
    /\ \A c \in Callers :
          /\ call[c].at = "closing" => call[c].on = entry /\ registered = 0
          /\ call[c].at = "dialling" => entry = 0 /\ call[c].on # 0
    /\ \A k \in Ids : client[k].at \in {"up", "down"} => k = entry
    /\ running \subseteq {registered}
    /\ registered = 0 => running = {}
    /\ registered \in {0, entry}

(* Until two of them overlap. *)
Quiet == ~overlapped => OneAtATime

(* A call that begins alone keeps the others idle. *)
LEMMA BeginsAlone ==
    ASSUME NEW c \in Callers, Begins(c), ~overlapped'
    PROVE  ~overlapped /\ \A d \in Callers : call[d].at = "idle"
  BY DEF Begins

(* What connect() does when no other call is under way. *)
LEMMA ConnectAlone ==
    ASSUME ModbusTypeOK, OneAtATime, NEW c \in Callers, NEW reads \in BOOLEAN,
           \A d \in Callers : call[d].at = "idle",
           Free # {}, Connect(c, reads), UNCHANGED entry
    PROVE  OneAtATime'
<1>1. CASE entry = 0
  <2>1. NewClient \in Ids /\ NewClient # 0
    BY NewClientIsFree DEF Ids
  <2>2. \A d \in Callers : call'[d].at # "idle" => d = c
    BY <1>1 DEF Connect, Dials, ModbusTypeOK
  <2>3. call'[c].at = "dialling" /\ call'[c].on = NewClient
    BY <1>1 DEF Connect, Dials, ModbusTypeOK
  <2>4. \A k \in Ids : client'[k].at \in {"up", "down"} => client[k].at \in {"up", "down"}
    BY <1>1 DEF Connect, Dials, ModbusTypeOK, Gone
  <2>5. UNCHANGED <<registered, running>>
    BY <1>1 DEF Connect
  <2> QED
    BY <1>1, <2>1, <2>2, <2>3, <2>4, <2>5 DEF OneAtATime
<1>2. CASE entry # 0
  <2>1. \A d \in Callers : call'[d].at # "idle" => d = c
    BY <1>2 DEF Connect, Disconnects, ModbusTypeOK
  <2>2. call'[c].at = "closing" /\ call'[c].on = entry
    BY <1>2 DEF Connect, Disconnects, ModbusTypeOK
  <2>3. registered' = 0 /\ running' = {} /\ client' = client
    BY <1>2 DEF Connect, Disconnects, OneAtATime
  <2> QED
    BY <1>2, <2>1, <2>2, <2>3 DEF OneAtATime
<1> QED
  BY <1>1, <1>2

(* A reading, an error or a broken link opens no client. *)
LEMMA NoClientOpens ==
    ASSUME OneAtATime, UNCHANGED <<entry, registered, running, call>>,
           \A k \in Ids : client'[k].at \in {"up", "down"} => client[k].at \in {"up", "down"}
    PROVE  OneAtATime'
  BY DEF OneAtATime

(* Counting an error does not change where a client stands. *)
LEMMA ErrsAt ==
    ASSUME ModbusTypeOK, NEW k \in Ids, NEW j \in Ids
    PROVE  Errs(k)[j].at = client[j].at
  BY DEF Errs, Erring, ModbusTypeOK

(* Quiet is inductive. *)
LEMMA QuietKept ==
    ModbusTypeOK /\ Quiet /\ [ModbusNext]_modbusVars => Quiet'
<1> SUFFICES ASSUME ModbusTypeOK, Quiet, [ModbusNext]_modbusVars, ~overlapped'
             PROVE  OneAtATime'
  BY DEF Quiet
<1>1. ASSUME NEW c \in Callers, NEW reads \in BOOLEAN, PostConnect(c, reads)
      PROVE  OneAtATime'
  BY <1>1, BeginsAlone, ConnectAlone DEF PostConnect, Quiet
<1>2. ASSUME NEW c \in Callers, DeleteConnection(c)
      PROVE  OneAtATime'
  <2>1. OneAtATime /\ \A d \in Callers : call[d].at = "idle"
    BY <1>2, BeginsAlone DEF DeleteConnection, Quiet
  <2>2. \A d \in Callers : call'[d].at # "idle" => d = c
    BY <1>2, <2>1 DEF DeleteConnection, Disconnects, ModbusTypeOK
  <2>3. call'[c].at = "closing" /\ call'[c].on = entry
    BY <1>2 DEF DeleteConnection, Disconnects, ModbusTypeOK
  <2>4. registered' = 0 /\ running' = {} /\ client' = client /\ entry' = entry
    BY <1>2, <2>1 DEF DeleteConnection, Disconnects, OneAtATime
  <2> QED
    BY <2>1, <2>2, <2>3, <2>4 DEF OneAtATime
<1>3. ASSUME NEW c \in Callers, TimerFires(c)
      PROVE  OneAtATime'
  <2>1. CASE entry # 0 /\ ~client[entry].connected
    BY <1>3, <2>1, BeginsAlone, ConnectAlone DEF TimerFires, Quiet
  <2>2. CASE ~(entry # 0 /\ ~client[entry].connected)
    BY <1>3, <2>2 DEF TimerFires, Quiet, OneAtATime
  <2> QED
    BY <2>1, <2>2
<1>4. ASSUME NEW c \in Callers, CloseDone(c)
      PROVE  OneAtATime'
  <2>1. OneAtATime /\ call[c].at = "closing" /\ call[c].on = entry
    BY <1>4 DEF CloseDone, Quiet, OneAtATime
  <2>2. registered' = 0 /\ running' = {} /\ entry' = 0
    BY <1>4, <2>1 DEF CloseDone, OneAtATime
  <2>3. \A d \in Callers : call'[d].at # "idle" => d = c
    BY <1>4, <2>1 DEF CloseDone, OneAtATime, ModbusTypeOK
  <2>4. \A k \in Ids : client'[k].at \notin {"up", "down"}
    <3> DEFINE gone == [client EXCEPT ![call[c].on].at = "closed"]
    <3>1. \A k \in Ids : gone[k].at \notin {"up", "down"}
      BY <2>1 DEF OneAtATime, ModbusTypeOK, Client
    <3>2. gone \in [Ids -> Client]
      BY Records DEF ModbusTypeOK
    <3>3. client' = gone \/ client' = [gone EXCEPT ![NewClient] = [Gone EXCEPT !.at = "dialling"]]
      BY <1>4 DEF CloseDone
    <3>4. [Gone EXCEPT !.at = "dialling"].at = "dialling"
      BY DEF Gone
    <3> HIDE DEF gone
    <3> QED
      BY <3>1, <3>2, <3>3, <3>4
  <2>5. call'[c].at # "closing"
    <3>1. CASE call[c].then = "connect" /\ Free # {}
      BY <1>4, <3>1 DEF CloseDone, ModbusTypeOK
    <3>2. CASE ~(call[c].then = "connect" /\ Free # {})
      BY <1>4, <3>2 DEF CloseDone, ModbusTypeOK, NoCall
    <3> QED
      BY <3>1, <3>2
  <2>6. call'[c].at = "dialling" => call'[c].on # 0
    <3>1. CASE call[c].then = "connect" /\ Free # {}
      <4>1. call'[c].on = NewClient
        BY <1>4, <3>1 DEF CloseDone, ModbusTypeOK, Call
      <4> QED
        BY <3>1, <4>1, NewClientIsFree DEF Ids
    <3>2. CASE ~(call[c].then = "connect" /\ Free # {})
      BY <1>4, <3>2 DEF CloseDone, ModbusTypeOK, NoCall
    <3> QED
      BY <3>1, <3>2
  <2> QED
    BY <2>2, <2>3, <2>4, <2>5, <2>6 DEF OneAtATime
<1>5. ASSUME NEW c \in Callers, Dialled(c)
      PROVE  OneAtATime'
  <2> DEFINE k == call[c].on
  <2>1. OneAtATime /\ entry = 0 /\ k # 0 /\ running = {} /\ registered = 0
    BY <1>5 DEF Dialled, Quiet, OneAtATime
  <2>2. \A d \in Callers : call'[d].at = "idle"
    BY <1>5, <2>1 DEF Dialled, OneAtATime, ModbusTypeOK, NoCall
  <2>3. \A j \in Ids : client'[j].at \in {"up", "down"} => j = k
    BY <1>5, <2>1 DEF Dialled, OneAtATime, ModbusTypeOK, Ids
  <2>4. /\ entry' = k
        /\ \/ registered' = k /\ running' = {k}
           \/ registered' = 0 /\ running' = {}
    BY <1>5, <2>1 DEF Dialled
  <2> QED
    BY <2>1, <2>2, <2>3, <2>4 DEF OneAtATime
<1>6. ASSUME NEW c \in Callers, DialFails(c)
      PROVE  OneAtATime'
  <2>1. OneAtATime /\ entry = 0
    BY <1>6 DEF DialFails, Quiet, OneAtATime
  <2>2. \A d \in Callers : call'[d].at # "idle" => call'[d] = call[d]
    BY <1>6 DEF DialFails, ModbusTypeOK, NoCall
  <2>3. \A j \in Ids : client'[j].at \in {"up", "down"} => client[j].at \in {"up", "down"}
    BY <1>6, <2>1 DEF DialFails, ModbusTypeOK, Client
  <2>4. UNCHANGED <<entry, registered, running>>
    BY <1>6 DEF DialFails
  <2> QED
    BY <2>1, <2>2, <2>3, <2>4 DEF OneAtATime
<1>7. ASSUME NEW k \in Ids, Poll(k) \/ PollSucceeds(k) \/ LinkBreaks(k)
      PROVE  OneAtATime'
  <2>1. \A j \in Ids : client'[j].at \in {"up", "down"} => client[j].at \in {"up", "down"}
    BY <1>7 DEF Poll, PollSucceeds, LinkBreaks, ModbusTypeOK, Client
  <2> QED
    BY <1>7, <2>1, NoClientOpens DEF Poll, PollSucceeds, LinkBreaks, Quiet
<1>8. ASSUME NEW k \in Ids, PollFails(k)
      PROVE  OneAtATime'
  <2>1. \A j \in Ids : client'[j].at = client[j].at
    BY <1>8, ErrsAt DEF PollFails
  <2> QED
    BY <1>8, <2>1, NoClientOpens DEF PollFails, Quiet
<1>9. CASE UNCHANGED modbusVars
  BY <1>9 DEF modbusVars, Quiet, OneAtATime
<1>10. CASE DeleteInterval
  BY <1>10 DEF DeleteInterval, Quiet, OneAtATime
<1> QED
  BY <1>1, <1>2, <1>3, <1>4, <1>5, <1>6, <1>7, <1>8, <1>9, <1>10 DEF ModbusNext

(* connect() and disconnect() leak nothing as long as calls do not overlap. *)
THEOREM LeaksNothing == ModbusSpec => []NothingLeaks
<1>1. ModbusInit => Quiet
  BY DEF ModbusInit, Quiet, OneAtATime, Gone, NoCall
<1>2. Quiet => NothingLeaks
  BY DEF Quiet, OneAtATime, NothingLeaks
<1> QED
  BY <1>1, <1>2, QuietKept, ModbusTypeCorrect, PTL DEF ModbusSpec

-----------------------------------------------------------------------------
(***************************************************************************)
(* Side by side each mechanism of the server behaves as it does alone, so  *)
(* that what is proved of each holds of a behaviour of ServerSpec too.     *)
(***************************************************************************)
THEOREM MechanismsBehave ==
    ServerSpec => /\ HaulingSpec /\ SheetSpec /\ ModbusSpec
                  /\ ClientSpec /\ TelemetrySpec /\ SupervisorSpec
<1>1. ServerInit => /\ HaulingInit /\ SheetInit /\ ModbusInit
                    /\ ClientInit /\ TelemetryInit /\ SupervisorInit
  BY DEF ServerInit
<1>2. [ServerNext]_serverVars =>
         /\ [HaulingNext]_haulingVars /\ [SheetNext]_sheetVars /\ [ModbusNext]_modbusVars
         /\ [ClientNext]_clientVars /\ [TelemetryNext]_telemetryVars
         /\ [SupervisorNext]_supervisorVars
  BY DEF ServerNext, serverVars, Still
<1> QED
  BY <1>1, <1>2, PTL DEF ServerSpec, HaulingSpec, SheetSpec, ModbusSpec, ClientSpec,
     TelemetrySpec, SupervisorSpec

(* The variables of the part that steps, and of the others, keep to their types. *)
THEOREM ServerTypeCorrect == ServerSpec => []ServerTypeOK
<1>1. HaulingTypeOK /\ SheetTypeOK /\ ModbusTypeOK /\ ClientTypeOK /\ TelemetryTypeOK
         /\ SupervisorTypeOK => ServerTypeOK
  BY DEF ServerTypeOK
<1> QED
  BY <1>1, MechanismsBehave, HaulingTypeCorrect, SheetTypeCorrect, ModbusTypeCorrect,
     ClientTypeCorrect, TelemetryTypeCorrect, SupervisorTypeCorrect, PTL
=============================================================================
