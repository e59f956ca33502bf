----------------------------- MODULE RedisClient -----------------------------
(***************************************************************************)
(* The shared Redis client of a pod: the module variables of client.ts     *)
(* (`client`, `connecting`, `lastFailure`, the health check) and the       *)
(* ioredis objects that getRedisClient() creates.  An object goes on       *)
(* reconnecting in the background after its first attempt failed, and      *)
(* after its connection was lost, until its retries are used up.           *)
(***************************************************************************)
EXTENDS Naturals, FiniteSets

CONSTANT MaxObjects \* bound on the ioredis objects alive at once

ASSUME ObjectsAssumption == MaxObjects \in Nat \ {0}

VARIABLES
    object,     \* object[k]: the status of an ioredis object
    awaited,    \* the objects whose first connect() getRedisClient() awaits
    adopted,    \* `client`: an object, or 0
    connecting, \* the attempt whose promise `connecting` holds, or 0
    cooling,    \* Date.now() - lastFailure < 10_000
    pinged,     \* the object of healthCheckTimer, or 0
    quitting,   \* the object closeRedis() awaits quit() of, or 0
    disturbed   \* history: a connection failed or was lost, or closeRedis() was called

clientVars == <<object, awaited, adopted, connecting, cooling, pinged, quitting, disturbed>>

Objects == 1..MaxObjects

ClientTypeOK ==
    /\ object \in [Objects -> {"ended", "connecting", "ready", "reconnecting", "quit"}]
    /\ awaited \subseteq Objects
    /\ adopted \in 0..MaxObjects /\ connecting \in 0..MaxObjects
    /\ pinged \in 0..MaxObjects /\ quitting \in 0..MaxObjects
    /\ cooling \in BOOLEAN /\ disturbed \in BOOLEAN

ClientInit ==
    /\ object = [k \in Objects |-> "ended"]
    /\ awaited = {}
    /\ adopted = 0 /\ connecting = 0 /\ pinged = 0 /\ quitting = 0
    /\ cooling = FALSE /\ disturbed = FALSE

Becomes(k, status) == object' = [object EXCEPT ![k] = status]
Ready(k) == k # 0 /\ object[k] = "ready"

-----------------------------------------------------------------------------
(* Faulty variant: a caller does not join the attempt under way. *)
MayConnectAlone == ~Ready(adopted) /\ ~cooling

(* getRedisClient() returns the client, the promise, or the fallback. *)
MayConnect == ~Ready(adopted) /\ connecting = 0 /\ ~cooling

(* It starts an attempt with an object of its own. *)
GetRedisClient(k) ==
    /\ MayConnect
    /\ object[k] = "ended" /\ k \notin {adopted, pinged, quitting} \cup awaited
    /\ Becomes(k, "connecting")
    /\ awaited' = awaited \cup {k}
    /\ connecting' = k
    /\ UNCHANGED <<adopted, cooling, pinged, quitting, disturbed>>

(* Faulty variant: the promise stays when the attempt is over. *)
SettledForGood == UNCHANGED connecting

(* finally { connecting = null } *)
Settled == connecting' = 0

(* 'ready': health checks start, and the attempt adopts the object. *)
Connected(k) ==
    /\ object[k] = "connecting" /\ k \in awaited
    /\ Becomes(k, "ready")
    /\ awaited' = awaited \ {k}
    /\ adopted' = k
    /\ pinged' = k
    /\ Settled
    /\ UNCHANGED <<cooling, quitting, disturbed>>

(* The attempt fails and is forgotten; ioredis goes on trying with the object. *)
ConnectFails(k) ==
    /\ object[k] = "connecting" /\ k \in awaited
    /\ Becomes(k, "reconnecting")
    /\ awaited' = awaited \ {k}
    /\ cooling' = TRUE
    /\ pinged' = 0
    /\ Settled
    /\ disturbed' = TRUE
    /\ UNCHANGED <<adopted, quitting>>

CoolsDown ==
    /\ cooling
    /\ cooling' = FALSE
    /\ UNCHANGED <<object, awaited, adopted, connecting, pinged, quitting, disturbed>>

(* A lost connection is retried in the background, adopted or not. *)
ConnectionLost(k) ==
    /\ object[k] = "ready"
    /\ Becomes(k, "reconnecting")
    /\ disturbed' = TRUE
    /\ UNCHANGED <<awaited, adopted, connecting, cooling, pinged, quitting>>

Reconnected(k) ==
    /\ object[k] = "reconnecting"
    /\ Becomes(k, "ready")
    /\ pinged' = k
    /\ UNCHANGED <<awaited, adopted, connecting, cooling, quitting, disturbed>>

(***************************************************************************)
(* 'end', after the last retry of retryStrategy() or after quit(): the     *)
(* handler clears `connecting`, whosever attempt that is.                  *)
(***************************************************************************)
Ended(k) ==
    /\ object[k] \in {"reconnecting", "quit"}
    /\ Becomes(k, "ended")
    /\ adopted' = IF adopted = k THEN 0 ELSE adopted
    /\ connecting' = 0
    /\ quitting' = IF quitting = k THEN 0 ELSE quitting
    /\ UNCHANGED <<awaited, cooling, pinged, disturbed>>

(* The timer of an ended object pings nothing. *)
PingsNothing ==
    /\ pinged # 0 /\ object[pinged] = "ended"
    /\ pinged' = 0
    /\ UNCHANGED <<object, awaited, adopted, connecting, cooling, quitting, disturbed>>

(* closeRedis() awaits quit() of a ready client. *)
CloseRedis ==
    /\ pinged' = 0
    /\ disturbed' = TRUE
    /\ IF Ready(adopted)
         THEN quitting' = adopted /\ UNCHANGED connecting
         ELSE connecting' = 0 /\ UNCHANGED quitting
    /\ UNCHANGED <<object, awaited, adopted, cooling>>

(* quit() is answered, before the 'end' of the object. *)
QuitAnswered ==
    /\ Ready(quitting)
    /\ Becomes(quitting, "quit")
    /\ adopted' = 0
    /\ connecting' = 0
    /\ quitting' = 0
    /\ UNCHANGED <<awaited, cooling, pinged, disturbed>>

-----------------------------------------------------------------------------
ClientNext ==
    \/ CoolsDown \/ PingsNothing \/ CloseRedis \/ QuitAnswered
    \/ \E k \in Objects :
        \/ GetRedisClient(k) \/ Connected(k) \/ ConnectFails(k)
        \/ ConnectionLost(k) \/ Reconnected(k) \/ Ended(k)

ClientSpec == ClientInit /\ [][ClientNext]_clientVars

-----------------------------------------------------------------------------
(***************************************************************************)
(* "Get or create the singleton Redis client": callers that come while the *)
(* client is being created share the attempt, so there is one connection - *)
(* as long as none fails or is lost and closeRedis() is not called.  After *)
(* that objects nobody holds go on beside the one that is adopted.         *)
(***************************************************************************)
Singleton ==
    ~disturbed => Cardinality({k \in Objects : object[k] # "ended"}) <= 1

(***************************************************************************)
(* A caller never waits on, or is served by, an attempt that is over: what *)
(* `connecting` holds is under way, whichever objects fail, reconnect, end *)
(* or are closed meanwhile.                                                *)
(***************************************************************************)
AttemptUnderWay ==
    connecting # 0 => connecting \in awaited /\ object[connecting] = "connecting"
=============================================================================
