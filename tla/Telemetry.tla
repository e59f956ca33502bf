------------------------------ MODULE Telemetry ------------------------------
(***************************************************************************)
(* The values of one tag that POST /api/telemetry/push forwards to the     *)
(* SCADA server FUXA, and the two levels that keep an unchanged value from *)
(* being forwarded again: localLastValues of each pod, which nothing ever  *)
(* expires, and telemetry:last:<tag> in Redis.                             *)
(***************************************************************************)
EXTENDS Naturals

CONSTANTS
    Servers, \* the pods
    Pushes,  \* requests under way at once
    Values,  \* the readings of the tag
    NoValue

ASSUME TelemetryAssumption == NoValue \notin Values /\ Servers # {}

VARIABLES
    shown,     \* the value FUXA has
    local,     \* local[p]: localLastValues of a pod
    remote,    \* telemetry:last:<tag>
    push,      \* push[r]: a request under way
    uncertain  \* history: a value was forwarded in a way the levels may not follow

telemetryVars == <<shown, local, remote, push, uncertain>>

Value == Values \cup {NoValue}
Push == [at     : {"idle", "looking", "seen", "sending", "accepted", "storing"},
         server : Servers,
         value  : Value,
         seen   : Value]

NoPush == [at |-> "idle", server |-> CHOOSE p \in Servers : TRUE,
           value |-> NoValue, seen |-> NoValue]

TelemetryTypeOK ==
    /\ shown \in Value
    /\ local \in [Servers -> Value]
    /\ remote \in Value
    /\ push \in [Pushes -> Push]
    /\ uncertain \in BOOLEAN

TelemetryInit ==
    /\ shown = NoValue
    /\ local = [p \in Servers |-> NoValue]
    /\ remote = NoValue
    /\ push = [r \in Pushes |-> NoPush]
    /\ uncertain = FALSE

Goes(r, phase) == push' = [push EXCEPT ![r].at = phase]
Answered(r) == push' = [push EXCEPT ![r] = NoPush]

-----------------------------------------------------------------------------
(* A push with a value its pod remembers is answered at once. *)
Receive(r, p, v) ==
    /\ push[r].at = "idle"
    /\ local[p] # v
    /\ push' = [push EXCEPT ![r] = [at |-> "looking", server |-> p, value |-> v,
                                    seen |-> NoValue]]
    /\ UNCHANGED <<shown, local, remote, uncertain>>

(* getRedisLastValue(): null when Redis fails. *)
LookUp(r) ==
    /\ push[r].at = "looking"
    /\ \E seen \in {remote, NoValue} :
          push' = [push EXCEPT ![r].at = "seen", ![r].seen = seen]
    /\ uncertain' = (uncertain \/ \E q \in Pushes \ {r} : push[q].at \in {"accepted", "storing"})
    /\ UNCHANGED <<shown, local, remote>>

Unchanged(r) ==
    /\ push[r].at = "seen" /\ push[r].seen = push[r].value
    /\ local' = [local EXCEPT ![push[r].server] = push[r].value]
    /\ Answered(r)
    /\ UNCHANGED <<shown, remote, uncertain>>

Changed(r) ==
    /\ push[r].at = "seen" /\ push[r].seen # push[r].value
    /\ Goes(r, "sending")
    /\ UNCHANGED <<shown, local, remote, uncertain>>

(* What another pod, or another request on its way, holds of an older value. *)
Outdates(r) ==
    \/ \E p \in Servers \ {push[r].server} : local[p] # NoValue
    \/ \E q \in Pushes \ {r} : push[q].at \in {"seen", "accepted", "storing"}

FuxaAccepts(r) ==
    /\ push[r].at = "sending"
    /\ shown' = push[r].value
    /\ uncertain' = (uncertain \/ Outdates(r))
    /\ Goes(r, "accepted")
    /\ UNCHANGED <<local, remote>>

(* Refused or unreachable: a warning, and nothing is remembered. *)
FuxaRefuses(r) ==
    /\ push[r].at = "sending"
    /\ Answered(r)
    /\ UNCHANGED <<shown, local, remote, uncertain>>

(* Accepted, and the answer lost: taken for unreachable. *)
FuxaUnheard(r) ==
    /\ push[r].at = "sending"
    /\ shown' = push[r].value
    /\ uncertain' = TRUE
    /\ Answered(r)
    /\ UNCHANGED <<local, remote>>

(* Faulty variant: the local level is set only when it is empty. *)
RememberedFirst(p, v) == [local EXCEPT ![p] = IF @ = NoValue THEN v ELSE @]

Remembered(p, v) == [local EXCEPT ![p] = v]

Remember(r) ==
    LET p == push[r].server
    IN  /\ push[r].at = "accepted"
        /\ local' = Remembered(p, push[r].value)
        /\ Goes(r, "storing")
        /\ UNCHANGED <<shown, remote, uncertain>>

(* setRedisLastValue(): a failure is ignored. *)
StoreRemote(r) ==
    /\ push[r].at = "storing"
    /\ \/ remote' = push[r].value /\ UNCHANGED uncertain
       \/ uncertain' = TRUE /\ UNCHANGED remote
    /\ Answered(r)
    /\ UNCHANGED <<shown, local>>

(* 'EX', 86400 *)
ExpireRemote ==
    /\ remote # NoValue
    /\ remote' = NoValue
    /\ UNCHANGED <<shown, local, push, uncertain>>

(* A pod restarts: its level and its requests are gone. *)
Restart(p) ==
    LET lost == {r \in Pushes : push[r].at # "idle" /\ push[r].server = p}
    IN  /\ local' = [local EXCEPT ![p] = NoValue]
        /\ push' = [r \in Pushes |-> IF r \in lost THEN NoPush ELSE push[r]]
        /\ uncertain' = (uncertain \/ \E r \in lost : push[r].at \in {"accepted", "storing"})
        /\ UNCHANGED <<shown, remote>>

-----------------------------------------------------------------------------
TelemetryNext ==
    \/ ExpireRemote
    \/ \E p \in Servers : Restart(p)
    \/ \E r \in Pushes :
        \/ \E p \in Servers, v \in Values : Receive(r, p, v)
        \/ LookUp(r) \/ Unchanged(r) \/ Changed(r)
        \/ FuxaAccepts(r) \/ FuxaRefuses(r) \/ FuxaUnheard(r) \/ Remember(r) \/ StoreRemote(r)

TelemetrySpec == TelemetryInit /\ [][TelemetryNext]_telemetryVars

-----------------------------------------------------------------------------
(***************************************************************************)
(* "Deduplicates unchanged values": a value that is suppressed is the one  *)
(* FUXA shows, so that no change is lost - through restarts, refusals and  *)
(* expiry, until a value is forwarded while another pod or request holds   *)
(* an older one or looks it up, its answer is lost, or Redis fails.        *)
(***************************************************************************)
SuppressedIsShown ==
    ~uncertain =>
        /\ \A p \in Servers : local[p] # NoValue /\ (\A r \in Pushes : push[r].at # "accepted")
              => local[p] = shown
        /\ \A r \in Pushes : push[r].at = "seen" /\ push[r].seen = push[r].value
              => push[r].value = shown
=============================================================================
