-------------------------------- MODULE Modbus --------------------------------
(***************************************************************************)
(* ModbusConnectionManager for one piece of equipment: its entry of        *)
(* `connections`, its entry of `readIntervals`, the modbus-serial clients  *)
(* that connect() creates, the interval that polls each, and the timers    *)
(* that try to reconnect.  connect() and disconnect() are called by the    *)
(* route (POST, DELETE), by the timers and by SIGTERM, and may overlap:    *)
(* each awaits the close of the old client or the dialling of the new one. *)
(***************************************************************************)
EXTENDS Naturals

CONSTANTS
    Callers,    \* connect() and disconnect() calls that may be under way at once
    MaxClients, \* bound on the clients referenced at once
    MaxFailures,  \* errors a client may have before a reconnect is scheduled, 3 in the code
    MaxTimers,  \* bound on the pending reconnect timers
    MaxPolls    \* bound on the polls of one interval under way

ASSUME ModbusAssumption ==
    /\ MaxClients \in Nat /\ MaxFailures \in Nat /\ MaxTimers \in Nat /\ MaxPolls \in Nat

VARIABLES
    client,     \* client[k]: the k-th client with the fields of its connection record
    entry,      \* connections.get(equipmentId), 0 for none
    registered, \* readIntervals.get(equipmentId): the interval that polls that client, 0 for none
    running,    \* the clients whose interval has not been cleared
    polls,      \* polls[k]: readings under way over client k
    timers,     \* pending timeouts of scheduleReconnect()
    call,       \* call[c]: a connect() or disconnect() under way
    overlapped  \* history: two calls have been under way at once

modbusVars == <<client, entry, registered, running, polls, timers, call, overlapped>>

Ids == 1..MaxClients
Client == [at        : {"dialling", "up", "down", "closed"},
           connected : BOOLEAN,
           errors    : 0..(MaxFailures + 1)]
Call == [at    : {"idle", "closing", "dialling"},
         on    : 0..MaxClients,             \* the client closed or dialled
         then  : {"return", "connect"},     \* what follows the close
         reads : BOOLEAN]                   \* the POST names registers

Gone == [at |-> "closed", connected |-> FALSE, errors |-> 0]
NoCall == [at |-> "idle", on |-> 0, then |-> "return", reads |-> FALSE]

ModbusTypeOK ==
    /\ client \in [Ids -> Client]
    /\ entry \in 0..MaxClients
    /\ registered \in 0..MaxClients
    /\ running \subseteq Ids
    /\ polls \in [Ids -> 0..MaxPolls]
    /\ timers \in 0..MaxTimers
    /\ call \in [Callers -> Call]
    /\ overlapped \in BOOLEAN

ModbusInit ==
    /\ client = [k \in Ids |-> Gone]
    /\ entry = 0
    /\ registered = 0
    /\ running = {}
    /\ polls = [k \in Ids |-> 0]
    /\ timers = 0
    /\ call = [c \in Callers |-> NoCall]
    /\ overlapped = FALSE

-----------------------------------------------------------------------------
(* The ids of clients nothing refers to any more are used again. *)
Free == {k \in Ids : /\ client[k].at = "closed" /\ k # entry
                     /\ k \notin running /\ polls[k] = 0
                     /\ \A c \in Callers : call[c].on # k}
NewClient == CHOOSE k \in Free : TRUE

Begins(c) ==
    /\ call[c].at = "idle"
    /\ overlapped' = (overlapped \/ \E d \in Callers : call[d].at # "idle")

(* new ModbusClientClass() and connectTCP(): awaits the dialling. *)
Dials(c, reads) ==
    /\ Free # {}
    /\ client' = [client EXCEPT ![NewClient] = [Gone EXCEPT !.at = "dialling"]]
    /\ call' = [call EXCEPT ![c] = [at |-> "dialling", on |-> NewClient, then |-> "return",
                                    reads |-> reads]]

(***************************************************************************)
(* disconnect() clears the interval at once and awaits the close of the    *)
(* client it finds.                                                        *)
(***************************************************************************)
Disconnects(c, then, reads) ==
    /\ running' = running \ {registered}
    /\ registered' = 0
    /\ call' = [call EXCEPT ![c] = [at |-> "closing", on |-> entry, then |-> then,
                                    reads |-> reads]]

(* Faulty variant: the old connection is replaced without being closed. *)
ConnectReplacing(c, reads) == Dials(c, reads) /\ UNCHANGED <<registered, running>>

Connect(c, reads) ==
    IF entry = 0
      THEN Dials(c, reads) /\ UNCHANGED <<registered, running>>
      ELSE Disconnects(c, "connect", reads) /\ UNCHANGED client

(* POST /api/modbus-ingest, with or without registers to read. *)
PostConnect(c, reads) ==
    /\ Begins(c)
    /\ Free # {}
    /\ Connect(c, reads)
    /\ UNCHANGED <<entry, polls, timers>>

(* DELETE /api/modbus-ingest, and shutdown(). *)
DeleteConnection(c) ==
    /\ Begins(c)
    /\ entry # 0
    /\ Disconnects(c, "return", FALSE)
    /\ UNCHANGED <<client, entry, polls, timers>>

(* Without a connection disconnect() is over once the interval is cleared. *)
DeleteInterval ==
    /\ entry = 0 /\ registered # 0
    /\ running' = running \ {registered}
    /\ registered' = 0
    /\ UNCHANGED <<client, entry, polls, timers, call, overlapped>>

(* The timeout of scheduleReconnect(): the connection, if still marked broken. *)
TimerFires(c) ==
    /\ timers > 0
    /\ timers' = timers - 1
    /\ IF entry # 0 /\ ~client[entry].connected
         THEN Begins(c) /\ Free # {} /\ Connect(c, FALSE)
         ELSE UNCHANGED <<client, registered, running, call, overlapped>>
    /\ UNCHANGED <<entry, polls>>

(***************************************************************************)
(* The close is done: the entry is deleted, whichever record it holds by   *)
(* now.  With MaxClients in use a connect() ends as if dialling failed.    *)
(***************************************************************************)
CloseDone(c) ==
    /\ call[c].at = "closing"
    /\ entry' = 0
    /\ LET gone == [client EXCEPT ![call[c].on].at = "closed"]
       IN  IF call[c].then = "connect" /\ Free # {}
             THEN /\ client' = [gone EXCEPT ![NewClient] = [Gone EXCEPT !.at = "dialling"]]
                  /\ call' = [call EXCEPT ![c] = [at |-> "dialling", on |-> NewClient,
                                                  then |-> "return", reads |-> @.reads]]
             ELSE /\ client' = gone
                  /\ call' = [call EXCEPT ![c] = NoCall]
    /\ UNCHANGED <<registered, running, polls, timers, overlapped>>

(* connect() sets the record; the route starts to read in the same turn. *)
Dialled(c) ==
    LET k == call[c].on
    IN  /\ call[c].at = "dialling"
        /\ client' = [client EXCEPT ![k] = [at |-> "up", connected |-> TRUE, errors |-> 0]]
        /\ entry' = k
        /\ IF call[c].reads
             THEN registered' = k /\ running' = running \cup {k}
             ELSE UNCHANGED <<registered, running>>
        /\ call' = [call EXCEPT ![c] = NoCall]
        /\ UNCHANGED <<polls, timers, overlapped>>

(* scheduleReconnect() returns when there is no connection. *)
Schedules == timers' = IF entry # 0 /\ timers < MaxTimers THEN timers + 1 ELSE timers

Erring(x) == [at |-> x.at, connected |-> FALSE,
              errors |-> IF x.errors > MaxFailures THEN x.errors ELSE x.errors + 1]
Errs(k) == [client EXCEPT ![k] = Erring(@)]

(* handleConnectionError(): the record of a failed reconnect was deleted before. *)
DialFails(c) ==
    LET k == call[c].on
        gone == [client EXCEPT ![k].at = "closed"]
    IN  /\ call[c].at = "dialling"
        /\ client' = IF entry = 0 THEN gone ELSE [Errs(entry) EXCEPT ![k].at = "closed"]
        /\ Schedules
        /\ call' = [call EXCEPT ![c] = NoCall]
        /\ UNCHANGED <<entry, registered, running, polls, overlapped>>

-----------------------------------------------------------------------------
(* The interval polls whether or not the last reading is done. *)
Poll(k) ==
    /\ k \in running /\ polls[k] < MaxPolls
    /\ polls' = [polls EXCEPT ![k] = @ + 1]
    /\ UNCHANGED <<client, entry, registered, running, timers, call, overlapped>>

(* A reading arrives: the errors are forgotten, `connected` is not restored. *)
PollSucceeds(k) ==
    /\ polls[k] > 0 /\ client[k].at = "up"
    /\ polls' = [polls EXCEPT ![k] = @ - 1]
    /\ client' = [client EXCEPT ![k].errors = 0]
    /\ UNCHANGED <<entry, registered, running, timers, call, overlapped>>

PollFails(k) ==
    /\ polls[k] > 0
    /\ polls' = [polls EXCEPT ![k] = @ - 1]
    /\ client' = Errs(k)
    /\ IF client'[k].errors > MaxFailures THEN Schedules ELSE UNCHANGED timers
    /\ UNCHANGED <<entry, registered, running, call, overlapped>>

(* The equipment or the network goes away. *)
LinkBreaks(k) ==
    /\ client[k].at = "up"
    /\ client' = [client EXCEPT ![k].at = "down"]
    /\ UNCHANGED <<entry, registered, running, polls, timers, call, overlapped>>

-----------------------------------------------------------------------------
ModbusNext ==
    \/ DeleteInterval
    \/ \E c \in Callers :
        \/ \E reads \in BOOLEAN : PostConnect(c, reads)
        \/ DeleteConnection(c) \/ TimerFires(c) \/ CloseDone(c) \/ Dialled(c) \/ DialFails(c)
    \/ \E k \in Ids : Poll(k) \/ PollSucceeds(k) \/ PollFails(k) \/ LinkBreaks(k)

ModbusSpec == ModbusInit /\ [][ModbusNext]_modbusVars

-----------------------------------------------------------------------------
(***************************************************************************)
(* The pool of connect() and disconnect() leaks nothing: a client with an  *)
(* open socket is the one in `connections` or is being closed, and no      *)
(* interval polls any other than that one - through failing readings,      *)
(* pending reconnect timers and late answers of cleared intervals, as long *)
(* as connect() and disconnect() calls of the equipment do not overlap.    *)
(***************************************************************************)
NothingLeaks ==
    ~overlapped =>
        /\ \A k \in Ids : client[k].at \in {"up", "down"} =>
              k = entry \/ \E c \in Callers : call[c].at = "closing" /\ call[c].on = k
        /\ running \subseteq {registered}
        /\ registered \in {0, entry}
=============================================================================
