----------------------------- MODULE Supervisor -----------------------------
(***************************************************************************)
(* The supervisor of the portal, scripts/monorepo-supervisor.mjs: it runs  *)
(* the application and, when that ends by itself, heals what the log tells *)
(* of (level 1), or else has an agent look at it (level 2), and runs it    *)
(* again.  What it counts is in a file it reads and writes as a whole.     *)
(*                                                                         *)
(* A step ends where the process waits for another: the application, a     *)
(* command that heals, the agent.  It may be killed there, and a user may  *)
(* reset the file.  A write of the file that is itself cut off is left out.*)
(***************************************************************************)
EXTENDS Naturals

CONSTANTS
    Supervisors,   \* the supervisors that run, one in the checks
    MaxRestarts,   \* settings.maxRestarts
    MaxWakes,      \* settings.level2MaxAttempts
    MaxRuns        \* bound on the starts of a supervisor

ASSUME SupervisorAssumption == MaxRestarts \in Nat /\ MaxWakes \in Nat /\ MaxRuns \in Nat

VARIABLES
    stateFile,   \* STATE_FILE: restarts and level2Attempts
    supervisor,  \* supervisor[s]: what it waits for, and the state it has read
    starts,      \* the starts of supervisors so far
    crashes,     \* history: crashes since the counter was reset
    wakes        \* history: wakes of the agent since the file was reset

supervisorVars == <<stateFile, supervisor, starts, crashes, wakes>>

Tallies == [restarts : Nat, wakes : Nat]
NoTallies == [restarts |-> 0, wakes |-> 0]

SupervisorTypeOK ==
    /\ stateFile \in Tallies
    /\ supervisor \in [Supervisors ->
          [at : {"off", "running", "healing", "waking", "healed"}, state : Tallies]]
    /\ starts \in 0..MaxRuns
    /\ crashes \in Nat /\ wakes \in Nat

SupervisorInit ==
    /\ stateFile = NoTallies
    /\ supervisor = [s \in Supervisors |-> [at |-> "off", state |-> NoTallies]]
    /\ starts = 0
    /\ crashes = 0 /\ wakes = 0

WaitsAt(s, at, state) == supervisor' = [supervisor EXCEPT ![s] = [at |-> at, state |-> state]]

(* process.exit() *)
Exits(s) == WaitsAt(s, "off", NoTallies)

(* runApplication(), of the state in the file: refused after MaxRestarts crashes. *)
Runs(s) ==
    IF stateFile.restarts >= MaxRestarts THEN Exits(s) ELSE WaitsAt(s, "running", stateFile)

StartSupervisor(s) ==
    /\ supervisor[s].at = "off" /\ starts < MaxRuns
    /\ Runs(s)
    /\ starts' = starts + 1
    /\ UNCHANGED <<stateFile, crashes, wakes>>

(* The application ends by a signal: everything is forgotten. *)
EndsBySignal(s) ==
    /\ supervisor[s].at = "running"
    /\ stateFile' = NoTallies
    /\ Exits(s)
    /\ crashes' = 0 /\ wakes' = 0
    /\ UNCHANGED starts

(* It ends well after a minute or more: the restarts are, of the state read at its start. *)
EndsStable(s) ==
    /\ supervisor[s].at = "running"
    /\ stateFile' = [supervisor[s].state EXCEPT !.restarts = 0]
    /\ Exits(s)
    /\ crashes' = 0
    /\ UNCHANGED <<starts, wakes>>

(* Faulty variant: it is noted when the agent has finished. *)
WakesUnnoted(s, state) ==
    IF state.wakes < MaxWakes
      THEN stateFile' = state /\ WaitsAt(s, "waking", [state EXCEPT !.wakes = @ + 1]) /\ wakes' = wakes + 1
      ELSE stateFile' = state /\ Exits(s) /\ UNCHANGED wakes

(* Level 1 did not help: the agent is woken, which is noted first, unless it was before. *)
Wakes(s, state) ==
    IF state.wakes < MaxWakes
      THEN LET noted == [state EXCEPT !.wakes = @ + 1]
           IN  stateFile' = noted /\ WaitsAt(s, "waking", noted) /\ wakes' = wakes + 1
      ELSE stateFile' = state /\ Exits(s) /\ UNCHANGED wakes

(* handleCrash(): the crash is noted; a rule of level 1 knows it, or none does. *)
Crashes(s) ==
    /\ supervisor[s].at = "running"
    /\ LET state == [stateFile EXCEPT !.restarts = @ + 1]
       IN  \/ stateFile' = state /\ WaitsAt(s, "healing", state) /\ UNCHANGED wakes
           \/ Wakes(s, state)
    /\ crashes' = crashes + 1
    /\ UNCHANGED starts

(* runLevel1Healing() or the agent succeeds: the state is saved again. *)
Heals(s) ==
    /\ supervisor[s].at \in {"healing", "waking"}
    /\ stateFile' = supervisor[s].state
    /\ WaitsAt(s, "healed", supervisor[s].state)
    /\ UNCHANGED <<starts, crashes, wakes>>

HealingFails(s) ==
    /\ supervisor[s].at = "healing"
    /\ Wakes(s, supervisor[s].state)
    /\ UNCHANGED <<starts, crashes>>

WakingFails(s) ==
    /\ supervisor[s].at = "waking"
    /\ Exits(s)
    /\ UNCHANGED <<stateFile, starts, crashes, wakes>>

(* The timer of 1.5 s *)
Restarts(s) ==
    /\ supervisor[s].at = "healed"
    /\ Runs(s)
    /\ UNCHANGED <<stateFile, starts, crashes, wakes>>

SupervisorKilled(s) ==
    /\ supervisor[s].at # "off"
    /\ Exits(s)
    /\ UNCHANGED <<stateFile, starts, crashes, wakes>>

(* monorepo-supervisor.mjs reset *)
ResetByHand ==
    /\ stateFile' = NoTallies
    /\ crashes' = 0 /\ wakes' = 0
    /\ UNCHANGED <<supervisor, starts>>

SupervisorNext ==
    \/ \E s \in Supervisors :
          \/ StartSupervisor(s) \/ EndsBySignal(s) \/ EndsStable(s) \/ Crashes(s)
          \/ Heals(s) \/ HealingFails(s) \/ WakingFails(s) \/ Restarts(s) \/ SupervisorKilled(s)
    \/ ResetByHand

SupervisorSpec == SupervisorInit /\ [][SupervisorNext]_supervisorVars

(***************************************************************************)
(* Whatever heals, fails, is killed or reset: since the counts were reset  *)
(* the application has crashed at most MaxRestarts times, and the agent    *)
(* was woken at most MaxWakes times (monorepo-supervisor.mjs, 482 and 587).*)
(***************************************************************************)
RecoveryBounded == crashes <= MaxRestarts /\ wakes <= MaxWakes
=============================================================================
