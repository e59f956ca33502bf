------------------------------- MODULE MCServer -------------------------------
(***************************************************************************)
(* Mechanisms of the server that share no state, side by side: `part` says *)
(* which of them steps in a behaviour, the others stay as they begin.      *)
(***************************************************************************)
EXTENDS HaulingSessions, ShiftSheet, Modbus, RedisClient, Telemetry, Supervisor, TLC

VARIABLE part \* the module that steps

serverVars == <<part, haulingVars, sheetVars, modbusVars, clientVars, telemetryVars, supervisorVars>>

ServerInit ==
    /\ part \in {"sessions", "sheet", "modbus", "client", "telemetry", "supervisor"}
    /\ HaulingInit /\ SheetInit /\ ModbusInit /\ ClientInit /\ TelemetryInit /\ SupervisorInit
    /\ part # "sheet" => currentSmr = 0

(* The parts that do not step. *)
Still(p) ==
    /\ p # "sessions" => UNCHANGED haulingVars
    /\ p # "sheet" => UNCHANGED sheetVars
    /\ p # "modbus" => UNCHANGED modbusVars
    /\ p # "client" => UNCHANGED clientVars
    /\ p # "telemetry" => UNCHANGED telemetryVars
    /\ p # "supervisor" => UNCHANGED supervisorVars
    /\ UNCHANGED part

ServerNext ==
    \/ part = "sessions" /\ HaulingNext /\ Still(part)
    \/ part = "sheet" /\ SheetNext /\ Still(part)
    \/ part = "modbus" /\ ModbusNext /\ Still(part)
    \/ part = "client" /\ ClientNext /\ Still(part)
    \/ part = "telemetry" /\ TelemetryNext /\ Still(part)
    \/ part = "supervisor" /\ SupervisorNext /\ Still(part)

ServerSpec == ServerInit /\ [][ServerNext]_serverVars

(* The types of the part that steps; the others are as they began. *)
ServerTypeOK ==
    /\ part = "sessions" => HaulingTypeOK
    /\ part = "sheet" => SheetTypeOK
    /\ part = "modbus" => ModbusTypeOK
    /\ part = "client" => ClientTypeOK
    /\ part = "telemetry" => TelemetryTypeOK
    /\ part = "supervisor" => SupervisorTypeOK

(* The clerks and the excavators are interchangeable. *)
Symmetry == Permutations(Clerks) \cup Permutations(Excavators)
=============================================================================
