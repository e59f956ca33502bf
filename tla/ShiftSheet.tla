----------------------------- MODULE ShiftSheet -----------------------------
(***************************************************************************)
(* The shift sheet of one machine: a row of machine_operations per shift   *)
(* with the service meter readings (SMR) it starts and closes with, the    *)
(* cached machines.current_smr, and the engineering note a delay is        *)
(* mirrored to.  A clerk's sheet shows what was read when it was loaded;   *)
(* saving and closing are several statements, each its own transaction.    *)
(* Migration 043 lets only admins update machine_operations: the update of *)
(* another role matches no row and reports no error.                       *)
(***************************************************************************)
EXTENDS Naturals

CONSTANTS
    Writers,   \* the users of the sheet
    Admins,    \* those with the role admin
    MaxShift,  \* the shifts, a day and a night shift per date
    MaxSmr,    \* the readings
    MaxLoads,  \* bound on the times a sheet is loaded
    WholeKey,  \* whether the key named by the upsert is an index without a predicate
    Failing,   \* whether statements fail
    Null

ASSUME SheetAssumption ==
    /\ Admins \subseteq Writers
    /\ MaxShift \in Nat \ {0} /\ MaxSmr \in Nat /\ MaxLoads \in Nat
    /\ WholeKey \in BOOLEAN /\ Failing \in BOOLEAN
    /\ Null \notin Nat

VARIABLES
    operations, \* the row of each shift, or Null
    currentSmr, \* machines.current_smr
    notes,      \* engineering_notes: the shifts with an open mirrored note
    sheet,      \* sheet[w]: what a clerk has in front, and the call under way
    loaded,     \* how often a sheet was loaded
    lastClose,  \* history: the close_smr written last, or Lost once a call failed half way,
                \* overtook another or matched no row
    rebased     \* history: the shifts whose row was saved with another start_smr

sheetVars == <<operations, currentSmr, notes, sheet, loaded, lastClose, rebased>>

Shifts == 1..MaxShift
Readings == 0..MaxSmr
Reading == Readings \cup {Null}
Lost == MaxSmr + 1
Row == [start : Reading, close : Reading]

ASSUME RowAssumption == Null \notin Row

Sheet == [at      : {"away", "loading", "open", "saving", "mirroring", "closing", "caching"},
          shift   : Shifts,
          known   : BOOLEAN,   \* row.id is not null
          start   : Reading,   \* row.startSMR
          close   : Reading,   \* row.closeSMR
          entered : Reading,   \* closeSMR of the call
          delayed : BOOLEAN]   \* engineeringDelayMinutes > 0

Away == [at |-> "away", shift |-> 1, known |-> FALSE, start |-> Null, close |-> Null,
         entered |-> Null, delayed |-> FALSE]

SheetTypeOK ==
    /\ operations \in [Shifts -> Row \cup {Null}]
    /\ currentSmr \in Reading
    /\ notes \subseteq Shifts
    /\ sheet \in [Writers -> Sheet]
    /\ loaded \in 0..MaxLoads
    /\ lastClose \in Reading \cup {Lost}
    /\ rebased \subseteq Shifts

SheetInit ==
    /\ operations = [s \in Shifts |-> Null]
    /\ currentSmr \in {0, Null}
    /\ notes = {}
    /\ sheet = [w \in Writers |-> Away]
    /\ loaded = 0
    /\ lastClose = currentSmr
    /\ rebased = {}

-----------------------------------------------------------------------------
Turns(w, phase) == sheet' = [sheet EXCEPT ![w].at = phase]
Leaves(w) == sheet' = [sheet EXCEPT ![w] = Away]

(***************************************************************************)
(* getMachineOperationsForShift() reads machines and machine_operations at *)
(* once, in either order; reading the machine first shows nothing that     *)
(* reading both at that moment does not.  router.refresh() loads it again. *)
(***************************************************************************)
LoadSheet(w, s) ==
    LET row == operations[s]
    IN  /\ sheet[w].at = "away" /\ loaded < MaxLoads
        /\ loaded' = loaded + 1
        /\ sheet' = [sheet EXCEPT ![w] =
             IF row = Null THEN [Away EXCEPT !.at = "loading", !.shift = s]
             ELSE [Away EXCEPT !.at = "loading", !.shift = s, !.known = TRUE,
                               !.start = row.start, !.close = row.close]]
        /\ UNCHANGED <<operations, currentSmr, notes, lastClose, rebased>>

(* get_machine_previous_close_smr(): both shifts of a date start at 00:00. *)
Date(s) == (s + 1) \div 2
Closed(s) == operations[s] # Null /\ operations[s].close # Null
PreviousCloses ==
    {operations[s].close : s \in {t \in Shifts : Closed(t) /\ \A u \in Shifts :
                                                   Closed(u) => Date(u) <= Date(t)}}

(* op?.start_smr ?? resolveStartSmr() *)
StartsOf(w) ==
    IF sheet[w].start # Null THEN {sheet[w].start}
    ELSE IF currentSmr # Null THEN {currentSmr}
    ELSE IF PreviousCloses # {} THEN PreviousCloses
    ELSE {Null}

Show(w) ==
    /\ sheet[w].at = "loading"
    /\ \E start \in StartsOf(w) :
          sheet' = [sheet EXCEPT ![w].at = "open", ![w].start = start]
    /\ UNCHANGED <<operations, currentSmr, notes, loaded, lastClose, rebased>>

Leave(w) ==
    /\ sheet[w].at = "open"
    /\ Leaves(w)
    /\ UNCHANGED <<operations, currentSmr, notes, loaded, lastClose, rebased>>

-----------------------------------------------------------------------------
(* Faulty variant: the readings are not compared. *)
AcceptableAny(start, close) == start \in Reading /\ close \in Reading

(* "Close SMR cannot be less than start SMR" *)
Acceptable(start, close) == start # Null /\ close # Null => close >= start

(***************************************************************************)
(* upsertMachineOperation(), called by handleSave() and, when the row is   *)
(* new, by handleClose(): it judges the readings by the start of the sheet.*)
(***************************************************************************)
Save(w, entered, delayed) ==
    /\ sheet[w].at = "open" /\ sheet[w].close = Null
    /\ Acceptable(sheet[w].start, entered)
    /\ sheet' = [sheet EXCEPT ![w].at = "saving", ![w].entered = entered,
                              ![w].delayed = delayed]
    /\ UNCHANGED <<operations, currentSmr, notes, loaded, lastClose, rebased>>

(* A close written while another call has yet to cache its own. *)
Overtakes(w) == \E v \in Writers \ {w} : sheet[v].at \in {"mirroring", "caching"}

Writes(w, row) ==
    LET s == sheet[w].shift
    IN  /\ operations' = [operations EXCEPT ![s] = row]
        /\ rebased' = rebased \cup (IF operations[s] # Null /\ operations[s].start # row.start
                                      THEN {s} ELSE {})

Counts(w, close) ==
    lastClose' = IF close = Null THEN lastClose
                 ELSE IF Overtakes(w) \/ lastClose = Lost THEN Lost
                 ELSE close

(* After the row: mirrorEngineeringDelay(), then current_smr if it closes. *)
AfterRow(w) ==
    IF sheet[w].delayed THEN "mirroring"
    ELSE IF sheet[w].entered # Null THEN "caching"
    ELSE "away"

(* A conflicting row is updated by admins alone; to others it is an error. *)
Upsert(w) ==
    LET t == sheet[w]
    IN  /\ t.at = "saving"
        /\ WholeKey /\ (operations[t.shift] = Null \/ w \in Admins)
        /\ Writes(w, [start |-> t.start, close |-> t.entered])
        /\ Counts(w, t.entered)
        /\ IF AfterRow(w) = "away" THEN Leaves(w) ELSE Turns(w, AfterRow(w))
        /\ UNCHANGED <<currentSmr, notes, loaded>>

(* The row is written and the reply lost: the rest of the call is not run. *)
UpsertUnanswered(w) ==
    LET t == sheet[w]
    IN  /\ t.at = "saving" /\ Failing
        /\ WholeKey /\ (operations[t.shift] = Null \/ w \in Admins)
        /\ Writes(w, [start |-> t.start, close |-> t.entered])
        /\ lastClose' = IF t.entered = Null THEN lastClose ELSE Lost
        /\ Turns(w, "open")
        /\ UNCHANGED <<currentSmr, notes, loaded>>

(* The statement throws: nothing is written, and the sheet stays as it was. *)
UpsertFails(w) ==
    /\ sheet[w].at = "saving"
    /\ Failing \/ ~WholeKey \/ (operations[sheet[w].shift] # Null /\ w \notin Admins)
    /\ Turns(w, "open")
    /\ UNCHANGED <<operations, currentSmr, notes, loaded, lastClose, rebased>>

(* The note is written by the service role, open again if it was resolved; *)
(* an error is only logged.                                                *)
Mirror(w) ==
    LET t == sheet[w]
    IN  /\ t.at = "mirroring"
        /\ \/ notes' = notes \cup {t.shift}
           \/ Failing /\ UNCHANGED notes
        /\ IF t.entered = Null THEN Leaves(w) ELSE Turns(w, "caching")
        /\ UNCHANGED <<operations, currentSmr, loaded, lastClose, rebased>>

(***************************************************************************)
(* closeMachineOperation(), called by handleClose() for a row of the sheet,*)
(* reads its start_smr and compares before it updates.                     *)
(***************************************************************************)
Close(w, entered) ==
    LET t == sheet[w]
    IN  /\ t.at = "open" /\ t.close = Null /\ t.known
        /\ Acceptable(operations[t.shift].start, entered)
        /\ sheet' = [sheet EXCEPT ![w].at = "closing", ![w].entered = entered]
        /\ UNCHANGED <<operations, currentSmr, notes, loaded, lastClose, rebased>>

CloseRow(w) ==
    LET t == sheet[w]
    IN  /\ t.at = "closing"
        /\ IF w \in Admins
             THEN /\ Writes(w, [operations[t.shift] EXCEPT !.close = t.entered])
                  /\ Counts(w, t.entered)
             ELSE lastClose' = Lost /\ UNCHANGED <<operations, rebased>>
        /\ Turns(w, "caching")
        /\ UNCHANGED <<currentSmr, notes, loaded>>

CloseRowFails(w) ==
    /\ Failing
    /\ sheet[w].at = "closing"
    /\ Turns(w, "open")
    /\ UNCHANGED <<operations, currentSmr, notes, loaded, lastClose, rebased>>

(* Faulty variant: the meter is never set back. *)
MeterAfterHighest(w) ==
    IF currentSmr # Null /\ currentSmr > sheet[w].entered THEN currentSmr ELSE sheet[w].entered

MeterAfter(w) == sheet[w].entered

(* Both end with machines.current_smr. *)
CacheMeter(w) ==
    /\ sheet[w].at = "caching"
    /\ \/ currentSmr' = MeterAfter(w) /\ UNCHANGED lastClose
       \/ Failing /\ lastClose' = Lost /\ UNCHANGED currentSmr
    /\ Leaves(w)
    /\ UNCHANGED <<operations, notes, loaded, rebased>>

(* The Engineering department resolves the note. *)
ResolveNote(s) ==
    /\ s \in notes
    /\ notes' = notes \ {s}
    /\ UNCHANGED <<operations, currentSmr, sheet, loaded, lastClose, rebased>>

(* The bound is reached: nobody has a sheet in front. *)
AllAway ==
    /\ loaded = MaxLoads
    /\ \A w \in Writers : sheet[w].at = "away"
    /\ UNCHANGED sheetVars

-----------------------------------------------------------------------------
SheetNext ==
    \/ AllAway
    \/ \E s \in Shifts : ResolveNote(s)
    \/ \E w \in Writers :
        \/ \E s \in Shifts : LoadSheet(w, s)
        \/ \E entered \in Reading, delayed \in BOOLEAN : Save(w, entered, delayed)
        \/ \E entered \in Readings : Close(w, entered)
        \/ Show(w) \/ Leave(w) \/ Upsert(w) \/ UpsertUnanswered(w) \/ UpsertFails(w) \/ Mirror(w)
        \/ CloseRow(w) \/ CloseRowFails(w) \/ CacheMeter(w)

SheetSpec == SheetInit /\ [][SheetNext]_sheetVars

-----------------------------------------------------------------------------
(***************************************************************************)
(* "Close SMR cannot be less than start SMR" (actions.ts): no shift ends   *)
(* with a negative smr_total, though one call compares with the start the  *)
(* sheet showed and the other with the row as it was a statement ago -     *)
(* unless the row was saved with another start.                            *)
(***************************************************************************)
TotalNotNegative ==
    \A s \in Shifts \ rebased :
        Closed(s) /\ operations[s].start # Null => operations[s].close >= operations[s].start

(***************************************************************************)
(* "Latest known close_smr" (migration 077): when no call is about to      *)
(* cache it, machines.current_smr is the reading a shift was closed with   *)
(* last - unless a call failed half way, overtook another, or closed a     *)
(* shift it may not update.                                                *)
(***************************************************************************)
MeterIsLastClose ==
    lastClose # Lost /\ (\A w \in Writers : sheet[w].at \notin {"mirroring", "caching"})
        => currentSmr = lastClose
=============================================================================
