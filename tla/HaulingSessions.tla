--------------------------- MODULE HaulingSessions ---------------------------
(***************************************************************************)
(* The hauling sessions of one dumper in one shift, as the functions of    *)
(* migration 079 keep them: rows of hourly_loads, each with the hours that *)
(* are open in it (the others hold -1), and rows of                        *)
(* excavator_dumper_assignments.  The functions run at READ COMMITTED,     *)
(* called by several clerks at once: what a statement reads may be old     *)
(* when a later one writes.  Writes become visible together, at the end;   *)
(* an UPDATE of hourly_loads waits for the row.                            *)
(***************************************************************************)
EXTENDS Naturals, FiniteSets

CONSTANTS
    Clerks,       \* the users of the control room
    Excavators,
    Materials,
    MaxHour,      \* the hours of a shift
    MaxSessions,  \* bound on the sessions of the shift
    MaxRaced,     \* bound on the sessions with overlapping reassignments
    OnTime,       \* whether a session is ended with the hour it is, the default of the form
    OldKeys,      \* whether UNIQUE (machine_id, load_date, shift_type) is still there
    None

ASSUME HaulingAssumption ==
    /\ IsFiniteSet(Clerks)
    /\ MaxHour \in Nat \ {0} /\ MaxSessions \in Nat \ {0} /\ MaxRaced \in Nat
    /\ OnTime \in BOOLEAN /\ OldKeys \in BOOLEAN
    /\ None \notin Excavators \cup Clerks \cup Materials

VARIABLES
    hour,     \* the hour of the shift
    loads,    \* the rows of hourly_loads
    assigned, \* the rows of excavator_dumper_assignments
    active,   \* the excavators with a row of excavator_activity
    rowLock,  \* rowLock[i]: who has updated the row of session i, or None
    txn,      \* txn[c]: the function a clerk has called
    raced     \* history: the sessions two reassignments of which overlapped

haulingVars == <<hour, loads, assigned, active, rowLock, txn, raced>>

Hours == 1..MaxHour
Indices == 0..(MaxSessions - 1)

Load == [index : Indices, open : SUBSET Hours, material : Materials]
Assignment == [id : Nat, index : Indices, excavator : Excavators, material : Materials]

(* What a call was given and has read so far. *)
Txn == [at        : {"idle", "ending", "locked", "reading", "looked", "updating"},
        index     : Indices,                   \* session_index of the row
        stop      : Hours,                     \* p_stop_hour
        material  : Materials \cup {None},      \* the new material, or the one read
        excavator : Excavators \cup {None},    \* p_new_excavator_id
        fresh     : BOOLEAN,                   \* its activity was not there
        found     : SUBSET Nat]                \* v_assignment_id, or none

NoTxn == [at |-> "idle", index |-> 0, stop |-> 1, material |-> None, excavator |-> None,
          fresh |-> FALSE, found |-> {}]

HaulingTypeOK ==
    /\ hour \in Hours
    /\ loads \subseteq Load
    /\ \A r, s \in loads : r.index = s.index => r = s
    /\ assigned \subseteq Assignment
    /\ active \subseteq Excavators
    /\ rowLock \in [Indices -> Clerks \cup {None}]
    /\ txn \in [Clerks -> Txn]
    /\ raced \subseteq Indices

(* The shift begins with one session, open for all its hours. *)
HaulingInit ==
    /\ hour = 1
    /\ loads \in {{[index |-> 0, open |-> Hours, material |-> m]} : m \in Materials}
    /\ assigned = {}
    /\ active = {}
    /\ rowLock = [i \in Indices |-> None]
    /\ txn = [c \in Clerks |-> NoTxn]
    /\ raced = {}

-----------------------------------------------------------------------------
Calls(c, rec) == txn[c].at = "idle" /\ txn' = [txn EXCEPT ![c] = rec]
Step(c, rec) == txn' = [txn EXCEPT ![c] = rec]
Over(c) == Step(c, NoTxn)

Unlock(c) == rowLock' = [i \in Indices |-> IF rowLock[i] = c THEN None ELSE rowLock[i]]

(* UPDATE hourly_loads waits for whoever updated the row before. *)
Lock(c, i) == rowLock[i] = None /\ rowLock' = [rowLock EXCEPT ![i] = c]

(* The find-or-create of an activity: another transaction may create it first. *)
Fresh(x) == x # None /\ x \notin active
Clashes(t) == t.fresh /\ t.excavator \in active

Activate(t) == active' = active \cup ({t.excavator} \ {None})

(***************************************************************************)
(* control_room_end_hauling_session() reads the row, without a lock.  The  *)
(* hour is that of the form, which may be submitted later.                 *)
(***************************************************************************)
CallEnd(c, r, stop, m, x) ==
    /\ r \in loads /\ r.index + 1 \in Indices
    /\ OnTime => stop = hour
    /\ Calls(c, [NoTxn EXCEPT !.at = "ending", !.index = r.index, !.stop = stop,
                              !.material = m, !.excavator = x])
    /\ UNCHANGED <<hour, loads, assigned, active, rowLock, raced>>

(* Its UPDATE takes the row. *)
LockEnded(c) ==
    /\ txn[c].at = "ending"
    /\ Lock(c, txn[c].index)
    /\ Step(c, [txn[c] EXCEPT !.at = "locked", !.fresh = Fresh(txn[c].excavator)])
    /\ UNCHANGED <<hour, loads, assigned, active, raced>>

(* Ids are told apart within a session: a new row has one that no row and no call knows. *)
NewId(i) ==
    LET known == {a.id : a \in {b \in assigned : b.index = i}}
                   \cup UNION {txn[c].found : c \in {d \in Clerks : txn[d].index = i}}
    IN  CHOOSE n \in 1..(Cardinality(known) + 1) : n \notin known

(* UNIQUE (excavator_activity_id, dumper_machine_id, material_type, session_index) *)
Distinct(rows) ==
    \A a, b \in rows :
        a.index = b.index /\ a.excavator = b.excavator /\ a.material = b.material => a = b

(* Faulty variant: >= for > where the new session is opened. *)
AfterAndAt(stop) == {h \in Hours : h >= stop}

(* The hours of the ended and of the new session. *)
Remaining(open, stop) == {h \in open : h <= stop}
After(stop) == {h \in Hours : h > stop}

(* Faulty variant: no session is refused. *)
SessionTakenNever(i) == FALSE /\ i \in Indices

(***************************************************************************)
(* UNIQUE (machine_id, load_date, shift_type, session_index).  079 drops   *)
(* the constraint without session_index by the name it has in 003; the     *)
(* table of 020, made while that one was kept as hourly_loads_legacy, has  *)
(* it under another name, so it stays.                                     *)
(***************************************************************************)
SessionTaken(i) == \E r \in loads : OldKeys \/ r.index = i

(* It commits the lock of the hours, the new session and its assignment, or nothing. *)
CommitEnd(c) ==
    LET t == txn[c]
        i == t.index
        next == [index |-> i + 1, open |-> After(t.stop), material |-> t.material]
    IN  /\ t.at = "locked"
        /\ IF SessionTaken(i + 1) \/ Clashes(t)
             THEN UNCHANGED <<loads, assigned, active>>
             ELSE /\ loads' = {next} \cup
                        {IF r.index = i THEN [r EXCEPT !.open = Remaining(@, t.stop)] ELSE r :
                         r \in loads}
                  /\ assigned' = assigned \cup
                        {[id |-> NewId(i + 1), index |-> i + 1, excavator |-> x, material |-> t.material] :
                         x \in {t.excavator} \ {None}}
                  /\ Activate(t)
        /\ Unlock(c)
        /\ Over(c)
        /\ UNCHANGED <<hour, raced>>

(***************************************************************************)
(* control_room_update_material() updates the row, then the assignments of *)
(* its session that are there by then.                                     *)
(***************************************************************************)
CallUpdateMaterial(c, i, m) ==
    /\ \E r \in loads : r.index = i
    /\ Lock(c, i)
    /\ Calls(c, [NoTxn EXCEPT !.at = "updating", !.index = i, !.material = m])
    /\ UNCHANGED <<hour, loads, assigned, active, raced>>

(* sub: p_sub_material, which the assignments get. *)
CommitUpdateMaterial(c, sub) ==
    LET t == txn[c]
        after == {IF a.index = t.index THEN [a EXCEPT !.material = sub] ELSE a : a \in assigned}
    IN  /\ t.at = "updating"
        /\ IF ~Distinct(after)
             THEN UNCHANGED <<loads, assigned>>
             ELSE /\ loads' = {IF r.index = t.index THEN [r EXCEPT !.material = t.material] ELSE r :
                               r \in loads}
                  /\ assigned' = after
        /\ Unlock(c)
        /\ Over(c)
        /\ UNCHANGED <<hour, active, raced>>

(***************************************************************************)
(* control_room_reassign_excavator() reads the row and the activity, looks *)
(* for an assignment of the session, and moves, deletes or inserts it.     *)
(***************************************************************************)
Reassigning(i) == {c \in Clerks : txn[c].at \in {"reading", "looked"} /\ txn[c].index = i}

CallReassign(c, r, x) ==
    /\ r \in loads
    /\ Calls(c, [NoTxn EXCEPT !.at = "reading", !.index = r.index, !.material = r.material,
                              !.excavator = x, !.fresh = Fresh(x)])
    /\ raced' = raced \cup (IF Reassigning(r.index) = {} THEN {} ELSE {r.index})
    /\ Cardinality(raced') <= MaxRaced
    /\ UNCHANGED <<hour, loads, assigned, active, rowLock>>

(* Faulty variant: only an assignment to the same excavator is found. *)
MatchingOf(t) == {a \in assigned : a.index = t.index /\ a.excavator = t.excavator}
Matching(t) == {a \in assigned : a.index = t.index}

LookForAssignment(c) ==
    LET t == txn[c]
    IN  /\ t.at = "reading"
        /\ \/ /\ Matching(t) = {}
              /\ Step(c, [t EXCEPT !.at = "looked"])
           \/ \E a \in Matching(t) : Step(c, [t EXCEPT !.at = "looked", !.found = {a.id}])
        /\ UNCHANGED <<hour, loads, assigned, active, rowLock, raced>>

(* The row looked for, as it is now, is moved or deleted, or another inserted. *)
Reassigned(t) ==
    LET chosen == {a \in assigned : a.index = t.index /\ a.id \in t.found}
    IN  IF t.excavator = None THEN assigned \ chosen
        ELSE IF t.found # {}
        THEN (assigned \ chosen) \cup {[a EXCEPT !.excavator = t.excavator] : a \in chosen}
        ELSE assigned \cup {[id |-> NewId(t.index), index |-> t.index, excavator |-> t.excavator,
                             material |-> t.material]}

CommitReassign(c) ==
    LET t == txn[c]
    IN  /\ t.at = "looked"
        /\ IF Clashes(t) \/ ~Distinct(Reassigned(t))
             THEN UNCHANGED <<assigned, active>>
             ELSE assigned' = Reassigned(t) /\ Activate(t)
        /\ Over(c)
        /\ UNCHANGED <<hour, loads, rowLock, raced>>

(* Time passes. *)
NextHour ==
    /\ hour < MaxHour
    /\ hour' = hour + 1
    /\ UNCHANGED <<loads, assigned, active, rowLock, txn, raced>>

-----------------------------------------------------------------------------
HaulingNext ==
    \/ NextHour
    \/ \E c \in Clerks :
        \/ \E r \in loads, m \in Materials, x \in Excavators \cup {None} :
            \E stop \in Hours : CallEnd(c, r, stop, m, x)
        \/ \E i \in Indices, m \in Materials : CallUpdateMaterial(c, i, m)
        \/ \E r \in loads, x \in Excavators \cup {None} : CallReassign(c, r, x)
        \/ LockEnded(c) \/ CommitEnd(c) \/ \E sub \in Materials : CommitUpdateMaterial(c, sub)
        \/ LookForAssignment(c) \/ CommitReassign(c)

HaulingSpec == HaulingInit /\ [][HaulingNext]_haulingVars

-----------------------------------------------------------------------------
(***************************************************************************)
(* "Support multiple sessions per shift via session_index" (079, line 7):  *)
(* ending the last session opens the next one, unless another user creates *)
(* the activity of the excavator meanwhile.                                *)
(***************************************************************************)
SessionEnds ==
    [][ \A c \in Clerks :
          LET next == txn[c].index + 1
          IN  /\ txn[c].at = "locked" /\ txn'[c].at = "idle"
              /\ ~Clashes(txn[c]) /\ \A r \in loads : r.index # next
              => \E r \in loads' : r.index = next ]_haulingVars

(***************************************************************************)
(* "Hour is logged in another session" (HourlyLoadCell.tsx): every hour of *)
(* the shift is open in exactly one session, whoever ends which session    *)
(* how often and at once - as long as sessions end at the hour it is.      *)
(***************************************************************************)
HoursPartitioned ==
    OnTime => \A h \in Hours : Cardinality({r \in loads : h \in r.open}) = 1

(***************************************************************************)
(* A session has one assignment, whatever ends, material updates and       *)
(* reassignments interleave - unless reassignments of that session overlap.*)
(***************************************************************************)
AssignedOnce ==
    \A i \in Indices \ raced : Cardinality({a \in assigned : a.index = i}) <= 1
=============================================================================
