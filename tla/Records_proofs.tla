---------------------------- MODULE Records_proofs ----------------------------
(***************************************************************************)
(* Proofs about the records of the control room, for any clerks, sessions, *)
(* machines, materials, hours, writers and readings: types, one assignment *)
(* of a session, hours that are counted for one session, totals that are   *)
(* not negative, and a meter that follows the closed rows.                 *)
(***************************************************************************)
EXTENDS HaulingSessions, ShiftSheet, FiniteSetTheorems, TLAPS

(***************************************************************************)
(* The hauling sessions.                                                   *)
(***************************************************************************)

(* The image of a finite set is finite. *)
LEMMA FiniteImage ==
    ASSUME NEW S, IsFiniteSet(S), NEW f
    PROVE  IsFiniteSet({f[x] : x \in S})
<1> DEFINE T == {f[x] : x \in S}
           g == [x \in S |-> f[x]]
<1>1. g \in Surjection(S, T)
  BY DEF Surjection
<1> HIDE DEF g
<1> QED
  BY <1>1, FS_Surjection

(* Of finitely many ids one more is free. *)
LEMMA FreeId ==
    ASSUME NEW known, IsFiniteSet(known)
    PROVE  /\ (CHOOSE n \in 1..(Cardinality(known) + 1) : n \notin known) \in Nat
           /\ (CHOOSE n \in 1..(Cardinality(known) + 1) : n \notin known) \notin known
<1> DEFINE k == Cardinality(known) + 1
<1>1. Cardinality(known) \in Nat /\ k \in Nat /\ k > Cardinality(known)
  BY FS_CardinalityType
<1>2. Cardinality(1..k) = k
  BY <1>1, FS_Interval
<1>3. ~(1..k \subseteq known)
  BY <1>1, <1>2, FS_Subset
<1>4. \E n \in 1..k : n \notin known
  BY <1>3
<1> QED
  BY <1>1, <1>4

(* What a call has found is one id or none. *)
OneOrNone(S) == S = {} \/ \E n \in Nat : S = {n}

(* A set of at most one id is finite. *)
LEMMA OneOrNoneFinite ==
    ASSUME NEW S, OneOrNone(S)
    PROVE  IsFiniteSet(S)
<1>1. CASE S = {}
  BY <1>1, FS_EmptySet
<1>2. ASSUME NEW n, S = {n} PROVE IsFiniteSet(S)
  <2>1. IsFiniteSet({n})
    BY FS_Singleton
  <2> QED
    BY <1>2, <2>1
<1> QED
  BY <1>1, <1>2 DEF OneOrNone

(* Types, and what the calls carry. *)
HaulingInv ==
    /\ HaulingTypeOK
    /\ IsFiniteSet(assigned)
    /\ \A c \in Clerks :
          /\ txn[c].at # "idle" => txn[c].material \in Materials
          /\ txn[c].at \in {"ending", "locked"} => txn[c].index + 1 \in Indices
          /\ OneOrNone(txn[c].found)

(* An assignment gets an id no row has and no call found. *)
LEMMA NewIdFacts ==
    ASSUME HaulingAssumption, HaulingInv, NEW i
    PROVE  NewId(i) \in Nat
<1> DEFINE rows == {b \in assigned : b.index = i}
           calls == {d \in Clerks : txn[d].index = i}
           ids == {a.id : a \in rows}
           founds == {txn[c].found : c \in calls}
           known == ids \cup UNION founds
<1>1. IsFiniteSet(rows)
  BY FS_Subset DEF HaulingInv
<1>2. IsFiniteSet(calls)
  BY FS_Subset DEF HaulingAssumption
<1>3. \A T \in founds : IsFiniteSet(T)
  <2>1. ASSUME NEW c \in calls PROVE IsFiniteSet(txn[c].found)
    <3>1. OneOrNone(txn[c].found)
      BY DEF HaulingInv
    <3> QED
      BY <3>1, OneOrNoneFinite
  <2> QED
    BY <2>1
<1>4. NewId(i) = CHOOSE n \in 1..(Cardinality(known) + 1) : n \notin known
  BY DEF NewId
<1> HIDE DEF rows, calls
<1>5. IsFiniteSet(ids)
  <2> DEFINE f == [a \in rows |-> a.id]
  <2>1. ids = {f[a] : a \in rows}
    OBVIOUS
  <2> HIDE DEF f, ids
  <2>2. IsFiniteSet({f[a] : a \in rows})
    BY <1>1, FiniteImage, Zenon
  <2> QED
    BY <2>1, <2>2
<1>6. IsFiniteSet(founds)
  <2> DEFINE f == [c \in calls |-> txn[c].found]
  <2>1. founds = {f[c] : c \in calls}
    OBVIOUS
  <2> HIDE DEF f, founds
  <2>2. IsFiniteSet({f[c] : c \in calls})
    BY <1>2, FiniteImage, Zenon
  <2> QED
    BY <2>1, <2>2
<1> HIDE DEF ids, founds
<1>7. IsFiniteSet(UNION founds)
  BY <1>3, <1>6, FS_UNION
<1>8. IsFiniteSet(known)
  BY <1>5, <1>7, FS_Union
<1> HIDE DEF known
<1> QED
  BY <1>4, <1>8, FreeId

(* What UNCHANGED of all variables leaves is as it was. *)
LEMMA HaulingStutters ==
    ASSUME HaulingInv, UNCHANGED haulingVars PROVE HaulingInv'
<1> QED
  BY DEF haulingVars, HaulingInv, HaulingTypeOK, OneOrNone

(* A call begins, or reads further, and changes nothing else. *)
LEMMA HaulingCalls ==
    ASSUME HaulingInv, NEW c \in Clerks, NEW rec \in Txn,
           rec.at # "idle" => rec.material \in Materials,
           rec.at \in {"ending", "locked"} => rec.index + 1 \in Indices,
           OneOrNone(rec.found),
           txn' = [txn EXCEPT ![c] = rec],
           hour' \in Hours, loads' = loads, assigned' = assigned, active' = active,
           rowLock' \in [Indices -> Clerks \cup {None}], raced' \subseteq Indices
    PROVE  HaulingInv'
<1> USE DEF HaulingInv, HaulingTypeOK
<1>1. HaulingTypeOK'
  OBVIOUS
<1>2. IsFiniteSet(assigned')
  OBVIOUS
<1>3. ASSUME NEW d \in Clerks
      PROVE  /\ txn'[d].at # "idle" => txn'[d].material \in Materials
             /\ txn'[d].at \in {"ending", "locked"} => txn'[d].index + 1 \in Indices
             /\ OneOrNone(txn'[d].found)
  <2>1. txn'[d] = IF d = c THEN rec ELSE txn[d]
    OBVIOUS
  <2> QED
    BY <2>1
<1> QED
  BY <1>1, <1>2, <1>3

(* A call is over and has written. *)
LEMMA HaulingCommits ==
    ASSUME HaulingAssumption, HaulingInv, NEW c \in Clerks, Over(c),
           hour' = hour, raced' = raced,
           loads' \subseteq Load, \A r, s \in loads' : r.index = s.index => r = s,
           assigned' \subseteq Assignment, IsFiniteSet(assigned'), active' \subseteq Excavators,
           rowLock' \in [Indices -> Clerks \cup {None}]
    PROVE  HaulingInv'
<1> USE DEF HaulingInv, HaulingTypeOK
<1>1. NoTxn \in Txn
  BY DEF NoTxn, Txn, Indices, Hours, HaulingAssumption
<1>2. txn' = [txn EXCEPT ![c] = NoTxn]
  BY DEF Over, Step
<1>3. HaulingTypeOK'
  BY <1>1, <1>2
<1>4. ASSUME NEW d \in Clerks
      PROVE  /\ txn'[d].at # "idle" => txn'[d].material \in Materials
             /\ txn'[d].at \in {"ending", "locked"} => txn'[d].index + 1 \in Indices
             /\ OneOrNone(txn'[d].found)
  <2>1. NoTxn.at = "idle" /\ NoTxn.found = {}
    BY DEF NoTxn
  <2>2. txn'[d] = IF d = c THEN NoTxn ELSE txn[d]
    BY <1>2
  <2> QED
    BY <2>1, <2>2 DEF OneOrNone
<1> QED
  BY <1>3, <1>4

(* The record a call begins with. *)
LEMMA NoTxnTyped ==
    ASSUME HaulingAssumption
    PROVE  /\ NoTxn \in Txn
           /\ NoTxn.found = {} /\ NoTxn.at = "idle"
           /\ 0 \in Indices /\ 1 \in Hours
<1> QED
  BY DEF NoTxn, Txn, Indices, Hours, HaulingAssumption

(* What begins or reads. *)
LEMMA HaulingReads ==
    ASSUME HaulingAssumption, HaulingInv, NEW c \in Clerks
    PROVE  /\ \A r \in loads, m \in Materials, x \in Excavators \cup {None}, stop \in Hours :
                 CallEnd(c, r, stop, m, x) => HaulingInv'
           /\ \A i \in Indices, m \in Materials : CallUpdateMaterial(c, i, m) => HaulingInv'
           /\ \A r \in loads, x \in Excavators \cup {None} : CallReassign(c, r, x) => HaulingInv'
           /\ LockEnded(c) => HaulingInv'
           /\ LookForAssignment(c) => HaulingInv'
<1> USE NoTxnTyped DEF HaulingTypeOK
<1>1. loads \subseteq Load /\ txn[c] \in Txn /\ hour \in Hours /\ raced \subseteq Indices
  BY DEF HaulingInv
<1>2. rowLock \in [Indices -> Clerks \cup {None}]
  BY DEF HaulingInv
<1>3. ASSUME NEW r \in loads, NEW m \in Materials, NEW x \in Excavators \cup {None},
             NEW stop \in Hours, CallEnd(c, r, stop, m, x)
      PROVE  HaulingInv'
  <2> DEFINE rec == [NoTxn EXCEPT !.at = "ending", !.index = r.index, !.stop = stop,
                                  !.material = m, !.excavator = x]
  <2>1. rec \in Txn /\ rec.at = "ending" /\ rec.material = m /\ rec.index = r.index
        /\ rec.found = {}
    BY <1>1 DEF Txn, Load
  <2>2. rec.index + 1 \in Indices /\ txn' = [txn EXCEPT ![c] = rec]
    BY <1>3, <2>1 DEF CallEnd, Calls
  <2>3. UNCHANGED <<hour, loads, assigned, active, rowLock, raced>>
    BY <1>3 DEF CallEnd
  <2> HIDE DEF rec
  <2> QED
    BY <1>1, <1>2, <2>1, <2>2, <2>3, HaulingCalls DEF OneOrNone
<1>4. ASSUME NEW i \in Indices, NEW m \in Materials, CallUpdateMaterial(c, i, m)
      PROVE  HaulingInv'
  <2> DEFINE rec == [NoTxn EXCEPT !.at = "updating", !.index = i, !.material = m]
  <2>1. rec \in Txn /\ rec.at = "updating" /\ rec.material = m /\ rec.found = {}
    BY <1>1 DEF Txn
  <2>2. txn' = [txn EXCEPT ![c] = rec]
    BY <1>4 DEF CallUpdateMaterial, Calls
  <2>3. UNCHANGED <<hour, loads, assigned, active, raced>>
    BY <1>4 DEF CallUpdateMaterial
  <2>4. rowLock' \in [Indices -> Clerks \cup {None}]
    BY <1>2, <1>4 DEF CallUpdateMaterial, Lock
  <2> HIDE DEF rec
  <2> QED
    BY <1>1, <2>1, <2>2, <2>3, <2>4, HaulingCalls DEF OneOrNone
<1>5. ASSUME NEW r \in loads, NEW x \in Excavators \cup {None}, CallReassign(c, r, x)
      PROVE  HaulingInv'
  <2> DEFINE rec == [NoTxn EXCEPT !.at = "reading", !.index = r.index, !.material = r.material,
                                  !.excavator = x, !.fresh = Fresh(x)]
  <2>1. Fresh(x) \in BOOLEAN
    BY DEF Fresh
  <2>2. rec \in Txn /\ rec.at = "reading" /\ rec.material \in Materials /\ rec.found = {}
    BY <1>1, <2>1 DEF Txn, Load
  <2>3. txn' = [txn EXCEPT ![c] = rec]
    BY <1>5 DEF CallReassign, Calls
  <2>4. UNCHANGED <<hour, loads, assigned, active, rowLock>>
    BY <1>5 DEF CallReassign
  <2>5. raced' \subseteq Indices
    BY <1>1, <1>5 DEF CallReassign, Load
  <2> HIDE DEF rec
  <2> QED
    BY <1>1, <1>2, <2>2, <2>3, <2>4, <2>5, HaulingCalls DEF OneOrNone
<1>6. ASSUME LockEnded(c) PROVE HaulingInv'
  <2> DEFINE rec == [txn[c] EXCEPT !.at = "locked", !.fresh = Fresh(txn[c].excavator)]
  <2>1. Fresh(txn[c].excavator) \in BOOLEAN
    BY DEF Fresh
  <2>2. rec \in Txn /\ rec.at = "locked" /\ rec.material = txn[c].material
        /\ rec.index = txn[c].index /\ rec.found = txn[c].found
    BY <1>1, <2>1 DEF Txn
  <2>3. txn[c].at = "ending" /\ txn' = [txn EXCEPT ![c] = rec]
    BY <1>6 DEF LockEnded, Step
  <2>4. UNCHANGED <<hour, loads, assigned, active, raced>>
    BY <1>6 DEF LockEnded
  <2>5. rowLock' \in [Indices -> Clerks \cup {None}]
    BY <1>2, <1>6 DEF LockEnded, Lock
  <2>6. OneOrNone(txn[c].found) /\ txn[c].material \in Materials /\ txn[c].index + 1 \in Indices
    BY <2>3 DEF HaulingInv
  <2> HIDE DEF rec
  <2> QED
    BY <1>1, <2>2, <2>3, <2>4, <2>5, <2>6, HaulingCalls
<1>7. ASSUME LookForAssignment(c) PROVE HaulingInv'
  <2>1. txn[c].at = "reading" /\ UNCHANGED <<hour, loads, assigned, active, rowLock, raced>>
    BY <1>7 DEF LookForAssignment
  <2>2. OneOrNone(txn[c].found) /\ txn[c].material \in Materials
    BY <2>1 DEF HaulingInv
  <2>3. ASSUME NEW rec \in Txn, txn' = [txn EXCEPT ![c] = rec], rec.at = "looked",
               rec.material = txn[c].material, OneOrNone(rec.found)
        PROVE  HaulingInv'
    BY <1>1, <1>2, <2>1, <2>2, <2>3, HaulingCalls
  <2>4. CASE Step(c, [txn[c] EXCEPT !.at = "looked"])
    <3> DEFINE rec == [txn[c] EXCEPT !.at = "looked"]
    <3>1. rec \in Txn /\ rec.at = "looked" /\ rec.material = txn[c].material
          /\ rec.found = txn[c].found
      BY <1>1 DEF Txn
    <3>2. txn' = [txn EXCEPT ![c] = rec]
      BY <2>4 DEF Step
    <3> HIDE DEF rec
    <3> QED
      BY <2>2, <2>3, <3>1, <3>2
  <2>5. ASSUME NEW a \in assigned, Step(c, [txn[c] EXCEPT !.at = "looked", !.found = {a.id}])
        PROVE  HaulingInv'
    <3> DEFINE rec == [txn[c] EXCEPT !.at = "looked", !.found = {a.id}]
    <3>1. a.id \in Nat
      BY DEF HaulingInv, Assignment
    <3>2. rec \in Txn /\ rec.at = "looked" /\ rec.material = txn[c].material
          /\ rec.found = {a.id}
      BY <1>1, <3>1 DEF Txn
    <3>3. txn' = [txn EXCEPT ![c] = rec]
      BY <2>5 DEF Step
    <3> HIDE DEF rec
    <3> QED
      BY <2>3, <3>1, <3>2, <3>3 DEF OneOrNone
  <2> QED
    BY <1>7, <2>4, <2>5 DEF LookForAssignment, Matching
<1> QED
  BY <1>3, <1>4, <1>5, <1>6, <1>7

(* The lock of the rows of a call is released. *)
LEMMA UnlockTyped ==
    ASSUME HaulingInv, NEW c \in Clerks, Unlock(c)
    PROVE  rowLock' \in [Indices -> Clerks \cup {None}]
<1> QED
  BY DEF HaulingInv, HaulingTypeOK, Unlock

(* The new session is none of those there, so the rows keep their UNIQUE key. *)
LEMMA CommitEndTyped ==
    ASSUME HaulingAssumption, HaulingInv, NEW c \in Clerks, CommitEnd(c)
    PROVE  HaulingInv'
<1> DEFINE t == txn[c]
           i == t.index
           next == [index |-> i + 1, open |-> After(t.stop), material |-> t.material]
           ended(r) == IF r.index = i THEN [r EXCEPT !.open = Remaining(@, t.stop)] ELSE r
           added == {[id |-> NewId(i + 1), index |-> i + 1, excavator |-> x, material |-> t.material] :
                         x \in {t.excavator} \ {None}}
<1>1. /\ t \in Txn /\ i + 1 \in Indices /\ t.material \in Materials
      /\ loads \subseteq Load /\ assigned \subseteq Assignment /\ active \subseteq Excavators
      /\ IsFiniteSet(assigned)
      /\ \A r, s \in loads : r.index = s.index => r = s
  BY DEF HaulingInv, HaulingTypeOK, CommitEnd
<1>2. Over(c) /\ hour' = hour /\ raced' = raced /\ rowLock' \in [Indices -> Clerks \cup {None}]
  BY UnlockTyped DEF CommitEnd
<1>3. CASE UNCHANGED <<loads, assigned, active>>
  BY <1>1, <1>2, <1>3, HaulingCommits
<1>4. CASE /\ ~SessionTaken(i + 1)
           /\ loads' = {next} \cup {ended(r) : r \in loads}
           /\ assigned' = assigned \cup added
           /\ Activate(t)
  <2>1. next \in Load
    BY <1>1 DEF Load, After
  <2>2. ASSUME NEW r \in loads
        PROVE  ended(r) \in Load /\ ended(r).index = r.index /\ r.index # i + 1
    <3>1. r.index # i + 1
      BY <1>4 DEF SessionTaken
    <3>2. r \in Load
      BY <1>1
    <3>3. CASE r.index = i
      <4>1. ended(r) = [r EXCEPT !.open = Remaining(r.open, t.stop)]
        BY <3>3
      <4>2. Remaining(r.open, t.stop) \subseteq Hours
        BY <3>2 DEF Load, Remaining
      <4> QED
        BY <3>1, <3>2, <4>1, <4>2 DEF Load
    <3>4. CASE r.index # i
      BY <3>1, <3>2, <3>4
    <3> QED
      BY <3>3, <3>4
  <2>9. next.index = i + 1
    OBVIOUS
  <2> HIDE DEF next, ended
  <2>3. loads' \subseteq Load
    BY <1>4, <2>1, <2>2
  <2>4. \A r, s \in loads' : r.index = s.index => r = s
    <3>2. ASSUME NEW r \in loads', NEW s \in loads', r.index = s.index PROVE r = s
      <4>1. CASE r = next \/ s = next
        BY <1>4, <2>2, <2>9, <3>2, <4>1
      <4>2. CASE r # next /\ s # next
        <5>1. PICK q \in loads : r = ended(q)
          BY <1>4, <4>2
        <5>2. PICK p \in loads : s = ended(p)
          BY <1>4, <4>2
        <5>3. q.index = p.index
          BY <2>2, <3>2, <5>1, <5>2
        <5>4. q = p
          BY <1>1, <5>3
        <5> QED
          BY <5>1, <5>2, <5>4
      <4> QED
        BY <4>1, <4>2
    <3> QED
      BY <3>2
  <2>5. added \subseteq Assignment
    <3>1. NewId(i + 1) \in Nat
      BY NewIdFacts
    <3> QED
      BY <1>1, <3>1 DEF Txn, Assignment
  <2>6. IsFiniteSet(added)
    <3>1. CASE t.excavator = None
      <4>1. added = {}
        BY <3>1
      <4> QED
        BY <4>1, FS_EmptySet
    <3>2. CASE t.excavator # None
      <4> DEFINE row == [id |-> NewId(i + 1), index |-> i + 1, excavator |-> t.excavator,
                         material |-> t.material]
      <4>1. added = {row}
        BY <3>2
      <4> HIDE DEF row, added
      <4>2. IsFiniteSet({row})
        BY FS_Singleton
      <4> QED
        BY <4>1, <4>2
    <3> QED
      BY <3>1, <3>2
  <2> HIDE DEF added
  <2>7. IsFiniteSet(assigned') /\ assigned' \subseteq Assignment
    BY <1>1, <1>4, <2>5, <2>6, FS_Union
  <2>8. active' \subseteq Excavators
    BY <1>1, <1>4 DEF Activate, Txn
  <2> QED
    BY <1>2, <2>3, <2>4, <2>7, <2>8, HaulingCommits
<1> QED
  BY <1>3, <1>4 DEF CommitEnd

(* Rows are updated in place. *)
LEMMA CommitUpdateMaterialTyped ==
    ASSUME HaulingAssumption, HaulingInv, NEW c \in Clerks, NEW sub \in Materials,
           CommitUpdateMaterial(c, sub)
    PROVE  HaulingInv'
<1> DEFINE t == txn[c]
           mined(r) == IF r.index = t.index THEN [r EXCEPT !.material = t.material] ELSE r
           carried(a) == IF a.index = t.index THEN [a EXCEPT !.material = sub] ELSE a
           after == {carried(a) : a \in assigned}
<1>1. /\ t \in Txn /\ t.material \in Materials
      /\ loads \subseteq Load /\ assigned \subseteq Assignment /\ active \subseteq Excavators
      /\ IsFiniteSet(assigned)
      /\ \A r, s \in loads : r.index = s.index => r = s
  BY DEF HaulingInv, HaulingTypeOK, CommitUpdateMaterial
<1>2. /\ Over(c) /\ hour' = hour /\ raced' = raced /\ active' = active
      /\ rowLock' \in [Indices -> Clerks \cup {None}]
  BY UnlockTyped DEF CommitUpdateMaterial
<1>3. CASE UNCHANGED <<loads, assigned>>
  BY <1>1, <1>2, <1>3, HaulingCommits
<1>4. CASE loads' = {mined(r) : r \in loads} /\ assigned' = after
  <2>1. ASSUME NEW r \in loads PROVE mined(r) \in Load /\ mined(r).index = r.index
    <3>1. r \in Load
      BY <1>1
    <3>2. CASE r.index = t.index
      BY <1>1, <3>1, <3>2 DEF Load
    <3>3. CASE r.index # t.index
      BY <3>1, <3>3
    <3> QED
      BY <3>2, <3>3
  <2>2. \A a \in assigned : carried(a) \in Assignment
    <3>1. ASSUME NEW a \in assigned PROVE carried(a) \in Assignment
      BY <1>1 DEF Assignment
    <3> QED
      BY <3>1
  <2> HIDE DEF mined
  <2>3. loads' \subseteq Load
    BY <1>4, <2>1
  <2>4. \A r, s \in loads' : r.index = s.index => r = s
    BY <1>1, <1>4, <2>1
  <2>5. IsFiniteSet(assigned')
    <3> DEFINE f == [a \in assigned |-> carried(a)]
    <3>1. after = {f[a] : a \in assigned}
      OBVIOUS
    <3> HIDE DEF f, after
    <3>2. IsFiniteSet({f[a] : a \in assigned})
      BY <1>1, FiniteImage, Zenon
    <3> QED
      BY <1>4, <3>1, <3>2
  <2>6. assigned' \subseteq Assignment
    <3> HIDE DEF carried
    <3> QED
      BY <1>4, <2>2
  <2> QED
    BY <1>1, <1>2, <2>3, <2>4, <2>5, <2>6, HaulingCommits
<1> QED
  BY <1>3, <1>4 DEF CommitUpdateMaterial

(* The row found is moved or deleted, or another inserted. *)
LEMMA CommitReassignTyped ==
    ASSUME HaulingAssumption, HaulingInv, NEW c \in Clerks, CommitReassign(c)
    PROVE  HaulingInv'
<1> DEFINE t == txn[c]
           chosen == {a \in assigned : a.index = t.index /\ a.id \in t.found}
           moved(a) == [a EXCEPT !.excavator = t.excavator]
           row == [id |-> NewId(t.index), index |-> t.index, excavator |-> t.excavator,
                   material |-> t.material]
<1>1. /\ t \in Txn /\ t.material \in Materials
      /\ loads \subseteq Load /\ assigned \subseteq Assignment /\ active \subseteq Excavators
      /\ IsFiniteSet(assigned)
      /\ \A r, s \in loads : r.index = s.index => r = s
      /\ rowLock \in [Indices -> Clerks \cup {None}]
  BY DEF HaulingInv, HaulingTypeOK, CommitReassign
<1>2. Over(c) /\ hour' = hour /\ raced' = raced /\ loads' = loads /\ rowLock' = rowLock
  BY DEF CommitReassign
<1>3. CASE UNCHANGED <<assigned, active>>
  BY <1>1, <1>2, <1>3, HaulingCommits
<1>4. CASE assigned' = Reassigned(t) /\ Activate(t)
  <2>1. active' \subseteq Excavators
    BY <1>1, <1>4 DEF Activate, Txn
  <2>2. IsFiniteSet(assigned \ chosen)
    BY <1>1, FS_Subset
  <2>3. IsFiniteSet(chosen)
    BY <1>1, FS_Subset
  <2>4. Reassigned(t) = IF t.excavator = None THEN assigned \ chosen
                        ELSE IF t.found # {}
                        THEN (assigned \ chosen) \cup {moved(a) : a \in chosen}
                        ELSE assigned \cup {row}
    BY DEF Reassigned
  <2>5. CASE t.excavator = None
    <3>1. assigned' = assigned \ chosen
      BY <1>4, <2>4, <2>5
    <3> HIDE DEF chosen
    <3> QED
      BY <1>1, <1>2, <2>1, <2>2, <3>1, HaulingCommits
  <2>6. CASE t.excavator # None /\ t.found # {}
    <3>1. assigned' = (assigned \ chosen) \cup {moved(a) : a \in chosen}
      BY <1>4, <2>4, <2>6
    <3>2. IsFiniteSet({moved(a) : a \in chosen})
      <4> DEFINE f == [a \in chosen |-> moved(a)]
      <4>1. {moved(a) : a \in chosen} = {f[a] : a \in chosen}
        OBVIOUS
      <4> HIDE DEF f, moved, chosen
      <4>2. IsFiniteSet({f[a] : a \in chosen})
        BY <2>3, FiniteImage, Zenon
      <4> QED
        BY <4>1, <4>2
    <3>3. ASSUME NEW a \in chosen PROVE moved(a) \in Assignment
      BY <1>1, <2>6 DEF Assignment, Txn
    <3> HIDE DEF moved, chosen
    <3>4. {moved(a) : a \in chosen} \subseteq Assignment
      BY <3>3
    <3>5. IsFiniteSet(assigned')
      BY <2>2, <3>1, <3>2, FS_Union
    <3>6. assigned' \subseteq Assignment
      BY <1>1, <3>1, <3>4
    <3> QED
      BY <1>1, <1>2, <2>1, <3>5, <3>6, HaulingCommits
  <2>7. CASE t.excavator # None /\ t.found = {}
    <3>1. assigned' = assigned \cup {row}
      BY <1>4, <2>4, <2>7
    <3>2. NewId(t.index) \in Nat
      BY NewIdFacts
    <3>3. row \in Assignment
      BY <1>1, <2>7, <3>2 DEF Assignment, Txn
    <3> HIDE DEF row
    <3>4. IsFiniteSet(assigned')
      BY <1>1, <3>1, FS_AddElement
    <3> QED
      BY <1>1, <1>2, <2>1, <3>1, <3>3, <3>4, HaulingCommits
  <2> QED
    BY <2>5, <2>6, <2>7
<1> QED
  BY <1>3, <1>4 DEF CommitReassign

(* Every step keeps the types. *)
LEMMA HaulingInvKept ==
    ASSUME HaulingAssumption, HaulingInv, [HaulingNext]_haulingVars
    PROVE  HaulingInv'
<1>1. CASE NextHour
  BY <1>1 DEF NextHour, HaulingInv, HaulingTypeOK, Hours, HaulingAssumption, OneOrNone
<1>2. CASE UNCHANGED haulingVars
  BY <1>2, HaulingStutters
<1> QED
  BY <1>1, <1>2, HaulingReads, CommitEndTyped, CommitUpdateMaterialTyped, CommitReassignTyped
  DEF HaulingNext

(* No call has begun, and nothing is assigned. *)
LEMMA HaulingInvBegins ==
    ASSUME HaulingAssumption, HaulingInit PROVE HaulingInv
<1>1. PICK m \in Materials : loads = {[index |-> 0, open |-> Hours, material |-> m]}
  BY DEF HaulingInit
<1>2. loads \subseteq Load /\ \A r, s \in loads : r.index = s.index => r = s
  BY <1>1, NoTxnTyped DEF Load
<1>3. \A c \in Clerks : txn[c] = NoTxn
  BY DEF HaulingInit
<1>4. HaulingTypeOK
  BY <1>2, <1>3, NoTxnTyped DEF HaulingInit, HaulingTypeOK
<1>5. IsFiniteSet(assigned)
  BY FS_EmptySet DEF HaulingInit
<1> QED
  BY <1>3, <1>4, <1>5, NoTxnTyped DEF HaulingInv, OneOrNone

(* Types and what the calls carry, always. *)
LEMMA HaulingInvAlways == HaulingSpec => []HaulingInv
<1> QED
  BY HaulingAssumption, HaulingInvBegins, HaulingInvKept, PTL DEF HaulingSpec

(* Every variable keeps to its type; the UNIQUE key of hourly_loads holds. *)
THEOREM HaulingTypeCorrect == HaulingSpec => []HaulingTypeOK
<1>1. HaulingInv => HaulingTypeOK
  BY DEF HaulingInv
<1> QED
  BY <1>1, HaulingInvAlways, PTL

-----------------------------------------------------------------------------
(***************************************************************************)
(* One assignment.  A call and an assignment belong to a session that is   *)
(* there, so a new session has neither; and in a session whose             *)
(* reassignments do not overlap, nothing is assigned between the look of   *)
(* one and what it writes.                                                 *)
(***************************************************************************)
HasSession(i) == \E r \in loads : r.index = i

(* Assignments and calls are of sessions that exist. *)
Belongs ==
    /\ \A a \in assigned : HasSession(a.index)
    /\ \A c \in Clerks : txn[c].at # "idle" => HasSession(txn[c].index)

(* A session has one assignment. *)
OneAssigned(i) == \A a, b \in assigned : a.index = i /\ b.index = i => a = b
(* One call at a time reassigns a session. *)
OneReassigns(i) == \A c, d \in Reassigning(i) : c = d
(* Who looked and found none is still right. *)
NothingMissed(i) ==
    \A c \in Clerks :
        txn[c].at = "looked" /\ txn[c].index = i /\ txn[c].found = {} =>
            \A a \in assigned : a.index # i

(* All of it, for the sessions whose reassignments never overlapped. *)
AssignInv ==
    /\ HaulingInv
    /\ Belongs
    /\ \A i \in Indices \ raced : OneAssigned(i) /\ OneReassigns(i) /\ NothingMissed(i)

(* A session stays. *)
LEMMA SessionsStay ==
    ASSUME [HaulingNext]_haulingVars, NEW i, HasSession(i)
    PROVE  HasSession(i)'
<1>1. PICK r \in loads : r.index = i
  BY DEF HasSession
<1>2. SUFFICES \E s \in loads' : s.index = i
  BY DEF HasSession
<1>3. CASE loads' = loads
  BY <1>1, <1>3
<1>4. ASSUME NEW c \in Clerks, CommitEnd(c), loads' # loads
      PROVE  \E s \in loads' : s.index = i
  <2> DEFINE t == txn[c]
             ended(q) == IF q.index = t.index THEN [q EXCEPT !.open = Remaining(@, t.stop)] ELSE q
  <2>1. \A q \in loads : ended(q) \in loads'
    BY <1>4 DEF CommitEnd
  <2>2. ended(r).index = i
    BY <1>1
  <2> QED
    BY <2>1, <2>2
<1>5. ASSUME NEW c \in Clerks, NEW sub, CommitUpdateMaterial(c, sub), loads' # loads
      PROVE  \E s \in loads' : s.index = i
  <2> DEFINE t == txn[c]
             mined(q) == IF q.index = t.index THEN [q EXCEPT !.material = t.material] ELSE q
  <2>1. \A q \in loads : mined(q) \in loads'
    BY <1>5 DEF CommitUpdateMaterial
  <2>2. mined(r).index = i
    BY <1>1
  <2> QED
    BY <2>1, <2>2
<1> QED
  BY <1>3, <1>4, <1>5 DEF HaulingNext, haulingVars, NextHour, CallEnd, CallUpdateMaterial,
     CallReassign, LockEnded, LookForAssignment, CommitReassign

(* What a step makes of the call of c, the others are as they were. *)
LEMMA CallBecomes ==
    ASSUME HaulingInv, NEW c \in Clerks, NEW rec, txn' = [txn EXCEPT ![c] = rec]
    PROVE  \A d \in Clerks : txn'[d] = IF d = c THEN rec ELSE txn[d]
<1> QED
  BY DEF HaulingInv, HaulingTypeOK

(* Sessions of which nothing is reassigned meanwhile. *)
OneForAll(is) == \A i \in is : OneAssigned(i) /\ OneReassigns(i) /\ NothingMissed(i)

(* A call that reassigns nothing begins or goes on. *)
LEMMA OthersStep ==
    ASSUME AssignInv, NEW c \in Clerks, NEW rec, txn' = [txn EXCEPT ![c] = rec],
           rec.at \notin {"reading", "looked"}, assigned' = assigned, raced' = raced
    PROVE  OneForAll(Indices \ raced)'
<1>1. \A d \in Clerks : txn'[d] = IF d = c THEN rec ELSE txn[d]
  BY CallBecomes DEF AssignInv
<1>2. ASSUME NEW i \in Indices \ raced
      PROVE  (OneAssigned(i) /\ OneReassigns(i) /\ NothingMissed(i))'
  <2>1. OneAssigned(i) /\ OneReassigns(i) /\ NothingMissed(i)
    BY DEF AssignInv
  <2>2. OneAssigned(i)'
    BY <2>1 DEF OneAssigned
  <2>3. Reassigning(i)' \subseteq Reassigning(i)
    BY <1>1 DEF Reassigning
  <2>4. OneReassigns(i)'
    BY <2>1, <2>3 DEF OneReassigns
  <2>5. NothingMissed(i)'
    BY <1>1, <2>1 DEF NothingMissed
  <2> QED
    BY <2>2, <2>4, <2>5
<1> QED
  BY <1>2 DEF OneForAll, Indices

(* The first reassignment of a session is the only one, or the session is told apart. *)
LEMMA CallReassignOne ==
    ASSUME AssignInv, NEW c \in Clerks, NEW r \in loads, NEW x, CallReassign(c, r, x)
    PROVE  OneForAll(Indices \ raced)'
<1> DEFINE rec == [NoTxn EXCEPT !.at = "reading", !.index = r.index, !.material = r.material,
                                !.excavator = x, !.fresh = Fresh(x)]
<1>1. rec.at = "reading" /\ rec.index = r.index
  BY DEF NoTxn
<1>2. /\ txn' = [txn EXCEPT ![c] = rec] /\ assigned' = assigned
      /\ raced' = raced \cup (IF Reassigning(r.index) = {} THEN {} ELSE {r.index})
  BY DEF CallReassign, Calls
<1> HIDE DEF rec
<1>3. \A d \in Clerks : txn'[d] = IF d = c THEN rec ELSE txn[d]
  BY <1>2, CallBecomes DEF AssignInv
<1>4. ASSUME NEW i \in Indices, i \notin raced'
      PROVE  (OneAssigned(i) /\ OneReassigns(i) /\ NothingMissed(i))'
  <2>1. OneAssigned(i) /\ OneReassigns(i) /\ NothingMissed(i)
    BY <1>2, <1>4 DEF AssignInv
  <2>2. OneAssigned(i)'
    BY <1>2, <2>1 DEF OneAssigned
  <2>3. OneReassigns(i)'
    <3>1. CASE i = r.index
      <4>1. Reassigning(i) = {}
        BY <1>2, <1>4, <3>1
      <4>2. Reassigning(i)' \subseteq {c}
        BY <1>3, <4>1 DEF Reassigning
      <4> QED
        BY <4>2 DEF OneReassigns
    <3>2. CASE i # r.index
      <4>1. Reassigning(i)' \subseteq Reassigning(i)
        BY <1>1, <1>3, <3>2 DEF Reassigning
      <4> QED
        BY <2>1, <4>1 DEF OneReassigns
    <3> QED
      BY <3>1, <3>2
  <2>4. NothingMissed(i)'
    BY <1>1, <1>2, <1>3, <2>1 DEF NothingMissed
  <2> QED
    BY <2>2, <2>3, <2>4
<1> QED
  BY <1>4 DEF OneForAll, Indices

(* Looking for the assignment: what is found is all there is. *)
LEMMA LookForAssignmentOne ==
    ASSUME AssignInv, NEW c \in Clerks, LookForAssignment(c)
    PROVE  OneForAll(Indices \ raced)'
<1>1. txn[c].at = "reading" /\ assigned' = assigned /\ raced' = raced
  BY DEF LookForAssignment
<1>2. txn[c] \in Txn
  BY DEF AssignInv, HaulingInv, HaulingTypeOK
<1>3. \E rec \in Txn :
         /\ txn' = [txn EXCEPT ![c] = rec]
         /\ rec.index = txn[c].index
         /\ rec.found = {} => \A a \in assigned : a.index # txn[c].index
  <2>1. CASE Matching(txn[c]) = {} /\ Step(c, [txn[c] EXCEPT !.at = "looked"])
    <3>1. \A a \in assigned : a.index # txn[c].index
      BY <2>1 DEF Matching
    <3> DEFINE rec == [txn[c] EXCEPT !.at = "looked"]
    <3>2. rec \in Txn /\ rec.index = txn[c].index
      BY <1>2 DEF Txn
    <3>3. txn' = [txn EXCEPT ![c] = rec]
      BY <2>1 DEF Step
    <3> HIDE DEF rec
    <3> QED
      BY <3>1, <3>2, <3>3
  <2>2. ASSUME NEW a \in Matching(txn[c]),
               Step(c, [txn[c] EXCEPT !.at = "looked", !.found = {a.id}])
        PROVE  \E rec \in Txn :
                  /\ txn' = [txn EXCEPT ![c] = rec]
                  /\ rec.index = txn[c].index
                  /\ rec.found = {} => \A b \in assigned : b.index # txn[c].index
    <3> DEFINE rec == [txn[c] EXCEPT !.at = "looked", !.found = {a.id}]
    <3>1. a.id \in Nat
      BY DEF Matching, AssignInv, HaulingInv, HaulingTypeOK, Assignment
    <3>2. rec \in Txn /\ rec.index = txn[c].index /\ rec.found # {}
      BY <1>2, <3>1 DEF Txn
    <3>3. txn' = [txn EXCEPT ![c] = rec]
      BY <2>2 DEF Step
    <3> HIDE DEF rec
    <3> QED
      BY <3>2, <3>3
  <2> QED
    BY <2>1, <2>2 DEF LookForAssignment
<1>4. PICK rec \in Txn :
         /\ txn' = [txn EXCEPT ![c] = rec]
         /\ rec.index = txn[c].index
         /\ rec.found = {} => \A a \in assigned : a.index # txn[c].index
  BY <1>3
<1>5. \A d \in Clerks : txn'[d] = IF d = c THEN rec ELSE txn[d]
  <2>1. HaulingInv /\ txn' = [txn EXCEPT ![c] = rec]
    BY <1>4 DEF AssignInv
  <2> QED
    BY <2>1, CallBecomes
<1>6. ASSUME NEW i \in Indices \ raced
      PROVE  (OneAssigned(i) /\ OneReassigns(i) /\ NothingMissed(i))'
  <2>1. OneAssigned(i) /\ OneReassigns(i) /\ NothingMissed(i)
    BY DEF AssignInv
  <2>2. OneAssigned(i)'
    BY <1>1, <2>1 DEF OneAssigned
  <2>3. Reassigning(i)' \subseteq Reassigning(i)
    BY <1>1, <1>4, <1>5 DEF Reassigning
  <2>4. OneReassigns(i)'
    BY <2>1, <2>3 DEF OneReassigns
  <2>5. NothingMissed(i)'
    BY <1>1, <1>4, <1>5, <2>1 DEF NothingMissed
  <2> QED
    BY <2>2, <2>4, <2>5
<1> QED
  BY <1>1, <1>6 DEF OneForAll, Indices

(* A call is over: it may change what is assigned, to at most one in each session. *)
LEMMA CallsOver ==
    ASSUME AssignInv, NEW c \in Clerks, Over(c), raced' = raced,
           \A i \in Indices \ raced :
              /\ OneAssigned(i)'
              /\ (\E a \in assigned' : a.index = i) =>
                    \/ \E a \in assigned : a.index = i
                    \/ \A d \in Clerks \ {c} : d \notin Reassigning(i)
    PROVE  OneForAll(Indices \ raced)'
<1>1. HaulingInv /\ txn' = [txn EXCEPT ![c] = NoTxn] /\ NoTxn.at = "idle"
  BY DEF AssignInv, Over, Step, NoTxn
<1>2. \A d \in Clerks : txn'[d] = IF d = c THEN NoTxn ELSE txn[d]
  BY <1>1, CallBecomes
<1>3. ASSUME NEW i \in Indices \ raced
      PROVE  (OneReassigns(i) /\ NothingMissed(i))'
  <2>1. OneReassigns(i) /\ NothingMissed(i)
    BY DEF AssignInv
  <2>2. Reassigning(i)' \subseteq Reassigning(i)
    BY <1>1, <1>2 DEF Reassigning
  <2>3. OneReassigns(i)'
    BY <2>1, <2>2 DEF OneReassigns
  <2>4. ASSUME NEW d \in Clerks, txn'[d].at = "looked", txn'[d].index = i, txn'[d].found = {},
               NEW b \in assigned', b.index = i
        PROVE  FALSE
    <3>1. d # c /\ txn[d] = txn'[d]
      BY <1>1, <1>2, <2>4
    <3>2. d \in Reassigning(i)
      BY <2>4, <3>1 DEF Reassigning
    <3>3. \E a \in assigned : a.index = i
      BY <2>4, <3>1, <3>2
    <3> QED
      BY <2>1, <2>4, <3>1, <3>3 DEF NothingMissed
  <2>5. NothingMissed(i)'
    BY <2>4 DEF NothingMissed
  <2> QED
    BY <2>3, <2>5
<1> QED
  BY <1>3 DEF OneForAll, Indices

(* The new session had neither an assignment nor a call. *)
LEMMA CommitEndOne ==
    ASSUME AssignInv, NEW c \in Clerks, CommitEnd(c)
    PROVE  OneForAll(Indices \ raced)'
<1> DEFINE t == txn[c]
           added == {[id |-> NewId(t.index + 1), index |-> t.index + 1, excavator |-> x,
                      material |-> t.material] : x \in {t.excavator} \ {None}}
<1>1. Over(c) /\ raced' = raced
  BY DEF CommitEnd
<1>2. CASE assigned' = assigned
  <2>1. \A i \in Indices \ raced : OneAssigned(i)'
    BY <1>2 DEF AssignInv, OneAssigned
  <2> QED
    BY <1>1, <1>2, <2>1, CallsOver
<1>3. CASE ~SessionTaken(t.index + 1) /\ assigned' = assigned \cup added
  <2>1. ~HasSession(t.index + 1)
    BY <1>3 DEF SessionTaken, HasSession
  <2>2. \A a \in assigned : a.index # t.index + 1
    BY <2>1 DEF AssignInv, Belongs
  <2>3. \A d \in Clerks : d \notin Reassigning(t.index + 1)
    BY <2>1 DEF AssignInv, Belongs, Reassigning
  <2>4. \A a \in added : a.index = t.index + 1
    OBVIOUS
  <2>5. \A a, b \in added : a = b
    OBVIOUS
  <2> HIDE DEF added
  <2>6. ASSUME NEW i \in Indices \ raced
        PROVE  /\ OneAssigned(i)'
               /\ (\E a \in assigned' : a.index = i) =>
                    \/ \E a \in assigned : a.index = i
                    \/ \A d \in Clerks \ {c} : d \notin Reassigning(i)
    <3>1. OneAssigned(i)
      BY DEF AssignInv
    <3>2. OneAssigned(i)'
      BY <1>3, <2>2, <2>4, <2>5, <3>1 DEF OneAssigned
    <3> QED
      BY <1>3, <2>3, <2>4, <3>2
  <2> QED
    BY <1>1, <2>6, CallsOver
<1> QED
  BY <1>2, <1>3 DEF CommitEnd

(* A sub-material changes no number of assignments. *)
LEMMA CommitUpdateMaterialOne ==
    ASSUME AssignInv, NEW c \in Clerks, NEW sub \in Materials, CommitUpdateMaterial(c, sub)
    PROVE  OneForAll(Indices \ raced)'
<1> DEFINE t == txn[c]
           carried(a) == IF a.index = t.index THEN [a EXCEPT !.material = sub] ELSE a
<1>1. Over(c) /\ raced' = raced
  BY DEF CommitUpdateMaterial
<1>2. CASE assigned' = assigned
  <2>1. \A i \in Indices \ raced : OneAssigned(i)'
    BY <1>2 DEF AssignInv, OneAssigned
  <2> QED
    BY <1>1, <1>2, <2>1, CallsOver
<1>3. CASE assigned' = {carried(a) : a \in assigned}
  <2>1. \A a \in assigned : carried(a).index = a.index
    <3>1. ASSUME NEW a \in assigned PROVE carried(a).index = a.index
      <4>1. a \in Assignment
        BY DEF AssignInv, HaulingInv, HaulingTypeOK
      <4> QED
        BY <4>1 DEF Assignment
    <3> QED
      BY <3>1
  <2> HIDE DEF carried
  <2>2. ASSUME NEW i \in Indices \ raced
        PROVE  OneAssigned(i)'
    <3>1. OneAssigned(i)
      BY DEF AssignInv
    <3>2. ASSUME NEW a \in assigned', NEW b \in assigned', a.index = i, b.index = i
          PROVE  a = b
      <4>1. PICK p \in assigned : a = carried(p)
        BY <1>3
      <4>2. PICK q \in assigned : b = carried(q)
        BY <1>3
      <4>3. p = q
        BY <2>1, <3>1, <3>2, <4>1, <4>2 DEF OneAssigned
      <4> QED
        BY <4>1, <4>2, <4>3
    <3> QED
      BY <3>2 DEF OneAssigned
  <2>3. \A i : (\E a \in assigned' : a.index = i) => \E a \in assigned : a.index = i
    BY <1>3, <2>1
  <2> QED
    BY <1>1, <2>2, <2>3, CallsOver
<1> QED
  BY <1>2, <1>3 DEF CommitUpdateMaterial

(* What is inserted was looked for in vain, by the only call that reassigns. *)
LEMMA CommitReassignOne ==
    ASSUME AssignInv, NEW c \in Clerks, CommitReassign(c)
    PROVE  OneForAll(Indices \ raced)'
<1> DEFINE t == txn[c]
           chosen == {a \in assigned : a.index = t.index /\ a.id \in t.found}
           moved(a) == [a EXCEPT !.excavator = t.excavator]
           row == [id |-> NewId(t.index), index |-> t.index, excavator |-> t.excavator,
                   material |-> t.material]
<1>1. Over(c) /\ raced' = raced /\ t.at = "looked" /\ assigned \subseteq Assignment
  BY DEF CommitReassign, AssignInv, HaulingInv, HaulingTypeOK
<1>2. CASE assigned' = assigned
  <2>1. \A i \in Indices \ raced : OneAssigned(i)'
    BY <1>2 DEF AssignInv, OneAssigned
  <2> QED
    BY <1>1, <1>2, <2>1, CallsOver
<1>3. CASE assigned' = assigned \ chosen
  <2> HIDE DEF chosen
  <2>1. ASSUME NEW i \in Indices \ raced PROVE OneAssigned(i)'
    BY <1>3 DEF AssignInv, OneAssigned
  <2> QED
    BY <1>1, <1>3, <2>1, CallsOver
<1>4. CASE assigned' = (assigned \ chosen) \cup {moved(a) : a \in chosen}
  <2>1. \A a \in chosen : moved(a).index = a.index /\ a \in assigned
    <3>1. ASSUME NEW a \in chosen PROVE moved(a).index = a.index /\ a \in assigned
      BY <1>1 DEF Assignment
    <3> QED
      BY <3>1
  <2> HIDE DEF moved, chosen
  <2>2. ASSUME NEW i \in Indices \ raced
        PROVE  OneAssigned(i)'
    <3>1. OneAssigned(i)
      BY DEF AssignInv
    <3> DEFINE now(p) == IF p \in chosen THEN moved(p) ELSE p
    <3>2. ASSUME NEW a \in assigned'
          PROVE  \E p \in assigned : a = now(p) /\ p.index = a.index
      <4>1. CASE a \in assigned \ chosen
        BY <4>1
      <4>2. ASSUME NEW p \in chosen, a = moved(p)
            PROVE  p \in assigned /\ p.index = a.index /\ a = now(p)
        BY <2>1, <4>2
      <4> HIDE DEF now
      <4> QED
        BY <1>4, <4>1, <4>2
    <3> HIDE DEF now
    <3> QED
      BY <3>1, <3>2 DEF OneAssigned
  <2>3. \A i : (\E a \in assigned' : a.index = i) => \E a \in assigned : a.index = i
    BY <1>4, <2>1
  <2> QED
    BY <1>1, <2>2, <2>3, CallsOver
<1>5. CASE t.found = {} /\ assigned' = assigned \cup {row}
  <2>1. row.index = t.index
    OBVIOUS
  <2> HIDE DEF row
  <2>2. ASSUME NEW i \in Indices \ raced
        PROVE  /\ OneAssigned(i)'
               /\ (\E a \in assigned' : a.index = i) =>
                    \/ \E a \in assigned : a.index = i
                    \/ \A d \in Clerks \ {c} : d \notin Reassigning(i)
    <3>1. OneAssigned(i) /\ OneReassigns(i) /\ NothingMissed(i)
      BY DEF AssignInv
    <3>2. CASE i # t.index
      BY <1>5, <2>1, <3>1, <3>2 DEF OneAssigned
    <3>3. CASE i = t.index
      <4>1. \A a \in assigned : a.index # i
        BY <1>1, <1>5, <3>1, <3>3 DEF NothingMissed
      <4>2. OneAssigned(i)'
        BY <1>5, <4>1 DEF OneAssigned
      <4>3. c \in Reassigning(i)
        BY <1>1, <3>3 DEF Reassigning
      <4> QED
        BY <3>1, <4>2, <4>3 DEF OneReassigns
    <3> QED
      BY <3>2, <3>3
  <2> QED
    BY <1>1, <2>2, CallsOver
<1> QED
  BY <1>2, <1>3, <1>4, <1>5 DEF CommitReassign, Reassigned

(* What is assigned, and who calls, belongs to a session. *)
LEMMA BelongsKept ==
    ASSUME AssignInv, HaulingNext PROVE Belongs'
<1> DEFINE RowsBelong == \A a \in assigned' : \E r \in loads' : r.index = a.index
           CallsBelong == \A d \in Clerks : txn'[d].at # "idle" =>
                             \E r \in loads' : r.index = txn'[d].index
<1>1. HaulingInv /\ Belongs /\ assigned \subseteq Assignment /\ loads \subseteq Load
  BY DEF AssignInv, HaulingInv, HaulingTypeOK
<1>2. \A i : HasSession(i) => \E r \in loads' : r.index = i
  BY SessionsStay DEF HasSession
<1>3. SUFFICES RowsBelong /\ CallsBelong
  BY DEF Belongs, HasSession
<1>4. ASSUME assigned' = assigned PROVE RowsBelong
  BY <1>1, <1>2, <1>4 DEF Belongs
<1>5. ASSUME NEW c \in Clerks, NEW rec, txn' = [txn EXCEPT ![c] = rec],
             rec.at # "idle" => HasSession(rec.index)
      PROVE  CallsBelong
  <2>1. \A d \in Clerks : txn'[d] = IF d = c THEN rec ELSE txn[d]
    BY <1>1, <1>5, CallBecomes
  <2>2. ASSUME NEW d \in Clerks, txn'[d].at # "idle" PROVE HasSession(txn'[d].index)
    BY <1>1, <1>5, <2>1, <2>2 DEF Belongs
  <2> QED
    BY <1>2, <2>2
<1>6. ASSUME NEW c \in Clerks, Over(c) PROVE CallsBelong
  <2>1. txn' = [txn EXCEPT ![c] = NoTxn] /\ NoTxn.at = "idle"
    BY <1>6 DEF Over, Step, NoTxn
  <2> QED
    BY <1>5, <2>1
<1>7. CASE NextHour
  <2>1. assigned' = assigned /\ txn' = txn
    BY <1>7 DEF NextHour
  <2> QED
    BY <1>1, <1>2, <1>4, <2>1 DEF Belongs
<1> HIDE DEF RowsBelong, CallsBelong
<1>8. ASSUME NEW c \in Clerks, NEW r \in loads, NEW m \in Materials, NEW x, NEW stop,
             CallEnd(c, r, stop, m, x)
      PROVE  RowsBelong /\ CallsBelong
  <2> DEFINE rec == [NoTxn EXCEPT !.at = "ending", !.index = r.index, !.stop = stop,
                                  !.material = m, !.excavator = x]
  <2>1. rec.index = r.index
    BY DEF NoTxn
  <2>2. txn' = [txn EXCEPT ![c] = rec] /\ assigned' = assigned
    BY <1>8 DEF CallEnd, Calls
  <2> HIDE DEF rec
  <2>3. HasSession(rec.index)
    BY <2>1 DEF HasSession
  <2> QED
    BY <1>4, <1>5, <2>2, <2>3
<1>9. ASSUME NEW c \in Clerks, NEW i, NEW m, CallUpdateMaterial(c, i, m)
      PROVE  RowsBelong /\ CallsBelong
  <2> DEFINE rec == [NoTxn EXCEPT !.at = "updating", !.index = i, !.material = m]
  <2>1. rec.index = i
    BY DEF NoTxn
  <2>2. txn' = [txn EXCEPT ![c] = rec] /\ assigned' = assigned /\ \E r \in loads : r.index = i
    BY <1>9 DEF CallUpdateMaterial, Calls
  <2> HIDE DEF rec
  <2>3. HasSession(rec.index)
    BY <2>1, <2>2 DEF HasSession
  <2> QED
    BY <1>4, <1>5, <2>2, <2>3
<1>10. ASSUME NEW c \in Clerks, NEW r \in loads, NEW x, CallReassign(c, r, x)
       PROVE  RowsBelong /\ CallsBelong
  <2> DEFINE rec == [NoTxn EXCEPT !.at = "reading", !.index = r.index, !.material = r.material,
                                  !.excavator = x, !.fresh = Fresh(x)]
  <2>1. rec.index = r.index
    BY DEF NoTxn
  <2>2. txn' = [txn EXCEPT ![c] = rec] /\ assigned' = assigned
    BY <1>10 DEF CallReassign, Calls
  <2> HIDE DEF rec
  <2>3. HasSession(rec.index)
    BY <2>1 DEF HasSession
  <2> QED
    BY <1>4, <1>5, <2>2, <2>3
<1>11. ASSUME NEW c \in Clerks, txn[c].at # "idle", assigned' = assigned,
              NEW rec, txn' = [txn EXCEPT ![c] = rec], rec.index = txn[c].index
       PROVE  RowsBelong /\ CallsBelong
  BY <1>1, <1>4, <1>5, <1>11 DEF Belongs
<1>12. ASSUME NEW c \in Clerks, LockEnded(c) PROVE RowsBelong /\ CallsBelong
  <2> DEFINE rec == [txn[c] EXCEPT !.at = "locked", !.fresh = Fresh(txn[c].excavator)]
  <2>1. txn[c] \in Txn
    BY DEF AssignInv, HaulingInv, HaulingTypeOK
  <2>2. rec.index = txn[c].index
    BY <2>1 DEF Txn
  <2>3. txn[c].at = "ending" /\ txn' = [txn EXCEPT ![c] = rec] /\ assigned' = assigned
    BY <1>12 DEF LockEnded, Step
  <2> HIDE DEF rec
  <2> QED
    BY <1>11, <2>2, <2>3
<1>13. ASSUME NEW c \in Clerks, LookForAssignment(c) PROVE RowsBelong /\ CallsBelong
  <2>1. txn[c] \in Txn
    BY DEF AssignInv, HaulingInv, HaulingTypeOK
  <2>2. txn[c].at = "reading" /\ assigned' = assigned
    BY <1>13 DEF LookForAssignment
  <2>3. CASE txn' = [txn EXCEPT ![c] = [txn[c] EXCEPT !.at = "looked"]]
    <3>1. [txn[c] EXCEPT !.at = "looked"].index = txn[c].index
      BY <2>1 DEF Txn
    <3> QED
      BY <1>11, <2>2, <2>3, <3>1
  <2>4. ASSUME NEW found,
               txn' = [txn EXCEPT ![c] = [txn[c] EXCEPT !.at = "looked", !.found = found]]
        PROVE  RowsBelong /\ CallsBelong
    <3> DEFINE rec == [txn[c] EXCEPT !.at = "looked", !.found = found]
    <3>1. rec.index = txn[c].index
      BY <2>1 DEF Txn
    <3>2. txn' = [txn EXCEPT ![c] = rec]
      BY <2>4
    <3> HIDE DEF rec
    <3> QED
      BY <1>11, <2>2, <3>1, <3>2
  <2> QED
    BY <1>13, <2>3, <2>4 DEF LookForAssignment, Step
<1>14. ASSUME NEW c \in Clerks, CommitEnd(c) PROVE RowsBelong /\ CallsBelong
  <2> DEFINE i == txn[c].index + 1
             next == [index |-> i, open |-> After(txn[c].stop), material |-> txn[c].material]
             added == {[id |-> NewId(i), index |-> i, excavator |-> x,
                        material |-> txn[c].material] : x \in {txn[c].excavator} \ {None}}
  <2>1. CallsBelong
    BY <1>6, <1>14 DEF CommitEnd
  <2>2. CASE next \in loads' /\ assigned' = assigned \cup added
    <3>1. next.index = i /\ \A a \in added : a.index = i
      OBVIOUS
    <3> HIDE DEF next, added
    <3>2. RowsBelong
      BY <1>1, <1>2, <2>2, <3>1 DEF Belongs, RowsBelong
    <3> QED
      BY <2>1, <3>2
  <2>3. CASE assigned' = assigned
    BY <1>4, <2>1, <2>3
  <2> QED
    BY <1>14, <2>2, <2>3 DEF CommitEnd
<1>15. ASSUME NEW c \in Clerks, NEW sub \in Materials, CommitUpdateMaterial(c, sub)
       PROVE  RowsBelong /\ CallsBelong
  <2> DEFINE carried(a) == IF a.index = txn[c].index THEN [a EXCEPT !.material = sub] ELSE a
  <2>1. CallsBelong
    BY <1>6, <1>15 DEF CommitUpdateMaterial
  <2>2. CASE assigned' = {carried(a) : a \in assigned}
    <3>1. ASSUME NEW a \in assigned PROVE carried(a).index = a.index
      <4>1. a \in Assignment
        BY <1>1
      <4> QED
        BY <4>1 DEF Assignment
    <3> HIDE DEF carried
    <3>2. RowsBelong
      BY <1>1, <1>2, <2>2, <3>1 DEF Belongs, RowsBelong
    <3> QED
      BY <2>1, <3>2
  <2>3. CASE assigned' = assigned
    BY <1>4, <2>1, <2>3
  <2> QED
    BY <1>15, <2>2, <2>3 DEF CommitUpdateMaterial
<1>16. ASSUME NEW c \in Clerks, CommitReassign(c) PROVE RowsBelong /\ CallsBelong
  <2> DEFINE t == txn[c]
             chosen == {a \in assigned : a.index = t.index /\ a.id \in t.found}
             moved(a) == [a EXCEPT !.excavator = t.excavator]
             row == [id |-> NewId(t.index), index |-> t.index, excavator |-> t.excavator,
                     material |-> t.material]
  <2>1. CallsBelong
    BY <1>6, <1>16 DEF CommitReassign
  <2>2. CASE assigned' \subseteq assigned
    BY <1>1, <1>2, <2>1, <2>2 DEF Belongs, RowsBelong
  <2>3. CASE assigned' = (assigned \ chosen) \cup {moved(a) : a \in chosen}
    <3>1. ASSUME NEW a \in chosen PROVE a \in assigned /\ moved(a).index = a.index
      <4>1. a \in Assignment
        BY <1>1
      <4> QED
        BY <4>1 DEF Assignment
    <3> HIDE DEF moved, chosen
    <3>2. ASSUME NEW a \in assigned' PROVE \E p \in assigned : p.index = a.index
      <4>1. CASE a \in assigned
        BY <4>1
      <4>2. ASSUME NEW p \in chosen, a = moved(p) PROVE \E q \in assigned : q.index = a.index
        BY <3>1, <4>2
      <4> QED
        BY <2>3, <4>1, <4>2
    <3>3. RowsBelong
      BY <1>1, <1>2, <3>2 DEF Belongs, RowsBelong
    <3> QED
      BY <2>1, <3>3
  <2>4. CASE assigned' = assigned \cup {row}
    <3>1. row.index = t.index
      OBVIOUS
    <3>2. HasSession(t.index)
      BY <1>1, <1>16 DEF Belongs, CommitReassign
    <3> HIDE DEF row
    <3>3. RowsBelong
      BY <1>1, <1>2, <2>4, <3>1, <3>2 DEF Belongs, RowsBelong
    <3> QED
      BY <2>1, <3>3
  <2> QED
    BY <1>16, <2>2, <2>3, <2>4 DEF CommitReassign, Reassigned
<1> QED
  BY <1>7, <1>8, <1>9, <1>10, <1>12, <1>13, <1>14, <1>15, <1>16 DEF HaulingNext

(* Every step keeps one assignment of a session. *)
LEMMA AssignInvKept ==
    ASSUME HaulingAssumption, AssignInv, [HaulingNext]_haulingVars
    PROVE  AssignInv'
<1>1. HaulingInv /\ HaulingInv'
  BY HaulingInvKept DEF AssignInv
<1>2. CASE UNCHANGED haulingVars
  <2>1. Belongs'
    BY <1>2 DEF haulingVars, AssignInv, Belongs, HasSession
  <2>2. \A i : (OneAssigned(i) <=> OneAssigned(i)') /\ (OneReassigns(i) <=> OneReassigns(i)')
               /\ (NothingMissed(i) <=> NothingMissed(i)')
    BY <1>2 DEF haulingVars, OneAssigned, OneReassigns, NothingMissed, Reassigning
  <2>3. raced' = raced
    BY <1>2 DEF haulingVars
  <2> QED
    BY <1>1, <2>1, <2>2, <2>3 DEF AssignInv, Indices
<1>3. CASE HaulingNext
  <2>1. Belongs'
    BY <1>3, BelongsKept
  <2>2. SUFFICES OneForAll(Indices \ raced)'
    BY <1>1, <2>1 DEF AssignInv, OneForAll
  <2>3. CASE NextHour
    BY <2>3 DEF NextHour, OneForAll, AssignInv, OneAssigned, OneReassigns, NothingMissed,
       Reassigning, Indices
  <2>4. ASSUME NEW c \in Clerks, NEW r \in loads, NEW m, NEW x, NEW stop,
               CallEnd(c, r, stop, m, x)
        PROVE  OneForAll(Indices \ raced)'
    <3> DEFINE rec == [NoTxn EXCEPT !.at = "ending", !.index = r.index, !.stop = stop,
                                    !.material = m, !.excavator = x]
    <3>1. rec.at = "ending"
      BY DEF NoTxn
    <3>2. txn' = [txn EXCEPT ![c] = rec] /\ assigned' = assigned /\ raced' = raced
      BY <2>4 DEF CallEnd, Calls
    <3> HIDE DEF rec
    <3> QED
      BY <3>1, <3>2, OthersStep
  <2>5. ASSUME NEW c \in Clerks, NEW i, NEW m, CallUpdateMaterial(c, i, m)
        PROVE  OneForAll(Indices \ raced)'
    <3> DEFINE rec == [NoTxn EXCEPT !.at = "updating", !.index = i, !.material = m]
    <3>1. rec.at = "updating"
      BY DEF NoTxn
    <3>2. txn' = [txn EXCEPT ![c] = rec] /\ assigned' = assigned /\ raced' = raced
      BY <2>5 DEF CallUpdateMaterial, Calls
    <3> HIDE DEF rec
    <3> QED
      BY <3>1, <3>2, OthersStep
  <2>6. ASSUME NEW c \in Clerks, LockEnded(c) PROVE OneForAll(Indices \ raced)'
    <3> DEFINE rec == [txn[c] EXCEPT !.at = "locked", !.fresh = Fresh(txn[c].excavator)]
    <3>1. txn[c] \in Txn
      BY DEF AssignInv, HaulingInv, HaulingTypeOK
    <3>2. rec.at = "locked"
      BY <3>1 DEF Txn
    <3>3. txn' = [txn EXCEPT ![c] = rec] /\ assigned' = assigned /\ raced' = raced
      BY <2>6 DEF LockEnded, Step
    <3> HIDE DEF rec
    <3> QED
      BY <3>2, <3>3, OthersStep
  <2> QED
    BY <1>3, <2>3, <2>4, <2>5, <2>6, CallReassignOne, LookForAssignmentOne, CommitEndOne,
       CommitUpdateMaterialOne, CommitReassignOne DEF HaulingNext
<1> QED
  BY <1>2, <1>3

(* Nothing is assigned at first. *)
LEMMA AssignInvBegins ==
    ASSUME HaulingAssumption, HaulingInit PROVE AssignInv
<1>1. HaulingInv
  BY HaulingInvBegins
<1>2. \A c \in Clerks : txn[c].at = "idle"
  BY DEF HaulingInit, NoTxn
<1>3. assigned = {}
  BY DEF HaulingInit
<1> QED
  BY <1>1, <1>2, <1>3 DEF AssignInv, Belongs, OneAssigned, OneReassigns, NothingMissed, Reassigning

(* One assignment of a session, always. *)
LEMMA AssignInvAlways == HaulingSpec => []AssignInv
<1> QED
  BY HaulingAssumption, AssignInvBegins, AssignInvKept, PTL DEF HaulingSpec

(* A set whose elements are all the same has at most one. *)
LEMMA OneAssignment ==
    ASSUME NEW S, \A x, y \in S : x = y
    PROVE  Cardinality(S) <= 1
<1>1. CASE S = {}
  BY <1>1, FS_EmptySet
<1>2. ASSUME NEW x \in S PROVE Cardinality(S) <= 1
  <2>1. S = {x}
    BY <1>2
  <2> QED
    BY <2>1, FS_Singleton
<1> QED
  BY <1>1, <1>2

(***************************************************************************)
(* A session has one assignment, however many clerks end sessions, update  *)
(* materials and reassign, unless two reassignments of it overlapped       *)
(* (control_room_reassign_excavator() looks without a lock, then inserts). *)
(***************************************************************************)
THEOREM AssignedAtMostOnce == HaulingSpec => []AssignedOnce
<1>1. AssignInv => AssignedOnce
  <2> SUFFICES ASSUME AssignInv, NEW i \in Indices \ raced
               PROVE  Cardinality({a \in assigned : a.index = i}) <= 1
    BY DEF AssignedOnce
  <2>1. \A a, b \in {e \in assigned : e.index = i} : a = b
    BY DEF AssignInv, OneAssigned
  <2> QED
    BY <2>1, OneAssignment
<1> QED
  BY <1>1, AssignInvAlways, PTL

-----------------------------------------------------------------------------
(***************************************************************************)
(* Hours.  The last session is open from its first hour to the end of the  *)
(* shift, and was opened no later than now; so who ends it now finds every *)
(* later hour open in it, and hands it on.                                 *)
(***************************************************************************)
OpenOnce ==
    \A h \in Hours : \E r \in loads : h \in r.open /\ \A s \in loads : h \in s.open => s = r

(* The hours to come are open in the last session. *)
LastIsOpen ==
    \A r \in loads : ~HasSession(r.index + 1) => \A h \in Hours : h > hour => h \in r.open

(* Whoever ends the last session finds the hours after the end open. *)
EndIsOpen ==
    \A c \in Clerks :
        txn[c].at \in {"ending", "locked"} =>
            /\ txn[c].stop <= hour
            /\ \A r \in loads :
                  r.index = txn[c].index /\ ~HasSession(r.index + 1) =>
                      \A h \in Hours : h > txn[c].stop => h \in r.open

(* All of it, as long as sessions are ended by the hour that is. *)
HoursInv == AssignInv /\ (OnTime => OpenOnce /\ LastIsOpen /\ EndIsOpen)

(* Nothing changes but calls that end nothing. *)
LEMMA HoursOthers ==
    ASSUME AssignInv, OpenOnce, LastIsOpen, EndIsOpen, hour' = hour, loads' = loads,
           NEW c \in Clerks, NEW rec, txn' = [txn EXCEPT ![c] = rec],
           rec.at \in {"ending", "locked"} =>
              txn[c].at \in {"ending", "locked"} /\ rec.stop = txn[c].stop /\ rec.index = txn[c].index
    PROVE  (OpenOnce /\ LastIsOpen /\ EndIsOpen)'
<1>1. \A d \in Clerks : txn'[d] = IF d = c THEN rec ELSE txn[d]
  BY CallBecomes DEF AssignInv
<1>2. OpenOnce'
  BY DEF OpenOnce
<1>3. LastIsOpen'
  BY DEF LastIsOpen, HasSession
<1>4. EndIsOpen'
  BY <1>1 DEF EndIsOpen, HasSession
<1> QED
  BY <1>2, <1>3, <1>4

(* Whoever ends a session at the hour it is finds the later hours open in it. *)
LEMMA CallEndHours ==
    ASSUME AssignInv, OnTime, OpenOnce, LastIsOpen, EndIsOpen,
           NEW c \in Clerks, NEW q \in loads, NEW m, NEW x, NEW stop, CallEnd(c, q, stop, m, x)
    PROVE  (OpenOnce /\ LastIsOpen /\ EndIsOpen)'
<1> DEFINE rec == [NoTxn EXCEPT !.at = "ending", !.index = q.index, !.stop = stop,
                                !.material = m, !.excavator = x]
<1>1. rec.stop = stop /\ rec.index = q.index
  BY DEF NoTxn
<1>2. /\ txn' = [txn EXCEPT ![c] = rec] /\ stop = hour /\ hour' = hour /\ loads' = loads
  BY DEF CallEnd, Calls
<1> HIDE DEF rec
<1>3. \A d \in Clerks : txn'[d] = IF d = c THEN rec ELSE txn[d]
  BY <1>2, CallBecomes DEF AssignInv
<1>4. hour \in Nat
  BY DEF AssignInv, HaulingInv, HaulingTypeOK, Hours
<1>5. OpenOnce'
  BY <1>2 DEF OpenOnce
<1>6. LastIsOpen'
  BY <1>2 DEF LastIsOpen, HasSession
<1>7. ASSUME NEW d \in Clerks, txn'[d].at \in {"ending", "locked"}
      PROVE  /\ txn'[d].stop <= hour
             /\ \A r \in loads :
                   r.index = txn'[d].index /\ ~HasSession(r.index + 1) =>
                       \A h \in Hours : h > txn'[d].stop => h \in r.open
  <2>1. CASE d = c
    BY <1>1, <1>2, <1>3, <1>4, <2>1 DEF LastIsOpen
  <2>2. CASE d # c
    BY <1>3, <1>7, <2>2 DEF EndIsOpen
  <2> QED
    BY <2>1, <2>2
<1>8. EndIsOpen'
  BY <1>2, <1>7 DEF EndIsOpen, HasSession
<1> QED
  BY <1>5, <1>6, <1>8

(* What follows the stop is closed in the ended session and open in the new one. *)
LEMMA CommitEndHours ==
    ASSUME AssignInv, OpenOnce, LastIsOpen, EndIsOpen, NEW c \in Clerks, CommitEnd(c)
    PROVE  (OpenOnce /\ LastIsOpen /\ EndIsOpen)'
<1> DEFINE t == txn[c]
           i == t.index
           next == [index |-> i + 1, open |-> After(t.stop), material |-> t.material]
           ended(r) == IF r.index = i THEN [r EXCEPT !.open = Remaining(@, t.stop)] ELSE r
<1>1. /\ txn' = [txn EXCEPT ![c] = NoTxn] /\ hour' = hour
      /\ t.at = "locked" /\ NoTxn.at = "idle"
  BY DEF CommitEnd, Over, Step, NoTxn
<1>2. CASE loads' = loads
  BY <1>1, <1>2, HoursOthers
<1>3. CASE ~SessionTaken(i + 1) /\ loads' = {next} \cup {ended(r) : r \in loads}
  <2>1. /\ loads \subseteq Load /\ i \in Nat /\ hour \in Nat /\ t.stop \in Nat
        /\ \A r, s \in loads : r.index = s.index => r = s
        /\ \A r \in loads : r.index \in Nat
    BY DEF AssignInv, HaulingInv, HaulingTypeOK, Txn, Load, Indices, Hours
  <2>2. ~HasSession(i + 1)
    BY <1>3 DEF SessionTaken, HasSession
  <2>3. PICK last \in loads : last.index = i
    BY <1>1 DEF AssignInv, Belongs, HasSession
  <2>4. t.stop <= hour /\ \A h \in Hours : h > t.stop => h \in last.open
    BY <1>1, <2>2, <2>3 DEF EndIsOpen
  <2>5. next.index = i + 1 /\ next.open = {h \in Hours : h > t.stop}
    BY DEF After
  <2>6. ASSUME NEW r \in loads, r # last
        PROVE  ended(r) = r /\ r.index # i
    BY <2>1, <2>3, <2>6
  <2>7. ended(last).index = i /\ ended(last).open = {h \in last.open : h <= t.stop}
    BY <2>1, <2>3 DEF Remaining, Load
  <2> HIDE DEF next, ended
  <2>8. ASSUME NEW h \in Hours
        PROVE  \E r \in loads' : h \in r.open /\ \A s \in loads' : h \in s.open => s = r
    <3>1. PICK r \in loads : h \in r.open /\ \A s \in loads : h \in s.open => s = r
      BY DEF OpenOnce
    <3>2. h \in Nat
      BY DEF Hours
    <3>3. CASE h > t.stop
      <4>1. r = last
        BY <2>3, <2>4, <3>1, <3>3
      <4>2. h \in next.open /\ h \notin ended(last).open
        BY <2>1, <2>5, <2>7, <3>2, <3>3
      <4>3. \A s \in loads : h \notin ended(s).open
        BY <2>6, <3>1, <4>1, <4>2
      <4> QED
        BY <1>3, <4>2, <4>3
    <3>4. CASE ~(h > t.stop)
      <4>1. h \notin next.open
        BY <2>5, <3>4
      <4>2. \A s \in loads : h \in ended(s).open <=> h \in s.open
        BY <2>1, <2>6, <2>7, <3>2, <3>4
      <4> QED
        BY <1>3, <3>1, <4>1, <4>2
    <3> QED
      BY <3>3, <3>4
  <2>9. OpenOnce'
    BY <2>8 DEF OpenOnce, Hours
  <2>10. \A r \in loads : ended(r) \in loads' /\ ended(r).index = r.index
    BY <1>3, <2>3, <2>6, <2>7
  <2>11. \A j : ~(\E s \in loads' : s.index = j) => ~HasSession(j)
    BY <2>10 DEF HasSession
  <2>12. ASSUME NEW s \in loads', ~(\E r \in loads' : r.index = s.index + 1), s # next
         PROVE  s \in loads /\ s.index # i
    <3>1. PICK r \in loads : s = ended(r)
      BY <1>3, <2>12
    <3>2. next \in loads'
      BY <1>3
    <3>3. r # last
      BY <2>3, <2>5, <2>7, <2>12, <3>1, <3>2
    <3> QED
      BY <2>6, <3>1, <3>3
  <2>13. LastIsOpen'
    <3>1. ASSUME NEW s \in loads', ~(\E r \in loads' : r.index = s.index + 1),
                 NEW h \in Hours, h > hour
          PROVE  h \in s.open
      <4>1. CASE s = next
        <5>1. h \in Nat
          BY DEF Hours
        <5> QED
          BY <2>1, <2>4, <2>5, <3>1, <4>1, <5>1
      <4>2. CASE s # next
        BY <2>11, <2>12, <3>1, <4>2 DEF LastIsOpen
      <4> QED
        BY <4>1, <4>2
    <3> QED
      BY <1>1, <3>1 DEF LastIsOpen, HasSession, Hours
  <2>14. EndIsOpen'
    <3>1. \A d \in Clerks : txn'[d] = IF d = c THEN NoTxn ELSE txn[d]
      BY <1>1, CallBecomes DEF AssignInv
    <3>2. ASSUME NEW d \in Clerks, txn'[d].at \in {"ending", "locked"}
          PROVE  txn'[d] = txn[d] /\ txn[d].stop <= hour /\ HasSession(txn[d].index)
      <4>1. d # c /\ txn'[d] = txn[d]
        BY <1>1, <3>1, <3>2
      <4> QED
        BY <3>2, <4>1 DEF EndIsOpen, AssignInv, Belongs
    <3>3. ASSUME NEW d \in Clerks, txn'[d].at \in {"ending", "locked"},
                 NEW s \in loads', s.index = txn[d].index,
                 ~(\E r \in loads' : r.index = s.index + 1),
                 NEW h \in Hours, h > txn[d].stop
          PROVE  h \in s.open
      <4>1. s # next
        BY <2>2, <2>5, <3>2, <3>3
      <4>2. s \in loads /\ ~HasSession(s.index + 1)
        BY <2>11, <2>12, <3>3, <4>1
      <4> QED
        BY <3>2, <3>3, <4>2 DEF EndIsOpen
    <3> QED
      BY <1>1, <3>2, <3>3 DEF EndIsOpen, HasSession, Hours
  <2> QED
    BY <2>9, <2>13, <2>14
<1> QED
  BY <1>2, <1>3 DEF CommitEnd

(* The hours of a session are not its material. *)
LEMMA CommitUpdateMaterialHours ==
    ASSUME AssignInv, OpenOnce, LastIsOpen, EndIsOpen,
           NEW c \in Clerks, NEW sub \in Materials, CommitUpdateMaterial(c, sub)
    PROVE  (OpenOnce /\ LastIsOpen /\ EndIsOpen)'
<1> DEFINE t == txn[c]
           mined(r) == IF r.index = t.index THEN [r EXCEPT !.material = t.material] ELSE r
<1>1. txn' = [txn EXCEPT ![c] = NoTxn] /\ hour' = hour /\ NoTxn.at = "idle"
  BY DEF CommitUpdateMaterial, Over, Step, NoTxn
<1>2. CASE loads' = loads
  BY <1>1, <1>2, HoursOthers
<1>3. CASE loads' = {mined(r) : r \in loads}
  <2>1. ASSUME NEW r \in loads
        PROVE  mined(r).index = r.index /\ mined(r).open = r.open
    <3>1. r \in Load
      BY DEF AssignInv, HaulingInv, HaulingTypeOK
    <3> QED
      BY <3>1 DEF Load
  <2> HIDE DEF mined
  <2>2. \A j : (\E r \in loads' : r.index = j) <=> HasSession(j)
    BY <1>3, <2>1 DEF HasSession
  <2>3. \A d \in Clerks : txn'[d] = IF d = c THEN NoTxn ELSE txn[d]
    BY <1>1, CallBecomes DEF AssignInv
  <2>4. ASSUME NEW h \in Hours
        PROVE  \E r \in loads' : h \in r.open /\ \A s \in loads' : h \in s.open => s = r
    <3>1. PICK r \in loads : h \in r.open /\ \A s \in loads : h \in s.open => s = r
      BY DEF OpenOnce
    <3> QED
      BY <1>3, <2>1, <3>1
  <2>5. OpenOnce'
    BY <2>4 DEF OpenOnce, Hours
  <2>6. ASSUME NEW s \in loads', ~(\E r \in loads' : r.index = s.index + 1),
               NEW h \in Hours, h > hour
        PROVE  h \in s.open
    BY <1>3, <2>1, <2>2, <2>6 DEF LastIsOpen
  <2>7. LastIsOpen'
    BY <1>1, <2>6 DEF LastIsOpen, HasSession, Hours
  <2>8. ASSUME NEW d \in Clerks, txn'[d].at \in {"ending", "locked"}
        PROVE  txn'[d] = txn[d] /\ txn[d].stop <= hour
    BY <1>1, <2>3, <2>8 DEF EndIsOpen
  <2>9. ASSUME NEW d \in Clerks, txn'[d].at \in {"ending", "locked"},
               NEW s \in loads', s.index = txn[d].index,
               ~(\E r \in loads' : r.index = s.index + 1),
               NEW h \in Hours, h > txn[d].stop
        PROVE  h \in s.open
    BY <1>3, <2>1, <2>2, <2>8, <2>9 DEF EndIsOpen
  <2>10. EndIsOpen'
    BY <1>1, <2>8, <2>9 DEF EndIsOpen, HasSession, Hours
  <2> QED
    BY <2>5, <2>7, <2>10
<1> QED
  BY <1>2, <1>3 DEF CommitUpdateMaterial

(* The hour that begins was open to the last session before. *)
LEMMA NextHourHours ==
    ASSUME AssignInv, OpenOnce, LastIsOpen, EndIsOpen, NextHour
    PROVE  (OpenOnce /\ LastIsOpen /\ EndIsOpen)'
<1>1. hour \in Nat /\ hour' = hour + 1 /\ loads' = loads /\ txn' = txn
  BY DEF NextHour, AssignInv, HaulingInv, HaulingTypeOK, Hours
<1>2. \A h \in Hours : h \in Nat
  BY DEF Hours
<1>3. \A c \in Clerks : txn[c].stop \in Nat
  BY DEF AssignInv, HaulingInv, HaulingTypeOK, Txn, Hours
<1>4. OpenOnce'
  BY <1>1 DEF OpenOnce, Hours
<1>5. LastIsOpen'
  <2>1. \A r \in loads : ~HasSession(r.index + 1) => \A h \in Hours : h > hour + 1 => h \in r.open
    BY <1>1, <1>2 DEF LastIsOpen
  <2> QED
    BY <1>1, <2>1 DEF LastIsOpen, HasSession, Hours
<1>6. EndIsOpen'
  BY <1>1, <1>3 DEF EndIsOpen, HasSession, Hours
<1> QED
  BY <1>4, <1>5, <1>6

(* Calls that end nothing leave the hours as they are. *)
LEMMA OthersHours ==
    ASSUME AssignInv, OpenOnce, LastIsOpen, EndIsOpen, NEW c \in Clerks,
           \/ \E i \in Indices, m \in Materials : CallUpdateMaterial(c, i, m)
           \/ \E r \in loads, x \in Excavators \cup {None} : CallReassign(c, r, x)
           \/ LockEnded(c)
           \/ LookForAssignment(c)
           \/ CommitReassign(c)
    PROVE  (OpenOnce /\ LastIsOpen /\ EndIsOpen)'
<1>1. txn[c] \in Txn
  BY DEF AssignInv, HaulingInv, HaulingTypeOK
<1>2. ASSUME NEW i, NEW m, CallUpdateMaterial(c, i, m)
      PROVE  (OpenOnce /\ LastIsOpen /\ EndIsOpen)'
  <2> DEFINE rec == [NoTxn EXCEPT !.at = "updating", !.index = i, !.material = m]
  <2>1. rec.at = "updating"
    BY DEF NoTxn
  <2>2. txn' = [txn EXCEPT ![c] = rec] /\ hour' = hour /\ loads' = loads
    BY <1>2 DEF CallUpdateMaterial, Calls
  <2> HIDE DEF rec
  <2> QED
    BY <2>1, <2>2, HoursOthers
<1>3. ASSUME NEW r, NEW x, CallReassign(c, r, x)
      PROVE  (OpenOnce /\ LastIsOpen /\ EndIsOpen)'
  <2> DEFINE rec == [NoTxn EXCEPT !.at = "reading", !.index = r.index, !.material = r.material,
                                  !.excavator = x, !.fresh = Fresh(x)]
  <2>1. rec.at = "reading"
    BY DEF NoTxn
  <2>2. txn' = [txn EXCEPT ![c] = rec] /\ hour' = hour /\ loads' = loads
    BY <1>3 DEF CallReassign, Calls
  <2> HIDE DEF rec
  <2> QED
    BY <2>1, <2>2, HoursOthers
<1>4. CASE LockEnded(c)
  <2> DEFINE rec == [txn[c] EXCEPT !.at = "locked", !.fresh = Fresh(txn[c].excavator)]
  <2>1. rec.stop = txn[c].stop /\ rec.index = txn[c].index
    BY <1>1 DEF Txn
  <2>2. /\ txn[c].at = "ending" /\ txn' = [txn EXCEPT ![c] = rec]
        /\ hour' = hour /\ loads' = loads
    BY <1>4 DEF LockEnded, Step
  <2> HIDE DEF rec
  <2> QED
    BY <2>1, <2>2, HoursOthers
<1>5. CASE LookForAssignment(c)
  <2>1. hour' = hour /\ loads' = loads
    BY <1>5 DEF LookForAssignment
  <2>2. CASE Step(c, [txn[c] EXCEPT !.at = "looked"])
    <3> DEFINE rec == [txn[c] EXCEPT !.at = "looked"]
    <3>1. rec.at = "looked"
      BY <1>1 DEF Txn
    <3>2. txn' = [txn EXCEPT ![c] = rec]
      BY <2>2 DEF Step
    <3> HIDE DEF rec
    <3> QED
      BY <2>1, <3>1, <3>2, HoursOthers
  <2>3. ASSUME NEW a, Step(c, [txn[c] EXCEPT !.at = "looked", !.found = {a.id}])
        PROVE  (OpenOnce /\ LastIsOpen /\ EndIsOpen)'
    <3> DEFINE rec == [txn[c] EXCEPT !.at = "looked", !.found = {a.id}]
    <3>1. rec.at = "looked"
      BY <1>1 DEF Txn
    <3>2. txn' = [txn EXCEPT ![c] = rec]
      BY <2>3 DEF Step
    <3> HIDE DEF rec
    <3> QED
      BY <2>1, <3>1, <3>2, HoursOthers
  <2> QED
    BY <1>5, <2>2, <2>3 DEF LookForAssignment
<1>6. CASE CommitReassign(c)
  <2>1. txn' = [txn EXCEPT ![c] = NoTxn] /\ NoTxn.at = "idle" /\ hour' = hour /\ loads' = loads
    BY <1>6 DEF CommitReassign, Over, Step, NoTxn
  <2> QED
    BY <2>1, HoursOthers
<1> QED
  BY <1>2, <1>3, <1>4, <1>5, <1>6

(* Every step keeps the hours in one session each. *)
LEMMA HoursInvKept ==
    ASSUME HaulingAssumption, HoursInv, [HaulingNext]_haulingVars
    PROVE  HoursInv'
<1>1. AssignInv /\ AssignInv'
  BY AssignInvKept DEF HoursInv
<1>2. SUFFICES ASSUME OnTime PROVE (OpenOnce /\ LastIsOpen /\ EndIsOpen)'
  BY <1>1 DEF HoursInv
<1>3. OpenOnce /\ LastIsOpen /\ EndIsOpen
  BY <1>2 DEF HoursInv
<1>4. CASE UNCHANGED haulingVars
  BY <1>3, <1>4 DEF haulingVars, OpenOnce, LastIsOpen, EndIsOpen, HasSession, Hours
<1>5. CASE HaulingNext
  BY <1>1, <1>2, <1>3, <1>5, NextHourHours, CallEndHours, CommitEndHours,
     CommitUpdateMaterialHours, OthersHours DEF HaulingNext
<1> QED
  BY <1>4, <1>5

(* The first session is open all shift. *)
LEMMA HoursInvBegins ==
    ASSUME HaulingAssumption, HaulingInit PROVE HoursInv
<1>1. AssignInv
  BY AssignInvBegins
<1>2. PICK m \in Materials : loads = {[index |-> 0, open |-> Hours, material |-> m]}
  BY DEF HaulingInit
<1>3. OpenOnce /\ LastIsOpen
  BY <1>2 DEF OpenOnce, LastIsOpen
<1>4. EndIsOpen
  BY DEF EndIsOpen, HaulingInit, NoTxn
<1> QED
  BY <1>1, <1>3, <1>4 DEF HoursInv

(* A set with one element, and no other, has one. *)
LEMMA JustOne ==
    ASSUME NEW S, NEW x \in S, \A y \in S : y = x
    PROVE  Cardinality(S) = 1
<1>1. S = {x}
  OBVIOUS
<1> QED
  BY <1>1, FS_Singleton

(***************************************************************************)
(* Every hour of the shift is open in exactly one session, as long as      *)
(* sessions are ended with the hour it is: nothing is logged twice, and    *)
(* every hour can be (control_room_end_hauling_session(), 079).            *)
(***************************************************************************)
THEOREM HoursArePartitioned == HaulingSpec => []HoursPartitioned
<1>1. HaulingSpec => []HoursInv
  BY HaulingAssumption, HoursInvBegins, HoursInvKept, PTL DEF HaulingSpec
<1>2. HoursInv => HoursPartitioned
  <2> SUFFICES ASSUME HoursInv, OnTime, NEW h \in Hours
               PROVE  Cardinality({r \in loads : h \in r.open}) = 1
    BY DEF HoursPartitioned
  <2>1. PICK r \in loads : h \in r.open /\ \A s \in loads : h \in s.open => s = r
    BY DEF HoursInv, OpenOnce
  <2> QED
    BY <2>1, JustOne
<1> QED
  BY <1>1, <1>2, PTL

-----------------------------------------------------------------------------
(***************************************************************************)
(* The shift sheet.  A call carries readings that were compared: `saving`  *)
(* with the start it writes itself, `closing` with the start of the row,   *)
(* which is the same unless the row was saved with another.                *)
(***************************************************************************)
SheetTypes ==
    /\ SheetTypeOK
    /\ \A w \in Writers :
          /\ sheet[w].known => operations[sheet[w].shift] \in Row
          /\ sheet[w].at = "closing" => sheet[w].entered \in Readings /\ sheet[w].known
          /\ sheet[w].at = "caching" => sheet[w].entered \in Readings

(* What a call is about to save was compared with its own start, *)
SavingAccepted ==
    \A w \in Writers : sheet[w].at = "saving" => Acceptable(sheet[w].start, sheet[w].entered)

(* what one is about to close with, with the start of the row, *)
ClosingAccepted ==
    \A w \in Writers :
        sheet[w].at = "closing" /\ sheet[w].shift \notin rebased =>
            Acceptable(operations[sheet[w].shift].start, sheet[w].entered)

(* and what the rows hold was compared with their own start. *)
RowsAccepted ==
    \A s \in Shifts \ rebased :
        operations[s] \in Row => Acceptable(operations[s].start, operations[s].close)

(* A reading that is written and not yet cached. *)
Pending(w) == sheet[w].at \in {"mirroring", "caching"} /\ sheet[w].entered # Null

(* The reading last closed with is in the cache, or one call has it still. *)
OnePending ==
    lastClose # Lost =>
        /\ \A v, w \in Writers : Pending(v) /\ Pending(w) => v = w
        /\ \A w \in Writers : Pending(w) => sheet[w].entered = lastClose
        /\ (\A w \in Writers : ~Pending(w)) => currentSmr = lastClose

(* All of it. *)
SheetInv == SheetTypes /\ SavingAccepted /\ ClosingAccepted /\ RowsAccepted /\ OnePending

(* A sheet nobody shows knows no row. *)
LEMMA AwayTyped ==
    ASSUME SheetAssumption
    PROVE  Away \in Sheet /\ Away.at = "away" /\ ~Away.known
<1> QED
  BY DEF SheetAssumption, Away, Sheet, Shifts, Reading

(* What a step makes of one sheet, the others are as they were. *)
LEMMA SheetBecomes ==
    ASSUME SheetTypeOK, NEW w \in Writers, NEW t \in Sheet, sheet' = [sheet EXCEPT ![w] = t]
    PROVE  /\ \A v \in Writers : sheet'[v] = IF v = w THEN t ELSE sheet[v]
           /\ sheet' \in [Writers -> Sheet]
<1> QED
  BY DEF SheetTypeOK

(* One sheet changes, and nothing that is written. *)
LEMMA SheetOnly ==
    ASSUME SheetAssumption, SheetInv, NEW w \in Writers, NEW t \in Sheet,
           sheet' = [sheet EXCEPT ![w] = t],
           operations' = operations, rebased' = rebased, currentSmr' = currentSmr,
           lastClose' = lastClose, notes' \subseteq Shifts, loaded' \in 0..MaxLoads,
           t.known => operations[t.shift] \in Row,
           t.at = "saving" => Acceptable(t.start, t.entered),
           t.at = "closing" => /\ t.known /\ t.entered \in Readings
                               /\ t.shift \notin rebased =>
                                     Acceptable(operations[t.shift].start, t.entered),
           t.at = "caching" => t.entered \in Readings,
           t.at \in {"mirroring", "caching"} /\ t.entered # Null <=> Pending(w),
           t.at \in {"mirroring", "caching"} => t.entered = sheet[w].entered
    PROVE  SheetInv'
<1>1. /\ \A v \in Writers : sheet'[v] = IF v = w THEN t ELSE sheet[v]
      /\ sheet' \in [Writers -> Sheet]
  BY SheetBecomes DEF SheetInv, SheetTypes
<1>2. SheetTypes'
  <2>1. SheetTypeOK'
    BY <1>1 DEF SheetInv, SheetTypes, SheetTypeOK
  <2>2. ASSUME NEW v \in Writers
        PROVE  /\ sheet'[v].known => operations'[sheet'[v].shift] \in Row
               /\ sheet'[v].at = "closing" => sheet'[v].entered \in Readings /\ sheet'[v].known
               /\ sheet'[v].at = "caching" => sheet'[v].entered \in Readings
    BY <1>1 DEF SheetInv, SheetTypes
  <2> QED
    BY <2>1, <2>2 DEF SheetTypes, Row, Reading, Readings
<1>3. SavingAccepted'
  BY <1>1 DEF SheetInv, SavingAccepted, Acceptable
<1>4. ClosingAccepted'
  BY <1>1 DEF SheetInv, ClosingAccepted, Acceptable
<1>5. RowsAccepted'
  BY DEF SheetInv, RowsAccepted, Row, Reading, Readings, Shifts, Acceptable
<1>6. \A v \in Writers : Pending(v)' <=> Pending(v)
  BY <1>1 DEF Pending
<1>7. \A v \in Writers : Pending(v) => sheet'[v].entered = sheet[v].entered
  BY <1>1 DEF Pending
<1>8. OnePending'
  BY <1>6, <1>7 DEF SheetInv, OnePending, Lost
<1> QED
  BY <1>2, <1>3, <1>4, <1>5, <1>8 DEF SheetInv

(* A row is written with readings that were compared. *)
LEMMA RowWritten ==
    ASSUME RowAssumption, SheetInv, NEW w \in Writers, NEW row \in Row, Writes(w, row),
           sheet[w].shift \notin rebased' => Acceptable(row.start, row.close)
    PROVE  /\ operations' \in [Shifts -> Row \cup {Null}]
           /\ rebased' \subseteq Shifts /\ rebased \subseteq rebased'
           /\ \A s \in Shifts : operations[s] \in Row => operations'[s] \in Row
           /\ \A s \in Shifts \ rebased' :
                 operations[s] \in Row => operations'[s].start = operations[s].start
           /\ \A s \in Shifts \ rebased' :
                 operations'[s] \in Row => Acceptable(operations'[s].start, operations'[s].close)
<1> DEFINE s == sheet[w].shift
<1>1. s \in Shifts /\ operations \in [Shifts -> Row \cup {Null}] /\ rebased \subseteq Shifts
  BY DEF SheetInv, SheetTypes, SheetTypeOK, Sheet
<1>2. /\ operations' = [operations EXCEPT ![s] = row]
      /\ rebased' = rebased \cup (IF operations[s] # Null /\ operations[s].start # row.start
                                    THEN {s} ELSE {})
  BY DEF Writes
<1> HIDE DEF s
<1>3. \A u \in Shifts : operations'[u] = IF u = s THEN row ELSE operations[u]
  BY <1>1, <1>2
<1>4. operations' \in [Shifts -> Row \cup {Null}]
  BY <1>1, <1>2
<1>5. rebased' \subseteq Shifts /\ rebased \subseteq rebased'
  BY <1>1, <1>2
<1>6. \A u \in Shifts \ rebased' : operations[u] \in Row => operations'[u].start = operations[u].start
  BY <1>1, <1>2, <1>3, RowAssumption DEF RowAssumption
<1>7. ASSUME NEW u \in Shifts \ rebased', operations'[u] \in Row
      PROVE  Acceptable(operations'[u].start, operations'[u].close)
  <2>1. CASE u = s
    BY <1>3, <2>1 DEF s
  <2>2. CASE u # s
    BY <1>3, <1>5, <1>7, <2>2 DEF SheetInv, RowsAccepted
  <2> QED
    BY <2>1, <2>2
<1> QED
  BY <1>3, <1>4, <1>5, <1>6, <1>7

(* The reading written last is the one to be cached. *)
LEMMA PendingCounted ==
    ASSUME SheetAssumption, SheetInv, NEW w \in Writers, NEW t \in Sheet, NEW close \in Reading,
           sheet' = [sheet EXCEPT ![w] = t], Counts(w, close), currentSmr' = currentSmr,
           ~Pending(w),
           close # Null => t.at \in {"mirroring", "caching"} /\ t.entered = close,
           close = Null => t.at \notin {"mirroring", "caching"} \/ t.entered = Null
    PROVE  OnePending' /\ lastClose' \in Reading \cup {Lost}
<1>1. \A v \in Writers : sheet'[v] = IF v = w THEN t ELSE sheet[v]
  BY SheetBecomes DEF SheetInv, SheetTypes
<1>2. lastClose \in Reading \cup {Lost}
  BY DEF SheetInv, SheetTypes, SheetTypeOK
<1>3. CASE close = Null
  <2>1. lastClose' = lastClose
    BY <1>3 DEF Counts
  <2>2. \A v \in Writers : Pending(v)' <=> Pending(v)
    BY <1>1, <1>3 DEF Pending
  <2>3. \A v \in Writers : Pending(v) => sheet'[v].entered = sheet[v].entered
    BY <1>1
  <2> QED
    BY <1>2, <2>1, <2>2, <2>3 DEF SheetInv, OnePending, Lost
<1>4. CASE close # Null /\ (Overtakes(w) \/ lastClose = Lost)
  <2>1. lastClose' = Lost
    BY <1>4 DEF Counts
  <2> QED
    BY <2>1 DEF OnePending, Lost
<1>5. CASE close # Null /\ ~Overtakes(w) /\ lastClose # Lost
  <2>1. lastClose' = close
    BY <1>5 DEF Counts
  <2>2. \A v \in Writers : Pending(v)' => v = w
    BY <1>1, <1>5 DEF Pending, Overtakes
  <2>3. Pending(w)' /\ sheet'[w].entered = close
    BY <1>1, <1>5 DEF Pending
  <2> QED
    BY <2>1, <2>2, <2>3 DEF OnePending, Lost
<1> QED
  BY <1>3, <1>4, <1>5

(* What is left to show when a row was written. *)
LEMMA WritesKeep ==
    ASSUME SheetAssumption, RowAssumption, SheetInv, NEW w \in Writers, NEW row \in Row,
           Writes(w, row), sheet[w].shift \notin rebased' => Acceptable(row.start, row.close),
           NEW t \in Sheet, sheet' = [sheet EXCEPT ![w] = t],
           t.at \notin {"saving", "closing"},
           t.known => sheet[w].known /\ t.shift = sheet[w].shift,
           t.at = "caching" => t.entered \in Readings,
           OnePending', lastClose' \in Reading \cup {Lost},
           currentSmr' = currentSmr, notes' = notes, loaded' = loaded
    PROVE  SheetInv'
<1>1. /\ operations' \in [Shifts -> Row \cup {Null}]
      /\ rebased' \subseteq Shifts /\ rebased \subseteq rebased'
      /\ \A s \in Shifts : operations[s] \in Row => operations'[s] \in Row
      /\ \A s \in Shifts \ rebased' :
            operations[s] \in Row => operations'[s].start = operations[s].start
      /\ \A s \in Shifts \ rebased' :
            operations'[s] \in Row => Acceptable(operations'[s].start, operations'[s].close)
  BY RowWritten
<1>2. /\ \A v \in Writers : sheet'[v] = IF v = w THEN t ELSE sheet[v]
      /\ sheet' \in [Writers -> Sheet]
  BY SheetBecomes DEF SheetInv, SheetTypes
<1>3. SheetTypeOK'
  <2>1. SheetTypeOK
    BY DEF SheetInv, SheetTypes
  <2> QED
    BY <1>1, <1>2, <2>1 DEF SheetTypeOK, Row, Reading, Readings, Shifts, Lost, Sheet
<1>4. \A v \in Writers : sheet[v].shift \in Shifts
  BY DEF SheetInv, SheetTypes, SheetTypeOK, Sheet
<1>5. SheetTypes'
  <2>1. ASSUME NEW v \in Writers
        PROVE  /\ sheet'[v].known => operations'[sheet'[v].shift] \in Row
               /\ sheet'[v].at = "closing" => sheet'[v].entered \in Readings /\ sheet'[v].known
               /\ sheet'[v].at = "caching" => sheet'[v].entered \in Readings
    BY <1>1, <1>2, <1>4 DEF SheetInv, SheetTypes
  <2> QED
    BY <1>3, <2>1 DEF SheetTypes, Row, Reading, Readings
<1>6. SavingAccepted'
  BY <1>2 DEF SheetInv, SavingAccepted, Acceptable
<1>7. ClosingAccepted'
  <2>1. ASSUME NEW v \in Writers, sheet'[v].at = "closing", sheet'[v].shift \notin rebased'
        PROVE  Acceptable(operations'[sheet'[v].shift].start, sheet'[v].entered)
    <3>1. v # w /\ sheet'[v] = sheet[v]
      BY <1>2, <2>1
    <3>2. /\ sheet[v].at = "closing" /\ sheet[v].shift \in Shifts \ rebased'
          /\ sheet[v].shift \notin rebased
      BY <1>1, <1>4, <2>1, <3>1
    <3>3. operations[sheet[v].shift] \in Row
      BY <3>2 DEF SheetInv, SheetTypes
    <3> QED
      BY <1>1, <3>1, <3>2, <3>3 DEF SheetInv, ClosingAccepted
  <2> QED
    BY <2>1 DEF ClosingAccepted, Acceptable
<1>8. RowsAccepted'
  BY <1>1 DEF RowsAccepted, Row, Reading, Readings, Shifts, Acceptable
<1> QED
  BY <1>5, <1>6, <1>7, <1>8 DEF SheetInv

(* The sheet shows a start that was read. *)
LEMMA StartsAreReadings ==
    ASSUME SheetInv, NEW w \in Writers PROVE StartsOf(w) \subseteq Reading
<1>1. sheet[w].start \in Reading /\ currentSmr \in Reading /\ Null \in Reading
  BY DEF SheetInv, SheetTypes, SheetTypeOK, Sheet, Reading
<1>2. PreviousCloses \subseteq Reading
  <2>1. ASSUME NEW s \in Shifts, Closed(s) PROVE operations[s].close \in Reading
    <3>1. operations[s] \in Row
      BY <2>1 DEF Closed, SheetInv, SheetTypes, SheetTypeOK
    <3> QED
      BY <3>1 DEF Row
  <2> QED
    BY <2>1 DEF PreviousCloses
<1> QED
  BY <1>1, <1>2 DEF StartsOf

(* A sheet that is loaded, shown, left, or whose statement failed. *)
LEMMA ShownKeeps ==
    ASSUME SheetAssumption, SheetInv, NEW w \in Writers,
           \/ \E s \in Shifts : LoadSheet(w, s)
           \/ Show(w) \/ Leave(w) \/ UpsertFails(w) \/ CloseRowFails(w)
    PROVE  SheetInv'
<1>1. sheet[w] \in Sheet /\ operations \in [Shifts -> Row \cup {Null}] /\ notes \subseteq Shifts
      /\ loaded \in 0..MaxLoads /\ DOMAIN sheet = Writers
  BY DEF SheetInv, SheetTypes, SheetTypeOK
<1>2. sheet[w].known => operations[sheet[w].shift] \in Row
  BY DEF SheetInv, SheetTypes
<1>3. ASSUME NEW s \in Shifts, LoadSheet(w, s) PROVE SheetInv'
  <2>5. loaded < MaxLoads /\ loaded' = loaded + 1
    BY <1>3 DEF LoadSheet
  <2>6. loaded' \in 0..MaxLoads
    BY <1>1, <2>5 DEF SheetAssumption
  <2>1. /\ sheet[w].at = "away" /\ loaded' \in 0..MaxLoads
        /\ UNCHANGED <<operations, currentSmr, notes, lastClose, rebased>>
    BY <1>3, <2>6 DEF LoadSheet
  <2>2. ~Pending(w)
    BY <2>1 DEF Pending
  <2>3. CASE operations[s] = Null
    <3> DEFINE t == [Away EXCEPT !.at = "loading", !.shift = s]
    <3>1. t \in Sheet /\ t.at = "loading" /\ ~t.known
      BY AwayTyped DEF Sheet
    <3>2. sheet' = [sheet EXCEPT ![w] = t]
      BY <1>3, <2>3 DEF LoadSheet
    <3> HIDE DEF t
    <3> QED
      BY <1>1, <2>1, <2>2, <3>1, <3>2, SheetOnly
  <2>4. CASE operations[s] # Null
    <3> DEFINE t == [Away EXCEPT !.at = "loading", !.shift = s, !.known = TRUE,
                                 !.start = operations[s].start, !.close = operations[s].close]
    <3>1. operations[s] \in Row
      BY <1>1, <2>4
    <3>2. t \in Sheet /\ t.at = "loading" /\ t.shift = s
      BY <3>1, AwayTyped DEF Sheet, Row
    <3>3. sheet' = [sheet EXCEPT ![w] = t]
      BY <1>3, <2>4 DEF LoadSheet
    <3> HIDE DEF t
    <3> QED
      BY <1>1, <2>1, <2>2, <3>1, <3>2, <3>3, SheetOnly
  <2> QED
    BY <2>3, <2>4
<1>4. CASE Show(w)
  <2>1. sheet[w].at = "loading" /\ UNCHANGED <<operations, currentSmr, notes, loaded, lastClose, rebased>>
    BY <1>4 DEF Show
  <2>2. PICK start \in StartsOf(w) :
           sheet' = [sheet EXCEPT ![w].at = "open", ![w].start = start]
    BY <1>4 DEF Show
  <2> DEFINE t == [[sheet[w] EXCEPT !.at = "open"] EXCEPT !.start = start]
  <2>3. t \in Sheet /\ t.at = "open" /\ t.known = sheet[w].known /\ t.shift = sheet[w].shift
    BY <1>1, StartsAreReadings DEF Sheet
  <2>4. sheet' = [sheet EXCEPT ![w] = t]
    BY <1>1, <2>2
  <2>5. ~Pending(w)
    BY <2>1 DEF Pending
  <2> HIDE DEF t
  <2> QED
    BY <1>1, <1>2, <2>1, <2>3, <2>4, <2>5, SheetOnly
<1>5. CASE Leave(w)
  <2>1. /\ sheet[w].at = "open" /\ UNCHANGED <<operations, currentSmr, notes, loaded, lastClose, rebased>>
        /\ sheet' = [sheet EXCEPT ![w] = Away]
    BY <1>5 DEF Leave, Leaves
  <2>2. ~Pending(w)
    BY <2>1 DEF Pending
  <2>3. Away \in Sheet /\ Away.at = "away" /\ ~Away.known
    BY AwayTyped
  <2> QED
    BY <1>1, <2>1, <2>2, <2>3, SheetOnly
<1>6. CASE UpsertFails(w) \/ CloseRowFails(w)
  <2>1. /\ sheet[w].at \in {"saving", "closing"}
        /\ UNCHANGED <<operations, currentSmr, notes, loaded, lastClose, rebased>>
        /\ Turns(w, "open")
    BY <1>6 DEF UpsertFails, CloseRowFails
  <2> DEFINE t == [sheet[w] EXCEPT !.at = "open"]
  <2>2. t \in Sheet /\ t.at = "open" /\ t.known = sheet[w].known /\ t.shift = sheet[w].shift
    BY <1>1 DEF Sheet
  <2>3. sheet' = [sheet EXCEPT ![w] = t]
    BY <2>1 DEF Turns
  <2>4. ~Pending(w)
    BY <2>1 DEF Pending
  <2> HIDE DEF t
  <2> QED
    BY <1>1, <1>2, <2>1, <2>2, <2>3, <2>4, SheetOnly
<1> QED
  BY <1>3, <1>4, <1>5, <1>6

(* The readings are compared before a call goes on. *)
LEMMA CalledKeeps ==
    ASSUME SheetAssumption, SheetInv, NEW w \in Writers,
           \/ \E entered \in Reading, delayed \in BOOLEAN : Save(w, entered, delayed)
           \/ \E entered \in Readings : Close(w, entered)
    PROVE  SheetInv'
<1>1. sheet[w] \in Sheet /\ notes \subseteq Shifts /\ loaded \in 0..MaxLoads /\ DOMAIN sheet = Writers
  BY DEF SheetInv, SheetTypes, SheetTypeOK
<1>2. sheet[w].known => operations[sheet[w].shift] \in Row
  BY DEF SheetInv, SheetTypes
<1>3. ASSUME NEW entered \in Reading, NEW delayed \in BOOLEAN, Save(w, entered, delayed)
      PROVE  SheetInv'
  <2>1. /\ sheet[w].at = "open" /\ Acceptable(sheet[w].start, entered)
        /\ UNCHANGED <<operations, currentSmr, notes, loaded, lastClose, rebased>>
    BY <1>3 DEF Save
  <2> DEFINE t == [[[sheet[w] EXCEPT !.at = "saving"] EXCEPT !.entered = entered]
                      EXCEPT !.delayed = delayed]
  <2>2. /\ t \in Sheet /\ t.at = "saving" /\ t.known = sheet[w].known /\ t.shift = sheet[w].shift
        /\ t.start = sheet[w].start /\ t.entered = entered
    BY <1>1 DEF Sheet
  <2>3. sheet' = [sheet EXCEPT ![w] = t]
    BY <1>1, <1>3 DEF Save
  <2>4. ~Pending(w)
    BY <2>1 DEF Pending
  <2> HIDE DEF t
  <2> QED
    BY <1>1, <1>2, <2>1, <2>2, <2>3, <2>4, SheetOnly
<1>4. ASSUME NEW entered \in Readings, Close(w, entered) PROVE SheetInv'
  <2>1. /\ sheet[w].at = "open" /\ sheet[w].known
        /\ Acceptable(operations[sheet[w].shift].start, entered)
        /\ UNCHANGED <<operations, currentSmr, notes, loaded, lastClose, rebased>>
    BY <1>4 DEF Close
  <2> DEFINE t == [[sheet[w] EXCEPT !.at = "closing"] EXCEPT !.entered = entered]
  <2>2. /\ t \in Sheet /\ t.at = "closing" /\ t.known = sheet[w].known /\ t.shift = sheet[w].shift
        /\ t.entered = entered
    BY <1>1 DEF Sheet, Reading
  <2>3. sheet' = [sheet EXCEPT ![w] = t]
    BY <1>1, <1>4 DEF Close
  <2>4. ~Pending(w)
    BY <2>1 DEF Pending
  <2> HIDE DEF t
  <2> QED
    BY <1>1, <1>2, <2>1, <2>2, <2>3, <2>4, SheetOnly
<1> QED
  BY <1>3, <1>4

(* Saving writes the start it was compared with. *)
LEMMA UpsertKeeps ==
    ASSUME SheetAssumption, RowAssumption, SheetInv, NEW w \in Writers,
           Upsert(w) \/ UpsertUnanswered(w)
    PROVE  SheetInv'
<1> DEFINE row == [start |-> sheet[w].start, close |-> sheet[w].entered]
<1>1. /\ sheet[w].at = "saving" /\ Writes(w, row)
      /\ currentSmr' = currentSmr /\ notes' = notes /\ loaded' = loaded
  BY DEF Upsert, UpsertUnanswered
<1>2. sheet[w] \in Sheet /\ Acceptable(sheet[w].start, sheet[w].entered) /\ ~Pending(w)
      /\ lastClose \in Reading \cup {Lost} /\ SheetTypeOK
  BY <1>1 DEF SheetInv, SheetTypes, SheetTypeOK, SavingAccepted, Pending
<1>3. row \in Row /\ Acceptable(row.start, row.close) /\ sheet[w].entered \in Reading
  BY <1>2 DEF Row, Sheet
<1> HIDE DEF row
<1>4. ASSUME NEW t \in Sheet, sheet' = [sheet EXCEPT ![w] = t],
             t.at \in {"away", "open", "mirroring", "caching"},
             t.known => sheet[w].known /\ t.shift = sheet[w].shift,
             t.at = "caching" => t.entered \in Readings,
             OnePending', lastClose' \in Reading \cup {Lost}
      PROVE  SheetInv'
  BY <1>1, <1>3, <1>4, WritesKeep
<1>5. CASE UpsertUnanswered(w)
  <2> DEFINE t == [sheet[w] EXCEPT !.at = "open"]
  <2>1. t \in Sheet /\ t.at = "open" /\ t.known = sheet[w].known /\ t.shift = sheet[w].shift
    BY <1>2 DEF Sheet
  <2>2. /\ sheet' = [sheet EXCEPT ![w] = t]
        /\ lastClose' = IF sheet[w].entered = Null THEN lastClose ELSE Lost
    BY <1>5 DEF UpsertUnanswered, Turns
  <2> HIDE DEF t
  <2>3. \A v \in Writers : sheet'[v] = IF v = w THEN t ELSE sheet[v]
    BY <1>2, <2>1, <2>2, SheetBecomes
  <2>4. \A v \in Writers : Pending(v)' <=> Pending(v)
    BY <1>2, <2>1, <2>3 DEF Pending
  <2>5. \A v \in Writers : Pending(v) => sheet'[v].entered = sheet[v].entered
    BY <1>2, <2>3
  <2>6. OnePending'
    BY <1>1, <2>2, <2>4, <2>5 DEF SheetInv, OnePending, Lost
  <2>7. lastClose' \in Reading \cup {Lost}
    BY <1>2, <2>2
  <2> QED
    BY <1>4, <2>1, <2>2, <2>6, <2>7
<1>6. CASE Upsert(w)
  <2>1. /\ Counts(w, sheet[w].entered)
        /\ IF AfterRow(w) = "away" THEN Leaves(w) ELSE Turns(w, AfterRow(w))
    BY <1>6 DEF Upsert
  <2>2. CASE AfterRow(w) = "away"
    <3>1. sheet[w].entered = Null
      BY <2>2 DEF AfterRow
    <3>2. sheet' = [sheet EXCEPT ![w] = Away]
      BY <2>1, <2>2 DEF Leaves
    <3>3. Away \in Sheet /\ Away.at = "away" /\ ~Away.known
      BY AwayTyped
    <3>4. OnePending' /\ lastClose' \in Reading \cup {Lost}
      BY <1>1, <1>2, <1>3, <2>1, <3>1, <3>2, <3>3, PendingCounted
    <3> QED
      BY <1>4, <3>2, <3>3, <3>4
  <2>3. CASE AfterRow(w) # "away"
    <3> DEFINE t == [sheet[w] EXCEPT !.at = AfterRow(w)]
    <3>1. /\ AfterRow(w) \in {"mirroring", "caching"}
          /\ AfterRow(w) = "caching" => sheet[w].entered # Null
      BY <2>3 DEF AfterRow
    <3>2. /\ t \in Sheet /\ t.at = AfterRow(w) /\ t.known = sheet[w].known
          /\ t.shift = sheet[w].shift /\ t.entered = sheet[w].entered
      BY <1>2, <3>1 DEF Sheet
    <3>3. sheet' = [sheet EXCEPT ![w] = t]
      BY <2>1, <2>3 DEF Turns
    <3> HIDE DEF t
    <3>4. OnePending' /\ lastClose' \in Reading \cup {Lost}
      BY <1>1, <1>2, <1>3, <2>1, <3>1, <3>2, <3>3, PendingCounted
    <3>5. t.at = "caching" => t.entered \in Readings
      BY <1>3, <3>1, <3>2 DEF Reading
    <3> QED
      BY <1>4, <3>1, <3>2, <3>3, <3>4, <3>5
  <2> QED
    BY <2>2, <2>3
<1> QED
  BY <1>5, <1>6

(* Closing writes into a row whose start is that it was compared with. *)
LEMMA CloseRowKeeps ==
    ASSUME SheetAssumption, RowAssumption, SheetInv, NEW w \in Writers, CloseRow(w)
    PROVE  SheetInv'
<1> DEFINE t == [sheet[w] EXCEPT !.at = "caching"]
           was == operations[sheet[w].shift]
           row == [was EXCEPT !.close = sheet[w].entered]
<1>1. /\ sheet[w].at = "closing" /\ Turns(w, "caching")
      /\ currentSmr' = currentSmr /\ notes' = notes /\ loaded' = loaded
  BY DEF CloseRow
<1>2. /\ sheet[w] \in Sheet /\ ~Pending(w) /\ SheetTypeOK
      /\ sheet[w].entered \in Readings /\ sheet[w].known /\ was \in Row
      /\ sheet[w].shift \notin rebased => Acceptable(was.start, sheet[w].entered)
  BY <1>1 DEF SheetInv, SheetTypes, SheetTypeOK, ClosingAccepted, Pending
<1>3. /\ t \in Sheet /\ t.at = "caching" /\ t.known = sheet[w].known /\ t.shift = sheet[w].shift
      /\ t.entered = sheet[w].entered
  BY <1>2 DEF Sheet
<1>4. sheet' = [sheet EXCEPT ![w] = t]
  BY <1>1 DEF Turns
<1>5. row \in Row /\ row.start = was.start /\ row.close = sheet[w].entered
  BY <1>2 DEF Row, Reading
<1>6. sheet[w].entered # Null /\ sheet[w].entered \in Reading
  BY <1>2 DEF SheetAssumption, Readings, Reading
<1> HIDE DEF t
<1>7. CASE w \in Admins
  <2>1. Writes(w, row) /\ Counts(w, sheet[w].entered)
    BY <1>7 DEF CloseRow
  <2>2. sheet[w].shift \notin rebased' => sheet[w].shift \notin rebased
    BY <2>1 DEF Writes
  <2> HIDE DEF row, was
  <2>3. OnePending' /\ lastClose' \in Reading \cup {Lost}
    BY <1>1, <1>2, <1>3, <1>4, <1>6, <2>1, PendingCounted
  <2> QED
    BY <1>1, <1>2, <1>3, <1>4, <1>5, <2>1, <2>2, <2>3, WritesKeep
<1>8. CASE w \notin Admins
  <2>1. lastClose' = Lost /\ UNCHANGED <<operations, rebased>>
    BY <1>8 DEF CloseRow
  <2> HIDE DEF row, was
  <2>2. /\ \A v \in Writers : sheet'[v] = IF v = w THEN t ELSE sheet[v]
        /\ sheet' \in [Writers -> Sheet]
    BY <1>2, <1>3, <1>4, SheetBecomes
  <2>3. SheetTypes'
    <3>1. SheetTypeOK'
      BY <1>1, <1>2, <2>1, <2>2 DEF SheetTypeOK, Row, Reading, Readings, Shifts, Lost, Sheet
    <3>2. ASSUME NEW v \in Writers
          PROVE  /\ sheet'[v].known => operations'[sheet'[v].shift] \in Row
                 /\ sheet'[v].at = "closing" => sheet'[v].entered \in Readings /\ sheet'[v].known
                 /\ sheet'[v].at = "caching" => sheet'[v].entered \in Readings
      BY <1>2, <1>3, <2>1, <2>2 DEF SheetInv, SheetTypes
    <3> QED
      BY <3>1, <3>2 DEF SheetTypes, Row, Reading, Readings
  <2>4. SavingAccepted'
    BY <1>3, <2>2 DEF SheetInv, SavingAccepted, Acceptable
  <2>5. ClosingAccepted'
    BY <1>3, <2>1, <2>2 DEF SheetInv, ClosingAccepted, Acceptable
  <2>6. RowsAccepted'
    BY <2>1 DEF SheetInv, RowsAccepted, Row, Reading, Readings, Shifts, Acceptable
  <2>7. OnePending'
    BY <2>1 DEF OnePending, Lost
  <2> QED
    BY <2>3, <2>4, <2>5, <2>6, <2>7 DEF SheetInv
<1> QED
  BY <1>7, <1>8

(* The note is mirrored; the reading is cached next. *)
LEMMA MirrorKeeps ==
    ASSUME SheetAssumption, SheetInv, NEW w \in Writers, Mirror(w)
    PROVE  SheetInv'
<1>1. /\ sheet[w].at = "mirroring" /\ UNCHANGED <<operations, currentSmr, loaded, lastClose, rebased>>
      /\ IF sheet[w].entered = Null THEN Leaves(w) ELSE Turns(w, "caching")
      /\ notes' = notes \cup {sheet[w].shift} \/ notes' = notes
  BY DEF Mirror
<1>2. /\ sheet[w] \in Sheet /\ notes \subseteq Shifts /\ loaded \in 0..MaxLoads
      /\ sheet[w].known => operations[sheet[w].shift] \in Row
  BY DEF SheetInv, SheetTypes, SheetTypeOK
<1>3. notes' \subseteq Shifts
  BY <1>1, <1>2 DEF Sheet
<1>4. CASE sheet[w].entered = Null
  <2>1. sheet' = [sheet EXCEPT ![w] = Away] /\ ~Pending(w)
    BY <1>1, <1>4 DEF Leaves, Pending
  <2>2. Away \in Sheet /\ Away.at = "away" /\ ~Away.known
    BY AwayTyped
  <2> QED
    BY <1>1, <1>2, <1>3, <2>1, <2>2, SheetOnly
<1>5. CASE sheet[w].entered # Null
  <2> DEFINE t == [sheet[w] EXCEPT !.at = "caching"]
  <2>1. /\ t \in Sheet /\ t.at = "caching" /\ t.known = sheet[w].known /\ t.shift = sheet[w].shift
        /\ t.entered = sheet[w].entered
    BY <1>2 DEF Sheet
  <2>2. sheet' = [sheet EXCEPT ![w] = t] /\ Pending(w)
    BY <1>1, <1>5 DEF Turns, Pending
  <2>3. t.entered \in Readings
    BY <1>2, <1>5, <2>1 DEF Sheet, Reading
  <2> HIDE DEF t
  <2> QED
    BY <1>1, <1>2, <1>3, <1>5, <2>1, <2>2, <2>3, SheetOnly
<1> QED
  BY <1>4, <1>5

(* The meter is the reading of the one call that had written. *)
LEMMA CacheMeterKeeps ==
    ASSUME SheetAssumption, SheetInv, NEW w \in Writers, CacheMeter(w)
    PROVE  SheetInv'
<1>1. /\ sheet[w].at = "caching" /\ UNCHANGED <<operations, notes, loaded, rebased>>
      /\ sheet' = [sheet EXCEPT ![w] = Away]
      /\ \/ currentSmr' = sheet[w].entered /\ lastClose' = lastClose
         \/ lastClose' = Lost /\ currentSmr' = currentSmr
  BY DEF CacheMeter, MeterAfter, Leaves
<1>2. Away \in Sheet /\ Away.at = "away" /\ ~Away.known
  BY AwayTyped
<1>3. SheetTypeOK /\ sheet[w].entered \in Readings /\ sheet[w].entered # Null
  BY <1>1 DEF SheetInv, SheetTypes, SheetAssumption, Readings
<1>4. /\ \A v \in Writers : sheet'[v] = IF v = w THEN Away ELSE sheet[v]
      /\ sheet' \in [Writers -> Sheet]
  BY <1>1, <1>2, <1>3, SheetBecomes
<1>5. SheetTypes'
  <2>1. currentSmr' \in Reading /\ lastClose' \in Reading \cup {Lost}
    BY <1>1, <1>3 DEF SheetTypeOK, Reading
  <2>2. SheetTypeOK'
    BY <1>1, <1>3, <1>4, <2>1 DEF SheetTypeOK, Row, Reading, Readings, Shifts, Lost, Sheet
  <2>3. ASSUME NEW v \in Writers
        PROVE  /\ sheet'[v].known => operations'[sheet'[v].shift] \in Row
               /\ sheet'[v].at = "closing" => sheet'[v].entered \in Readings /\ sheet'[v].known
               /\ sheet'[v].at = "caching" => sheet'[v].entered \in Readings
    BY <1>1, <1>2, <1>4 DEF SheetInv, SheetTypes
  <2> QED
    BY <2>2, <2>3 DEF SheetTypes, Row, Reading, Readings
<1>6. SavingAccepted'
  BY <1>2, <1>4 DEF SheetInv, SavingAccepted, Acceptable
<1>7. ClosingAccepted'
  BY <1>1, <1>2, <1>4 DEF SheetInv, ClosingAccepted, Acceptable
<1>8. RowsAccepted'
  BY <1>1 DEF SheetInv, RowsAccepted, Row, Reading, Readings, Shifts, Acceptable
<1>9. OnePending'
  <2>1. CASE lastClose' = Lost
    BY <2>1 DEF OnePending, Lost
  <2>2. CASE lastClose' # Lost
    <3>1. currentSmr' = sheet[w].entered /\ lastClose' = lastClose
      BY <1>1, <2>2
    <3>2. Pending(w)
      BY <1>1, <1>3 DEF Pending
    <3>3. sheet[w].entered = lastClose /\ \A v \in Writers : Pending(v) => v = w
      BY <2>2, <3>1, <3>2 DEF SheetInv, OnePending
    <3>4. \A v \in Writers : ~Pending(v)'
      BY <1>2, <1>4, <3>3 DEF Pending
    <3> QED
      BY <3>1, <3>3, <3>4 DEF OnePending
  <2> QED
    BY <2>1, <2>2
<1> QED
  BY <1>5, <1>6, <1>7, <1>8, <1>9 DEF SheetInv

(* Every step keeps the rows accepted and the last reading on its way. *)
LEMMA SheetInvKept ==
    ASSUME SheetAssumption, RowAssumption, SheetInv, [SheetNext]_sheetVars
    PROVE  SheetInv'
<1>1. CASE UNCHANGED sheetVars
  <2>1. SheetTypes'
    BY <1>1 DEF sheetVars, SheetInv, SheetTypes, SheetTypeOK, Row, Reading, Readings, Shifts, Lost, Sheet
  <2> QED
    BY <1>1, <2>1 DEF sheetVars, SheetInv, SavingAccepted, ClosingAccepted, RowsAccepted,
       OnePending, Pending, Acceptable, Row, Reading, Readings, Shifts, Lost
<1>2. ASSUME NEW s \in Shifts, ResolveNote(s) PROVE SheetInv'
  <2>1. UNCHANGED <<operations, currentSmr, sheet, loaded, lastClose, rebased>> /\ notes' \subseteq notes
    BY <1>2 DEF ResolveNote
  <2>2. SheetTypes'
    BY <2>1 DEF SheetInv, SheetTypes, SheetTypeOK, Row, Reading, Readings, Shifts, Lost, Sheet
  <2> QED
    BY <2>1, <2>2 DEF SheetInv, SavingAccepted, ClosingAccepted, RowsAccepted,
       OnePending, Pending, Acceptable, Row, Reading, Readings, Shifts, Lost
<1>3. CASE AllAway
  BY <1>1, <1>3 DEF AllAway
<1> QED
  BY <1>1, <1>2, <1>3, ShownKeeps, CalledKeeps, UpsertKeeps, CloseRowKeeps, MirrorKeeps,
     CacheMeterKeeps DEF SheetNext

(* There is no row and no sheet at first. *)
LEMMA SheetInvBegins ==
    ASSUME SheetAssumption, RowAssumption, SheetInit PROVE SheetInv
<1>1. \A w \in Writers : sheet[w] = Away
  BY DEF SheetInit
<1>2. SheetTypes
  <2>1. SheetTypeOK
    BY AwayTyped DEF SheetInit, SheetTypeOK, SheetAssumption, Reading, Readings
  <2> QED
    BY <1>1, <2>1, AwayTyped DEF SheetTypes
<1>3. SavingAccepted /\ ClosingAccepted
  BY <1>1, AwayTyped DEF SavingAccepted, ClosingAccepted
<1>4. RowsAccepted
  BY RowAssumption DEF RowsAccepted, SheetInit, RowAssumption
<1>5. OnePending
  BY <1>1, AwayTyped DEF OnePending, Pending, SheetInit
<1> QED
  BY <1>2, <1>3, <1>4, <1>5 DEF SheetInv

(* Accepted rows and one last reading, always. *)
LEMMA SheetInvAlways == SheetSpec => []SheetInv
<1> QED
  BY SheetAssumption, RowAssumption, SheetInvBegins, SheetInvKept, PTL DEF SheetSpec

(***************************************************************************)
(* No shift ends with a negative smr_total, whatever clerks save and close *)
(* at once and whichever statements fail, unless its row was saved with    *)
(* another start (machine-operations actions: "Close SMR cannot be less    *)
(* than start SMR").                                                       *)
(***************************************************************************)
THEOREM TotalsNotNegative == SheetSpec => []TotalNotNegative
<1>1. SheetInv => TotalNotNegative
  <2> SUFFICES ASSUME SheetInv, NEW s \in Shifts \ rebased, Closed(s), operations[s].start # Null
               PROVE  operations[s].close >= operations[s].start
    BY DEF TotalNotNegative
  <2>1. operations[s] \in Row
    BY DEF SheetInv, SheetTypes, SheetTypeOK, Closed
  <2> QED
    BY <2>1 DEF SheetInv, RowsAccepted, Acceptable, Closed
<1> QED
  BY <1>1, SheetInvAlways, PTL

(***************************************************************************)
(* Between the calls machines.current_smr is the reading a shift was       *)
(* closed with last, unless one failed half way, overtook another or       *)
(* matched no row (migration 077: "latest known close_smr").               *)
(***************************************************************************)
THEOREM MeterFollowsCloses == SheetSpec => []MeterIsLastClose
<1>1. SheetInv => MeterIsLastClose
  BY DEF SheetInv, OnePending, Pending, MeterIsLastClose
<1> QED
  BY <1>1, SheetInvAlways, PTL

(* Every variable of the shift sheet keeps to its type. *)
THEOREM SheetTypeCorrect == SheetSpec => []SheetTypeOK
<1>1. SheetInv => SheetTypeOK
  BY DEF SheetInv, SheetTypes
<1> QED
  BY <1>1, SheetInvAlways, PTL
=============================================================================
