----------------------------- MODULE Routes_proofs -----------------------------
(***************************************************************************)
(* Proofs about what the API routes lean on, for any values of the         *)
(* constants.  The replay of offline mutations: types, at most one row per *)
(* key and per shift, what "done" and "given up" mean, and that the job    *)
(* implements ExactlyOnce.  The fallback store: types, how many rows it    *)
(* holds, and that the worker, with its removals in two statements,        *)
(* implements the contract of KeyStore.  The rate limiter: types, what     *)
(* each strategy admits, and that nobody is refused without reason.        *)
(***************************************************************************)
EXTENDS MCApiRoutes, FiniteSetTheorems, TLAPS

(***************************************************************************)
(* The replay of offline mutations.                                        *)
(***************************************************************************)
USE SyncPlaybackAssumption DEF SyncPlaybackAssumption

(* The sets of mutations. *)
LEMMA Sorts ==
    /\ Inserts \subseteq Mutations /\ Resolves \subseteq Mutations /\ Logs \subseteq Inserts
    /\ \A m \in Mutations : m \in Inserts <=> m \notin Resolves
    /\ \A m \in Resolves : Target[m] \in Inserts
  BY DEF Inserts, Resolves, Logs

(* A new record of an event leaves the others alone. *)
LEMMA PutFacts ==
    ASSUME PlaybackTypeOK, NEW m \in Mutations, NEW e \in Events, NEW rec \in Event, Put(m, e, rec)
    PROVE  /\ event' \in [Mutations -> [Events -> Event]]
           /\ event'[m][e] = rec
           /\ \A n \in Mutations, d \in Events :
                 event'[n][d] # event[n][d] => n = m /\ d = e
  BY DEF PlaybackTypeOK, Put

(* Whether one of the events of a mutation was queued. *)
Posted(m) == \E e \in Events : event[m][e].at # "none"

(* What an event can stand for while it is under way; no row comes unasked. *)
Underway ==
    /\ \A m \in Mutations, e \in Events :
          /\ event[m][e].at \in {"queued", "missing"} => event[m][e].attempts < MaxAttempts
          /\ event[m][e].at = "missing" => m \in Inserts
    /\ \A m \in Inserts : rows[m] > 0 => Posted(m)

(* The record of an attempt that throws. *)
ThrownRecord(x, hit) ==
    [at |-> IF x.attempts + 1 = MaxAttempts THEN "dead" ELSE "queued",
     attempts |-> x.attempts + 1, hit |-> x.hit \/ hit]

(* Its attempts stay within their bound. *)
LEMMA ThrownIsEvent ==
    ASSUME NEW x \in Event, x.attempts < MaxAttempts, NEW hit \in BOOLEAN
    PROVE  /\ ThrownRecord(x, hit) \in Event
           /\ ThrownRecord(x, hit).at \in {"dead", "queued"}
           /\ ThrownRecord(x, hit).at = "queued" =>
                 ThrownRecord(x, hit).attempts < MaxAttempts
           /\ ThrownRecord(x, hit).attempts = x.attempts + 1
           /\ ThrownRecord(x, hit).hit = (x.hit \/ hit)
<1> DEFINE n == x.attempts + 1
           h == x.hit \/ hit
           a == IF n = MaxAttempts THEN "dead" ELSE "queued"
<1>1. n \in 0..MaxAttempts
  BY DEF Event
<1>2. h \in BOOLEAN
  OBVIOUS
<1>3. a \in {"dead", "queued"} /\ (a = "queued" => n < MaxAttempts)
  BY <1>1
<1>4. ThrownRecord(x, hit) = [at |-> a, attempts |-> n, hit |-> h]
  BY Zenon DEF ThrownRecord
<1> HIDE DEF n, h, a
<1>5. [at |-> a, attempts |-> n, hit |-> h] \in Event
  BY <1>1, <1>2, <1>3 DEF Event
<1> QED
  BY <1>3, <1>4, <1>5 DEF n, h

(* The records written by the other steps. *)
LEMMA WrittenEvents ==
    /\ NoEvent \in Event
    /\ [NoEvent EXCEPT !.at = "done"] \in Event
    /\ [NoEvent EXCEPT !.at = "queued"] \in Event
    /\ \A x \in Event : [x EXCEPT !.at = "missing"] \in Event
    /\ \A x \in Event : [x EXCEPT !.at = "missing", !.hit = TRUE] \in Event
<1>1. NoEvent \in Event
  BY DEF NoEvent, Event
<1>2. [NoEvent EXCEPT !.at = "done"] \in Event /\ [NoEvent EXCEPT !.at = "queued"] \in Event
  BY <1>1 DEF Event
<1>3. ASSUME NEW x \in Event PROVE [x EXCEPT !.at = "missing"] \in Event
  BY DEF Event
<1>4. ASSUME NEW x \in Event PROVE [x EXCEPT !.at = "missing", !.hit = TRUE] \in Event
  BY DEF Event
<1> QED
  BY <1>1, <1>2, <1>3, <1>4

-----------------------------------------------------------------------------
(* What one attempt makes of its event, *)
Turned(m, e, rec) ==
    /\ rec \in Event /\ Put(m, e, rec)
    /\ event[m][e].at \in {"queued", "missing"}
    /\ rec.at \in {"queued", "missing", "done", "dead"}
    /\ rec.at \in {"queued", "missing"} => rec.attempts < MaxAttempts
    /\ rec.at = "missing" => m \in Inserts
    /\ rec.at = "done" /\ m \in Inserts => rows'[m] > 0

(* and of the tables: nothing, one row more, or a breakdown updated. *)
Took(m) ==
    /\ UNCHANGED removed
    /\ \/ UNCHANGED <<rows, updates>>
       \/ /\ m \in Inserts /\ ~Refused(m)
          /\ rows' = [rows EXCEPT ![m] = @ + 1]
          /\ UNCHANGED updates
       \/ /\ m \in Resolves
          /\ updates' = [updates EXCEPT ![m] = @ + 1]
          /\ UNCHANGED rows

(* No step of the job does more than that. *)
LEMMA StepTurns ==
    ASSUME PlaybackTypeOK, Underway, NEW m \in Mutations, NEW e \in Events, EventStep(m, e)
    PROVE  Took(m) /\ errors' \in 0..MaxErrors /\ \E rec : Turned(m, e, rec)
<1> DEFINE x == event[m][e]
<1>1. x \in Event /\ errors \in 0..MaxErrors
  BY DEF PlaybackTypeOK
<1>2. Error => errors' \in 0..MaxErrors
  BY <1>1 DEF Error
<1>3. /\ [NoEvent EXCEPT !.at = "done"].at = "done"
      /\ [x EXCEPT !.at = "missing"].at = "missing"
      /\ [x EXCEPT !.at = "missing"].attempts = x.attempts
      /\ [x EXCEPT !.at = "missing", !.hit = TRUE].at = "missing"
      /\ [x EXCEPT !.at = "missing", !.hit = TRUE].attempts = x.attempts
  BY <1>1 DEF NoEvent, Event
<1>4. ASSUME NEW hit \in BOOLEAN, Thrown(m, e, hit), x.at \in {"queued", "missing"}
      PROVE  \E rec : Turned(m, e, rec)
  <2>1. Put(m, e, ThrownRecord(x, hit))
    BY <1>4 DEF Thrown, ThrownRecord
  <2>2. x.attempts < MaxAttempts
    BY <1>4 DEF Underway
  <2>3. Turned(m, e, ThrownRecord(x, hit))
    BY <1>1, <1>4, <2>1, <2>2, ThrownIsEvent DEF Turned
  <2> QED
    BY <2>3
<1>5. ASSUME Done(m, e), x.at \in {"queued", "missing"},
             m \in Inserts => rows'[m] > 0
      PROVE  \E rec : Turned(m, e, rec)
  <2>1. Turned(m, e, [NoEvent EXCEPT !.at = "done"])
    BY <1>3, <1>5, WrittenEvents DEF Done, Turned
  <2> QED
    BY <2>1
<1>6. ASSUME Look(m, e) PROVE Took(m) /\ errors' = errors /\ \E rec : Turned(m, e, rec)
  <2>1. Took(m) /\ errors' = errors
    BY <1>6 DEF Look, Took
  <2>2. CASE rows[m] > 0 /\ Done(m, e)
    <3>1. m \notin Resolves /\ rows'[m] > 0 /\ x.at = "queued"
      BY <1>6, <2>2, Sorts DEF Look
    <3> QED
      BY <1>5, <2>1, <2>2, <3>1
  <2>3. CASE Put(m, e, [x EXCEPT !.at = "missing"])
    <3>1. x.attempts < MaxAttempts
      BY <1>6 DEF Look, Underway
    <3>2. [x EXCEPT !.at = "missing"] \in Event
      BY <1>1, WrittenEvents
    <3>3. m \in Inserts /\ x.at = "queued"
      BY <1>6 DEF Look
    <3>4. Turned(m, e, [x EXCEPT !.at = "missing"])
      BY <1>3, <2>3, <3>1, <3>2, <3>3 DEF Turned
    <3> QED
      BY <2>1, <3>4
  <2> QED
    BY <1>6, <2>1, <2>2, <2>3 DEF Look
<1>7. ASSUME LookFails(m, e) PROVE Took(m) /\ Error /\ \E rec : Turned(m, e, rec)
  <2>1. x.attempts < MaxAttempts
    BY <1>7 DEF LookFails, Underway
  <2>2. Turned(m, e, [x EXCEPT !.at = "missing", !.hit = TRUE])
    BY <1>1, <1>3, <1>7, <2>1, WrittenEvents DEF LookFails, Turned
  <2> QED
    BY <1>7, <2>2 DEF LookFails, Took
<1>8. ASSUME Insert(m, e) PROVE Took(m) /\ errors' = errors /\ \E rec : Turned(m, e, rec)
  <2>1. x.at = "missing" /\ m \in Inserts /\ m \notin Resolves
    BY <1>8, Sorts DEF Insert, Underway
  <2>2. CASE Refused(m)
    BY <1>4, <1>8, <2>1, <2>2 DEF Insert, Took
  <2>3. CASE ~Refused(m)
    <3>1. rows'[m] > 0
      BY <1>8, <2>1, <2>3 DEF Insert, PlaybackTypeOK
    <3> QED
      BY <1>5, <1>8, <2>1, <2>3, <3>1 DEF Insert, Took
  <2> QED
    BY <2>2, <2>3
<1>9. ASSUME InsertFails(m, e) PROVE Took(m) /\ Error /\ \E rec : Turned(m, e, rec)
  BY <1>4, <1>9 DEF InsertFails, Underway, Took
<1>10. ASSUME Resolve(m, e) PROVE Took(m) /\ errors' = errors /\ \E rec : Turned(m, e, rec)
  BY <1>5, <1>10, Sorts DEF Resolve, Update, Took
<1>11. ASSUME ResolveFails(m, e) PROVE Took(m) /\ Error /\ \E rec : Turned(m, e, rec)
  BY <1>4, <1>11 DEF ResolveFails, Update, Took
<1> QED
  BY <1>1, <1>2, <1>6, <1>7, <1>8, <1>9, <1>10, <1>11 DEF EventStep

(* Rows and updates keep their types, and an event takes none back. *)
LEMMA TookFacts ==
    ASSUME PlaybackTypeOK, NEW m \in Mutations, Took(m)
    PROVE  /\ rows' \in [Inserts -> Nat]
           /\ updates' \in [Resolves -> Nat]
           /\ removed' = removed
           /\ \A n \in Inserts : rows[n] > 0 => rows'[n] > 0
           /\ \A n \in Inserts : Brought(n) => Brought(n)'
           /\ \A n \in Inserts \ {m} : rows'[n] = rows[n]
<1>1. CASE UNCHANGED <<rows, updates>>
  BY <1>1 DEF PlaybackTypeOK, Took, Brought
<1>2. CASE m \in Inserts /\ rows' = [rows EXCEPT ![m] = @ + 1] /\ UNCHANGED updates
  BY <1>2 DEF PlaybackTypeOK, Took, Brought
<1>3. CASE m \in Resolves /\ updates' = [updates EXCEPT ![m] = @ + 1] /\ UNCHANGED rows
  BY <1>3 DEF PlaybackTypeOK, Took, Brought
<1> QED
  BY <1>1, <1>2, <1>3 DEF Took

(* A row that is deleted has been there. *)
LEMMA RemoveFacts ==
    ASSUME PlaybackTypeOK, NEW m \in Mutations, Remove(m)
    PROVE  /\ m \in Inserts /\ rows[m] > 0 /\ rows'[m] = 0
           /\ rows' \in [Inserts -> Nat]
           /\ removed' \subseteq Inserts
           /\ \A n \in Inserts \ {m} : rows'[n] = rows[n]
           /\ \A n \in Inserts : Brought(n) => Brought(n)'
           /\ UNCHANGED <<event, updates, errors>>
  BY DEF PlaybackTypeOK, Remove, Brought

-----------------------------------------------------------------------------
(* An event that is posted waits for its first attempt. *)
LEMMA PostFacts ==
    ASSUME PlaybackTypeOK, NEW m \in Mutations, NEW e \in Events, Post(m, e)
    PROVE  /\ event' \in [Mutations -> [Events -> Event]]
           /\ event'[m][e] = [NoEvent EXCEPT !.at = "queued"]
           /\ event'[m][e].at = "queued" /\ event'[m][e].attempts = 0
           /\ \A n \in Mutations, d \in Events :
                 event'[n][d] # event[n][d] => n = m /\ d = e
<1> DEFINE rec == [NoEvent EXCEPT !.at = "queued"]
<1>1. rec.at = "queued" /\ rec.attempts = 0
  BY DEF NoEvent
<1>2. Put(m, e, rec) /\ rec \in Event
  BY WrittenEvents DEF Post
<1> HIDE DEF rec
<1>3. /\ event' \in [Mutations -> [Events -> Event]]
      /\ event'[m][e] = rec
      /\ \A n \in Mutations, d \in Events :
            event'[n][d] # event[n][d] => n = m /\ d = e
  BY <1>2, PutFacts
<1> QED
  BY <1>1, <1>3 DEF rec

(* Types and Underway are inductive together. *)
LEMMA UnderwayKept ==
    PlaybackTypeOK /\ Underway /\ [PlaybackNext]_playbackVars =>
        PlaybackTypeOK' /\ Underway'
<1> SUFFICES ASSUME PlaybackTypeOK, Underway, [PlaybackNext]_playbackVars
             PROVE  PlaybackTypeOK' /\ Underway'
  OBVIOUS
<1>1. ASSUME NEW m \in Mutations, NEW e \in Events, Post(m, e)
      PROVE  PlaybackTypeOK' /\ Underway'
  <2>1. PlaybackTypeOK'
    BY <1>1, PostFacts DEF Post, PlaybackTypeOK
  <2>2. Underway'
    <3>1. /\ rows' = rows /\ event'[m][e].at = "queued" /\ event'[m][e].attempts = 0
          /\ \A n \in Mutations, d \in Events :
                event'[n][d] = event[n][d] \/ (n = m /\ d = e)
      BY <1>1, PostFacts DEF Post
    <3>2. 0 < MaxAttempts
      OBVIOUS
    <3>3. \A n \in Mutations : Posted(n) => Posted(n)'
      BY <3>1 DEF Posted
    <3> QED
      BY <3>1, <3>2, <3>3, Sorts DEF Underway
  <2> QED
    BY <2>1, <2>2
<1>2. ASSUME NEW m \in Mutations, NEW e \in Events, EventStep(m, e)
      PROVE  PlaybackTypeOK' /\ Underway'
  <2>1. PICK rec : Turned(m, e, rec)
    BY <1>2, StepTurns
  <2>2. Took(m) /\ errors' \in 0..MaxErrors
    BY <1>2, StepTurns
  <2>3. /\ event' \in [Mutations -> [Events -> Event]]
        /\ event'[m][e] = rec
        /\ \A n \in Mutations, d \in Events :
              event'[n][d] # event[n][d] => n = m /\ d = e
    BY <2>1, PutFacts DEF Turned
  <2>4. PlaybackTypeOK'
    BY <2>2, <2>3, TookFacts DEF PlaybackTypeOK
  <2>5. Posted(m)' /\ \A n \in Mutations \ {m} : Posted(n)' = Posted(n)
    BY <2>1, <2>3 DEF Turned, Posted
  <2>6. ASSUME NEW n \in Mutations, NEW d \in Events
        PROVE  /\ event'[n][d].at \in {"queued", "missing"} => event'[n][d].attempts < MaxAttempts
               /\ event'[n][d].at = "missing" => n \in Inserts
    <3>1. CASE n = m /\ d = e
      BY <2>1, <2>3, <3>1 DEF Turned
    <3>2. CASE ~(n = m /\ d = e)
      BY <2>3, <3>2 DEF Underway
    <3> QED
      BY <3>1, <3>2
  <2>7. ASSUME NEW n \in Inserts, rows'[n] > 0 PROVE Posted(n)'
    BY <2>2, <2>5, <2>7, TookFacts, Sorts DEF Underway
  <2>8. Underway'
    BY <2>6, <2>7 DEF Underway
  <2> QED
    BY <2>4, <2>8
<1>3. CASE UNCHANGED playbackVars
  BY <1>3 DEF playbackVars, PlaybackTypeOK, Underway, Posted
<1>4. ASSUME NEW m \in Mutations, Remove(m) PROVE PlaybackTypeOK' /\ Underway'
  <2>1. PlaybackTypeOK'
    BY <1>4, RemoveFacts DEF PlaybackTypeOK
  <2>2. \A n \in Inserts : rows'[n] > 0 => rows[n] > 0
    BY <1>4, RemoveFacts
  <2> QED
    BY <1>4, <2>1, <2>2, RemoveFacts DEF Underway, Posted
<1> QED
  BY <1>1, <1>2, <1>3, <1>4 DEF PlaybackNext, AllOver

(* They hold at the start. *)
LEMMA UnderwayAtFirst ==
    PlaybackInit => PlaybackTypeOK /\ Underway
<1> SUFFICES ASSUME PlaybackInit PROVE PlaybackTypeOK /\ Underway
  OBVIOUS
<1>1. event \in [Mutations -> [Events -> Event]] /\ updates \in [Resolves -> Nat]
  BY WrittenEvents DEF PlaybackInit
<1>2. rows \in [Inserts -> Nat] /\ removed \subseteq Inserts /\ errors \in 0..MaxErrors
  BY DEF PlaybackInit
<1>3. Underway
  BY DEF PlaybackInit, Underway, NoEvent
<1> QED
  BY <1>1, <1>2, <1>3 DEF PlaybackTypeOK

(* For any mutations and bounds, every variable keeps to its type. *)
THEOREM PlaybackTypeCorrect == PlaybackSpec => []PlaybackTypeOK
  BY UnderwayAtFirst, UnderwayKept, PTL DEF PlaybackSpec

(* Of events under way, what Underway says always holds. *)
LEMMA AlwaysUnderway == PlaybackSpec => [](PlaybackTypeOK /\ Underway)
  BY UnderwayAtFirst, UnderwayKept, PTL DEF PlaybackSpec

-----------------------------------------------------------------------------
(* The invariant the tables' unique constraints give: a row for a key, and *)
(* for the logs of a shift.                                                *)
OneRow ==
    /\ \A m \in Inserts : rows[m] <= 1
    /\ \A m, n \in Logs : rows[m] > 0 /\ rows[n] > 0 => m = n

(* Only what is not refused is inserted. *)
LEMMA OneRowKept ==
    ASSUME PlaybackTypeOK, OneRow, NEW m \in Mutations, Took(m)
    PROVE  OneRow'
<1>1. CASE UNCHANGED rows
  BY <1>1 DEF OneRow
<1>2. CASE m \in Inserts /\ ~Refused(m) /\ rows' = [rows EXCEPT ![m] = @ + 1]
  <2>1. rows[m] = 0
    BY <1>2 DEF Refused, PlaybackTypeOK
  <2>2. m \in Logs => \A n \in Logs : rows[n] = 0
    BY <1>2, Sorts DEF Refused, PlaybackTypeOK
  <2>3. rows'[m] = 1 /\ \A n \in Inserts \ {m} : rows'[n] = rows[n]
    BY <1>2, <2>1 DEF PlaybackTypeOK
  <2> QED
    BY <1>2, <2>2, <2>3, Sorts DEF OneRow
<1> QED
  BY <1>1, <1>2 DEF Took

(* DoneMeansApplied is inductive beside Underway: what was brought was brought. *)
LEMMA DoneKept ==
    ASSUME PlaybackTypeOK, Underway, DoneMeansApplied, [PlaybackNext]_playbackVars
    PROVE  DoneMeansApplied'
<1> USE DEF DoneMeansApplied
<1>1. ASSUME NEW m \in Mutations, NEW e \in Events, Post(m, e)
      PROVE  DoneMeansApplied'
  <2>1. \A n \in Inserts : Brought(n)' = Brought(n)
    BY <1>1 DEF Post, Brought
  <2> QED
    BY <1>1, <2>1, PostFacts, Sorts
<1>2. ASSUME NEW m \in Mutations, NEW e \in Events, EventStep(m, e)
      PROVE  DoneMeansApplied'
  <2>1. PICK rec : Turned(m, e, rec)
    BY <1>2, StepTurns
  <2>2. Took(m)
    BY <1>2, StepTurns
  <2>3. /\ event'[m][e] = rec
        /\ \A n \in Mutations, d \in Events :
              event'[n][d] # event[n][d] => n = m /\ d = e
    BY <2>1, PutFacts DEF Turned
  <2>4. ASSUME NEW n \in Inserts, Brought(n) PROVE Brought(n)'
    BY <2>2, <2>4, TookFacts
  <2>5. rec.at = "done" /\ m \in Inserts => Brought(m)'
    BY <2>1 DEF Turned, Brought
  <2>6. ASSUME NEW n \in Inserts, NEW d \in Events, event'[n][d].at = "done"
        PROVE  Brought(n)'
    <3>1. CASE n = m /\ d = e
      BY <2>3, <2>5, <2>6, <3>1
    <3>2. CASE ~(n = m /\ d = e)
      <4>1. event[n][d].at = "done"
        BY <2>3, <2>6, <3>2, Sorts
      <4> QED
        BY <2>4, <4>1
    <3> QED
      BY <3>1, <3>2
  <2> QED
    BY <2>6
<1>3. CASE UNCHANGED playbackVars
  BY <1>3 DEF playbackVars, Brought
<1>4. ASSUME NEW m \in Mutations, Remove(m) PROVE DoneMeansApplied'
  BY <1>4, RemoveFacts
<1> QED
  BY <1>1, <1>2, <1>3, <1>4 DEF PlaybackNext, AllOver

(* An insertion whose event is done has brought its row, deleted since or not. *)
THEOREM DoneIsApplied == PlaybackSpec => []DoneMeansApplied
<1>1. PlaybackInit => DoneMeansApplied
  BY Sorts DEF PlaybackInit, DoneMeansApplied, NoEvent
<1> QED
  BY <1>1, DoneKept, AlwaysUnderway, PTL DEF PlaybackSpec

(* OneRow is inductive beside Underway. *)
LEMMA OneRowInvariant == PlaybackSpec => []OneRow
<1>1. PlaybackInit => OneRow
  BY Sorts DEF PlaybackInit, OneRow
<1>2. ASSUME PlaybackTypeOK, Underway, OneRow, [PlaybackNext]_playbackVars
      PROVE  OneRow'
  <2>1. ASSUME NEW m \in Mutations, NEW e \in Events, Post(m, e) PROVE OneRow'
    BY <1>2, <2>1 DEF Post, OneRow
  <2>2. ASSUME NEW m \in Mutations, NEW e \in Events, EventStep(m, e) PROVE OneRow'
    BY <1>2, <2>2, StepTurns, OneRowKept
  <2>3. CASE UNCHANGED playbackVars
    BY <1>2, <2>3 DEF playbackVars, OneRow
  <2>4. ASSUME NEW m \in Mutations, Remove(m) PROVE OneRow'
    BY <1>2, <2>4, RemoveFacts, Sorts DEF OneRow
  <2> QED
    BY <1>2, <2>1, <2>2, <2>3, <2>4 DEF PlaybackNext, AllOver
<1> QED
  BY <1>1, <1>2, AlwaysUnderway, PTL DEF PlaybackSpec

-----------------------------------------------------------------------------
(* Where OneRow holds, nothing is there twice. *)
LEMMA StageIs ==
    ASSUME PlaybackTypeOK, OneRow, NEW m \in Inserts
    PROVE  Stage(m) = IF rows[m] > 0 THEN "applied" ELSE IF Posted(m) THEN "accepted" ELSE "offered"
<1>1. rows[m] \in Nat /\ rows[m] <= 1
  BY DEF OneRow, PlaybackTypeOK
<1>2. CASE rows[m] = 1
  BY <1>2 DEF Stage
<1>3. CASE rows[m] = 0
  BY <1>3 DEF Stage, Posted
<1> QED
  BY <1>1, <1>2, <1>3

(* A mutation none of whose state changes stays at its stage. *)
LEMMA StageKept ==
    ASSUME NEW n \in Inserts, \A d \in Events : event'[n][d] = event[n][d], rows'[n] = rows[n]
    PROVE  Stage(n)' = Stage(n)
  BY DEF Stage

(* StageIs of all insertions, as a formula of one state, *)
StagesAsExpected ==
    \A m \in Inserts :
        Stage(m) = IF rows[m] > 0 THEN "applied" ELSE IF Posted(m) THEN "accepted" ELSE "offered"

(* which holds in the next state as well. *)
LEMMA StagesKnown ==
    PlaybackTypeOK /\ OneRow => StagesAsExpected
  BY StageIs DEF StagesAsExpected

(* What of a step the abstract view shows, when it concerns one mutation. *)
LEMMA ViewSteps ==
    ASSUME NEW m \in Inserts, \A n \in Inserts \ {m} : Stage(n)' = Stage(n)
    PROVE  /\ Stage(m)' = Stage(m) => View' = View
           /\ Stage(m) = "offered" /\ Stage(m)' = "accepted" => Promise!Accept(m)
           /\ /\ Stage(m) = "accepted" /\ Stage(m)' = "applied"
              /\ m \in Logs => \A n \in Logs : Stage(n) # "applied"
              => Promise!Apply(m)
           /\ Stage(m) = "applied" /\ Stage(m)' = "accepted" => Promise!Withdraw(m)
<1>1. \A n \in Inserts : View[n] = Stage(n) /\ View'[n] = Stage(n)'
  BY DEF View
<1>2. ASSUME NEW v, Stage(m)' = v
      PROVE  View' = [View EXCEPT ![m] = v]
  <2>1. [View EXCEPT ![m] = v] = [n \in Inserts |-> IF n = m THEN v ELSE Stage(n)]
    BY DEF View
  <2>2. View' = [n \in Inserts |-> Stage(n)']
    BY DEF View
  <2>3. \A n \in Inserts : Stage(n)' = IF n = m THEN v ELSE Stage(n)
    BY <1>2
  <2> QED
    BY <2>1, <2>2, <2>3
<1>3. [View EXCEPT ![m] = Stage(m)] = View
  BY DEF View
<1> QED
  BY <1>1, <1>2, <1>3, Sorts DEF Promise!Accept, Promise!Apply, Promise!Withdraw

(* A step that leaves the events and the rows of an insertion alone. *)
Apart(n) == rows'[n] = rows[n] /\ \A d \in Events : event'[n][d] = event[n][d]

(* Where nothing changes for any of them, nothing is to be seen. *)
LEMMA AllApart ==
    ASSUME \A n \in Inserts : Apart(n)
    PROVE  View' = View
  BY StageKept DEF Apart, View

(* Every step maps to a step of ExactlyOnce or to a stutter. *)
LEMMA StepImplements ==
    ASSUME PlaybackTypeOK, Underway, OneRow, StagesAsExpected, StagesAsExpected',
           [PlaybackNext]_playbackVars
    PROVE  [Promise!Next]_View
<1>1. ASSUME NEW m \in Mutations, NEW e \in Events, Post(m, e)
      PROVE  [Promise!Next]_View
  <2>1. UNCHANGED rows
    BY <1>1 DEF Post
  <2>2. \A n \in Inserts \ {m} : Apart(n)
    BY <1>1, <2>1, PostFacts, Sorts DEF Apart
  <2>3. CASE m \notin Inserts
    BY <2>2, <2>3, AllApart
  <2>4. CASE m \in Inserts
    <3>1. \A n \in Inserts \ {m} : Stage(n)' = Stage(n)
      BY <2>2, StageKept DEF Apart
    <3>2. Posted(m)'
      BY <1>1, PostFacts DEF Posted
    <3>3. \/ Stage(m)' = Stage(m)
          \/ Stage(m) = "offered" /\ Stage(m)' = "accepted"
      BY <2>1, <2>4, <3>2 DEF StagesAsExpected
    <3> QED
      BY <2>4, <3>1, <3>3, ViewSteps DEF Promise!Next
  <2> QED
    BY <2>3, <2>4
<1>2. ASSUME NEW m \in Mutations, NEW e \in Events, EventStep(m, e)
      PROVE  [Promise!Next]_View
  <2>1. PICK rec : Turned(m, e, rec)
    BY <1>2, StepTurns
  <2>2. Took(m)
    BY <1>2, StepTurns
  <2>3. /\ event'[m][e] = rec
        /\ \A n \in Mutations, d \in Events :
              event'[n][d] # event[n][d] => n = m /\ d = e
    BY <2>1, PutFacts DEF Turned
  <2>4. \A n \in Inserts \ {m} : Apart(n)
    BY <2>2, <2>3, TookFacts, Sorts DEF Apart
  <2>5. CASE m \notin Inserts
    BY <2>4, <2>5, AllApart
  <2>6. CASE m \in Inserts
    <3>1. \A n \in Inserts \ {m} : Stage(n)' = Stage(n)
      BY <2>4, StageKept DEF Apart
    <3>2. Posted(m) /\ Posted(m)'
      BY <2>1, <2>3 DEF Turned, Posted
    <3>3. CASE rows[m] > 0
      <4>1. rows'[m] > 0
        BY <2>2, <2>6, <3>3, TookFacts
      <4>2. Stage(m)' = Stage(m)
        BY <2>6, <3>3, <4>1 DEF StagesAsExpected
      <4> QED
        BY <2>6, <3>1, <4>2, ViewSteps
    <3>4. CASE ~(rows[m] > 0) /\ ~(rows'[m] > 0)
      <4>1. Stage(m)' = Stage(m)
        BY <2>6, <3>2, <3>4 DEF StagesAsExpected
      <4> QED
        BY <2>6, <3>1, <4>1, ViewSteps
    <3>5. CASE ~(rows[m] > 0) /\ rows'[m] > 0
      <4>1. ~Refused(m)
        BY <2>2, <2>6, <3>5, Sorts DEF Took
      <4>2. m \in Logs => \A n \in Logs : Stage(n) # "applied"
        BY <4>1, Sorts DEF Refused, StagesAsExpected
      <4>3. Stage(m) = "accepted" /\ Stage(m)' = "applied"
        BY <2>6, <3>2, <3>5 DEF StagesAsExpected
      <4> QED
        BY <2>6, <3>1, <4>2, <4>3, ViewSteps DEF Promise!Next
    <3> QED
      BY <3>3, <3>4, <3>5
  <2> QED
    BY <2>5, <2>6
<1>3. CASE UNCHANGED playbackVars
  <2>1. \A n \in Inserts : Apart(n)
    BY <1>3 DEF playbackVars, Apart
  <2> QED
    BY <2>1, AllApart
<1>4. ASSUME NEW m \in Mutations, Remove(m) PROVE [Promise!Next]_View
  <2>1. m \in Inserts /\ rows[m] > 0 /\ rows'[m] = 0 /\ event' = event
    BY <1>4, RemoveFacts
  <2>2. \A n \in Inserts \ {m} : Stage(n)' = Stage(n)
    BY <1>4, <2>1, RemoveFacts, StageKept
  <2>3. Posted(m) /\ Posted(m)'
    BY <2>1 DEF Underway, Posted
  <2>4. Stage(m) = "applied" /\ Stage(m)' = "accepted"
    BY <2>1, <2>3 DEF StagesAsExpected
  <2> QED
    BY <2>1, <2>2, <2>4, ViewSteps DEF Promise!Next
<1> QED
  BY <1>1, <1>2, <1>3, <1>4 DEF PlaybackNext, AllOver

(* At first every mutation is offered. *)
LEMMA InitImplements == PlaybackInit => Promise!Init
<1> SUFFICES ASSUME PlaybackInit, NEW m \in Inserts PROVE Stage(m) = "offered"
  BY DEF Promise!Init, View
<1>1. rows[m] = 0
  BY DEF PlaybackInit
<1>2. \A e \in Events : event[m][e].at = "none"
  BY Sorts DEF PlaybackInit, NoEvent
<1> QED
  BY <1>1, <1>2 DEF Stage

(***************************************************************************)
(* "Uses idempotency keys to prevent duplicate processing": whatever the   *)
(* posts, retries, lost answers and deletions, the job implements          *)
(* ExactlyOnce for all that it inserts.                                    *)
(***************************************************************************)
THEOREM ImplementsPromise == PlaybackSpec => AppliedOnce
<1>1. PlaybackSpec => [](PlaybackTypeOK /\ Underway /\ OneRow /\ StagesAsExpected)
  BY AlwaysUnderway, OneRowInvariant, StagesKnown, PTL
<1>2. PlaybackTypeOK /\ Underway /\ OneRow /\ StagesAsExpected /\ StagesAsExpected'
        /\ [PlaybackNext]_playbackVars => [Promise!Next]_View
  BY StepImplements
<1> QED
  BY <1>1, <1>2, InitImplements, PTL DEF PlaybackSpec, AppliedOnce, Promise!Spec

-----------------------------------------------------------------------------
(***************************************************************************)
(* Why GivenUpForReason holds with two attempts or more: an insertion that *)
(* was refused finds the row of its own mutation at the next look, unless  *)
(* it was deleted meanwhile or the row in its way is another log of the    *)
(* shift.                                                                  *)
(***************************************************************************)
InTheWay(m) == m \in removed \/ (m \in Logs /\ \E n \in Logs \ {m} : Brought(n))

(* What refuses the row of m, or did. *)
WasRefused(m) == IF m \in Logs THEN \E n \in Logs : Brought(n) ELSE Brought(m)

RefusedBefore ==
    \A m \in Mutations, e \in Events :
        ~event[m][e].hit =>
            /\ event[m][e].at = "queued" /\ event[m][e].attempts > 0 =>
                  m \in Inserts /\ WasRefused(m)
            /\ event[m][e].at = "missing" /\ event[m][e].attempts > 0 => InTheWay(m)
            /\ event[m][e].at = "dead" => InTheWay(m)

(* Both last, as whatever was brought has been. *)
LEMMA RefusalsLast ==
    ASSUME \A n \in Inserts : Brought(n) => Brought(n)', removed \subseteq removed'
    PROVE  /\ \A n \in Inserts : WasRefused(n) => WasRefused(n)'
           /\ \A n \in Mutations : InTheWay(n) => InTheWay(n)'
<1>1. ASSUME NEW n \in Inserts, WasRefused(n) PROVE WasRefused(n)'
  BY <1>1, Sorts DEF WasRefused
<1>2. ASSUME NEW n \in Mutations, InTheWay(n) PROVE InTheWay(n)'
  BY <1>2, Sorts DEF InTheWay
<1> QED
  BY <1>1, <1>2

(* What RefusedBefore says of one event whose statements never failed. *)
Cause(m, e) ==
    /\ event[m][e].at = "queued" /\ event[m][e].attempts > 0 => m \in Inserts /\ WasRefused(m)
    /\ event[m][e].at = "missing" /\ event[m][e].attempts > 0 => InTheWay(m)
    /\ event[m][e].at = "dead" => InTheWay(m)

(* An attempt leaves its own event with a reason, *)
LEMMA AttemptHasReason ==
    ASSUME PlaybackTypeOK, Underway, RefusedBefore, MaxAttempts > 1,
           NEW m \in Mutations, NEW e \in Events, EventStep(m, e), ~event'[m][e].hit
    PROVE  Cause(m, e)'
<1> DEFINE x == event[m][e]
<1>1. x \in Event /\ (~x.hit => Cause(m, e))
  BY DEF PlaybackTypeOK, RefusedBefore, Cause
<1>2. ASSUME NEW hit \in BOOLEAN, Thrown(m, e, hit), x.at \in {"queued", "missing"}
      PROVE  /\ event'[m][e].at \in {"dead", "queued"}
             /\ event'[m][e].at = "dead" => x.attempts > 0
             /\ event'[m][e].hit = (x.hit \/ hit)
  <2>1. Put(m, e, ThrownRecord(x, hit)) /\ x.attempts < MaxAttempts
    BY <1>2 DEF Thrown, ThrownRecord, Underway
  <2> DEFINE rec == ThrownRecord(x, hit)
  <2>2. rec \in Event /\ rec.at \in {"dead", "queued"} /\ rec.hit = (x.hit \/ hit)
    BY <1>1, <2>1, ThrownIsEvent
  <2>3. rec.at = "dead" => x.attempts + 1 = MaxAttempts
    BY DEF ThrownRecord
  <2>4. rec.at = "dead" => x.attempts > 0
    BY <1>1, <2>3 DEF Event
  <2>5. Put(m, e, rec)
    BY <2>1
  <2> HIDE DEF rec
  <2>6. event'[m][e] = rec
    BY <2>2, <2>5, PutFacts
  <2> QED
    BY <2>2, <2>4, <2>6
<1>3. ASSUME Done(m, e) PROVE Cause(m, e)'
  <2> DEFINE rec == [NoEvent EXCEPT !.at = "done"]
  <2>1. rec.at = "done"
    BY DEF NoEvent
  <2>2. rec \in Event /\ Put(m, e, rec)
    BY <1>3, WrittenEvents DEF Done
  <2> HIDE DEF rec
  <2>3. event'[m][e] = rec
    BY <2>2, PutFacts
  <2> QED
    BY <2>1, <2>3 DEF Cause
<1>4. ASSUME Look(m, e) PROVE Cause(m, e)'
  <2>1. CASE rows[m] = 0 /\ Put(m, e, [x EXCEPT !.at = "missing"])
    <3> DEFINE rec == [x EXCEPT !.at = "missing"]
    <3>1. rec.at = "missing" /\ rec.attempts = x.attempts /\ rec.hit = x.hit
      BY <1>1 DEF Event
    <3>2. rec \in Event /\ Put(m, e, rec)
      BY <1>1, <2>1, WrittenEvents
    <3> HIDE DEF rec
    <3>3. event'[m][e] = rec
      BY <3>2, PutFacts
    <3>4. x.attempts > 0 => WasRefused(m)
      BY <1>1, <1>4, <3>1, <3>3 DEF Look, Cause
    <3>5. x.attempts > 0 => InTheWay(m)
      BY <2>1, <3>4 DEF WasRefused, InTheWay, Brought
    <3>6. UNCHANGED <<rows, removed>>
      BY <1>4 DEF Look
    <3>7. InTheWay(m) => InTheWay(m)'
      BY <3>6 DEF InTheWay, Brought
    <3> QED
      BY <3>1, <3>3, <3>5, <3>7 DEF Cause
  <2> QED
    BY <1>3, <1>4, <2>1 DEF Look
<1>5. ASSUME LookFails(m, e) PROVE FALSE
  <2> DEFINE rec == [x EXCEPT !.at = "missing", !.hit = TRUE]
  <2>1. rec \in Event /\ Put(m, e, rec) /\ rec.hit
    BY <1>1, <1>5, WrittenEvents DEF LookFails, Event
  <2> HIDE DEF rec
  <2> QED
    BY <2>1, PutFacts
<1>6. ASSUME Insert(m, e) PROVE Cause(m, e)'
  <2>1. CASE Refused(m)
    <3>1. Thrown(m, e, FALSE) /\ x.at = "missing" /\ UNCHANGED <<rows, removed>>
      BY <1>6, <2>1 DEF Insert
    <3>2. event'[m][e].at \in {"dead", "queued"} /\ ~x.hit
      BY <1>2, <3>1
    <3>3. event'[m][e].at = "dead" => InTheWay(m)
      BY <1>1, <1>2, <3>1, <3>2 DEF Cause
    <3>4. m \in Inserts
      BY <3>1 DEF Underway
    <3>5. WasRefused(m)' /\ (InTheWay(m) => InTheWay(m)')
      BY <2>1, <3>1 DEF Refused, WasRefused, InTheWay, Brought
    <3> QED
      BY <3>2, <3>3, <3>4, <3>5 DEF Cause
  <2> QED
    BY <1>3, <1>6, <2>1 DEF Insert
<1>7. ASSUME InsertFails(m, e) \/ ResolveFails(m, e) PROVE FALSE
  <2>1. Thrown(m, e, TRUE) /\ x.at \in {"queued", "missing"}
    BY <1>7 DEF InsertFails, ResolveFails
  <2> QED
    BY <1>2, <2>1
<1>8. ASSUME Resolve(m, e) PROVE Cause(m, e)'
  BY <1>3, <1>8 DEF Resolve
<1> QED
  BY <1>4, <1>5, <1>6, <1>7, <1>8 DEF EventStep

(* and the others keep theirs. *)
LEMMA RefusedBeforeKept ==
    ASSUME PlaybackTypeOK, Underway, RefusedBefore, MaxAttempts > 1, [PlaybackNext]_playbackVars
    PROVE  RefusedBefore'
<1>1. ASSUME NEW m \in Mutations, NEW e \in Events, Post(m, e)
      PROVE  RefusedBefore'
  <2>1. /\ \A n \in Mutations : InTheWay(n) => InTheWay(n)'
        /\ \A n \in Mutations : WasRefused(n) => WasRefused(n)'
    BY <1>1 DEF Post, InTheWay, WasRefused, Brought
  <2> SUFFICES ASSUME NEW n \in Mutations, NEW d \in Events, ~event'[n][d].hit
               PROVE  Cause(n, d)'
    BY DEF RefusedBefore, Cause
  <2>2. CASE n = m /\ d = e
    BY <1>1, <2>2, PostFacts DEF Cause
  <2>3. CASE ~(n = m /\ d = e)
    <3>1. event'[n][d] = event[n][d]
      BY <1>1, <2>3, PostFacts
    <3> QED
      BY <2>1, <3>1 DEF RefusedBefore, Cause
  <2> QED
    BY <2>2, <2>3
<1>2. ASSUME NEW m \in Mutations, NEW e \in Events, EventStep(m, e)
      PROVE  RefusedBefore'
  <2>1. PICK rec : Turned(m, e, rec)
    BY <1>2, StepTurns
  <2>2. Took(m)
    BY <1>2, StepTurns
  <2>3. \A n \in Mutations, d \in Events :
           event'[n][d] # event[n][d] => n = m /\ d = e
    BY <2>1, PutFacts DEF Turned
  <2> SUFFICES ASSUME NEW n \in Mutations, NEW d \in Events, ~event'[n][d].hit
               PROVE  Cause(n, d)'
    BY DEF RefusedBefore, Cause
  <2>4. CASE n = m /\ d = e
    BY <1>2, <2>4, AttemptHasReason
  <2>5. CASE ~(n = m /\ d = e)
    <3>1. event'[n][d] = event[n][d]
      BY <2>3, <2>5
    <3>2. Cause(n, d)
      BY <3>1 DEF RefusedBefore, Cause
    <3>3. /\ n \in Inserts /\ WasRefused(n) => WasRefused(n)'
          /\ InTheWay(n) => InTheWay(n)'
      BY <2>2, TookFacts, RefusalsLast
    <3> QED
      BY <3>1, <3>2, <3>3 DEF Cause
  <2> QED
    BY <2>4, <2>5
<1>3. CASE UNCHANGED playbackVars
  BY <1>3 DEF playbackVars, RefusedBefore, WasRefused, InTheWay, Brought
<1>4. ASSUME NEW m \in Mutations, Remove(m) PROVE RefusedBefore'
  <2>1. removed \subseteq removed' /\ event' = event
    BY <1>4 DEF Remove
  <2>2. /\ \A n \in Inserts : WasRefused(n) => WasRefused(n)'
        /\ \A n \in Mutations : InTheWay(n) => InTheWay(n)'
    BY <1>4, <2>1, RemoveFacts, RefusalsLast
  <2> QED
    BY <2>1, <2>2 DEF RefusedBefore
<1> QED
  BY <1>1, <1>2, <1>3, <1>4 DEF PlaybackNext, AllOver

(***************************************************************************)
(* With two attempts or more (the job leaves Inngest's retries on), an     *)
(* event is given up only because its statements failed, its row was       *)
(* deleted, or another log of the shift came first.                        *)
(***************************************************************************)
THEOREM NothingGivenUp ==
    ASSUME MaxAttempts > 1
    PROVE  PlaybackSpec => []GivenUpForReason
<1>1. PlaybackInit => RefusedBefore
  BY DEF PlaybackInit, RefusedBefore, NoEvent
<1>2. PlaybackTypeOK /\ Underway /\ RefusedBefore /\ [PlaybackNext]_playbackVars
        => RefusedBefore'
  BY RefusedBeforeKept
<1>3. RefusedBefore => GivenUpForReason
  BY DEF RefusedBefore, InTheWay, GivenUpForReason
<1> QED
  BY <1>1, <1>2, <1>3, AlwaysUnderway, PTL DEF PlaybackSpec

HIDE SyncPlaybackAssumption DEF SyncPlaybackAssumption

-----------------------------------------------------------------------------
(***************************************************************************)
(* The fallback store.                                                     *)
(***************************************************************************)
USE SqliteStoreAssumption DEF SqliteStoreAssumption

(* A list is known by its length. *)
Length(content) == content = {} \/ \E n \in Nat \ {0} : content = {n}

(***************************************************************************)
(* A key without a row has no value, no scalar has rows in other tables,   *)
(* and of the keys that a command removes only the one under way has lost  *)
(* its row.                                                                *)
(***************************************************************************)
StoreInv ==
    /\ clock \in Nat
    /\ keyRow \in [StoreKeys -> Row]
    /\ held \in [StoreKeys -> SUBSET Nat]
    /\ \A k \in StoreKeys : ~keyRow[k].stored => keyRow[k].value = {}
    /\ \A k \in Scalars : held[k] = {}
    /\ \A k \in StoreKeys : StoreKind[k] = "list" => Length(held[k])
    /\ doomed \subseteq StoreKeys
    /\ halfway # NoKey => halfway \in doomed /\ halfway \notin Present
    /\ doomed \ {halfway} \subseteq Present

(* The numbers a count goes to are numbers. *)
LEMMA OneMoreFacts ==
    ASSUME NEW c \in SUBSET Nat
    PROVE  /\ OneMore(c) \in SUBSET Nat
           /\ Length(c) => Length(OneMore(c))
           /\ OneMore(c) = Contract!OneMore(c)
<1>1. OneMore(c) \in SUBSET Nat
  BY DEF OneMore
<1>2. OneMore(c) = Contract!OneMore(c)
  BY DEF OneMore, Contract!OneMore
<1>3. CASE c = {}
  <2>1. OneMore(c) = {1} /\ 1 \in Nat \ {0}
    BY <1>3 DEF OneMore
  <2> QED
    BY <1>1, <1>2, <2>1 DEF Length
<1>4. ASSUME c # {}, NEW n \in Nat \ {0}, c = {n} PROVE Length(OneMore(c))
  <2>1. OneMore(c) = {n + 1} /\ n + 1 \in Nat \ {0}
    BY <1>4 DEF OneMore
  <2> QED
    BY <2>1 DEF Length
<1> QED
  BY <1>1, <1>2, <1>3, <1>4 DEF Length

(* A deadline is a time, and not yet over. *)
LEMMA UntilFacts ==
    ASSUME clock \in Nat, NEW ttl \in 0..1
    PROVE  Until(ttl) \in Nat /\ ~(Until(ttl) # 0 /\ clock > Until(ttl))
  BY DEF Until

(* The rows that commands write. *)
LEMMA RowFacts ==
    ASSUME StoreInv, NEW k \in StoreKeys
    PROVE  /\ NoRow \in Row
           /\ Touched(k) \in Row
           /\ Touched(k).stored = keyRow[k].stored
           /\ Touched(k).value = keyRow[k].value
           /\ Touched(k).stored => Touched(k).expires = keyRow[k].expires
           /\ \A v \in SUBSET Nat :
                 /\ Upserted(k, v) \in Row
                 /\ Upserted(k, v).stored /\ Upserted(k, v).value = v
                 /\ Upserted(k, v).expires = IF k \in Present THEN keyRow[k].expires ELSE 0
  BY DEF StoreInv, NoRow, Row, Touched, Upserted, Present

-----------------------------------------------------------------------------
(* A step of the worker, seen as one of the contract. *)
ContractStep == [Contract!Next]_<<Visible, Orphaned, reply, kills>>

(* What a caller finds at a key, and whether it is orphaned, is read off its rows. *)
Shown(row, rest, time, k) ==
    IF ~row.stored \/ (row.expires # 0 /\ time > row.expires) THEN {}
    ELSE IF k \in Scalars THEN row.value ELSE rest

LEMMA ShownFacts ==
    ASSUME NEW k \in StoreKeys
    PROVE  /\ Visible[k] = Shown(keyRow[k], held[k], clock, k)
           /\ Visible'[k] = Shown(keyRow'[k], held'[k], clock', k)
           /\ k \in Orphaned <=> k \notin doomed /\ ~keyRow[k].stored /\ held[k] # {}
           /\ k \in Orphaned' <=> k \notin doomed' /\ ~keyRow'[k].stored /\ held'[k] # {}
  BY DEF Visible, Shown, Orphaned, Present, Expired

(* A key that is not orphaned and not expired shows what its rows hold. *)
LEMMA ShownWhole ==
    ASSUME StoreInv, Idle, NEW k \in StoreKeys, k \notin Orphaned, k \notin Expired
    PROVE  /\ k \in Scalars => Visible[k] = keyRow[k].value
           /\ k \notin Scalars => Visible[k] = held[k]
  BY DEF StoreInv, Idle, Visible, Orphaned, Present, Expired

(***************************************************************************)
(* A command that touches one key is done in the contract, if it is right  *)
(* where the key was not orphaned.                                         *)
(***************************************************************************)
LEMMA Performed ==
    ASSUME NEW k \in StoreKeys, NEW do, NEW after, NEW told, NEW answered,
           Idle, UNCHANGED <<clock, kills>>,
           \A j \in StoreKeys \ {k} : keyRow'[j] = keyRow[j] /\ held'[j] = held[j],
           reply' = [do |-> do, key |-> k, told |-> answered],
           k \notin Orphaned => Visible'[k] = after /\ answered = told,
           k \in Orphaned' => k \in Orphaned
    PROVE  Contract!Perform(do, k, after, told)
<1>1. \A j \in StoreKeys \ {k} : Visible'[j] = Visible[j] /\ (j \in Orphaned' => j \in Orphaned)
  BY ShownFacts DEF Idle
<1>2. Orphaned' \subseteq Orphaned
  BY <1>1 DEF Orphaned
<1>3. CASE k \in Orphaned
  BY <1>1, <1>2, <1>3 DEF Contract!Perform
<1>4. CASE k \notin Orphaned
  <2>1. Visible' = [Visible EXCEPT ![k] = after]
    BY <1>1, <1>4 DEF Visible
  <2> QED
    BY <1>2, <1>4, <2>1 DEF Contract!Perform
<1> QED
  BY <1>3, <1>4

(* Keys that are lost, and no other change, are a loss of the contract. *)
LEMMA Lost ==
    ASSUME UNCHANGED <<reply, kills>>,
           \A k \in StoreKeys : Visible'[k] \in {Visible[k], {}},
           \A k \in StoreKeys : k \in Orphaned' => k \in Orphaned
    PROVE  ContractStep
<1>1. Orphaned' \subseteq Orphaned
  BY DEF Orphaned
<1> QED
  BY <1>1 DEF ContractStep, Contract!Next, Contract!Lose

-----------------------------------------------------------------------------
(* The removals: of them the contract sees that keys are lost. *)
LEMMA CleanKeyStep ==
    ASSUME StoreInv, NEW k \in StoreKeys, CleanKey(k)
    PROVE  StoreInv' /\ ContractStep
<1>1. StoreInv'
  BY DEF StoreInv, CleanKey, Idle, Present, Expired
<1>2. \A j \in StoreKeys : Visible'[j] = Visible[j] /\ (j \in Orphaned' => j \in Orphaned)
  BY ShownFacts DEF CleanKey, Idle
<1> QED
  BY <1>1, <1>2, Lost DEF CleanKey

LEMMA RemoveRowStep ==
    ASSUME StoreInv, NEW k \in StoreKeys, RemoveRow(k)
    PROVE  StoreInv' /\ ContractStep
<1>1. keyRow'[k] = NoRow /\ \A j \in StoreKeys \ {k} : keyRow'[j] = keyRow[j]
  BY DEF StoreInv, RemoveRow
<1>2. StoreInv'
  <2>1. keyRow' \in [StoreKeys -> Row]
    BY RowFacts DEF StoreInv, RemoveRow
  <2> QED
    BY <1>1, <2>1 DEF StoreInv, RemoveRow, NoRow, Present
<1>3. \A j \in StoreKeys : Visible'[j] \in {Visible[j], {}} /\ (j \in Orphaned' => j \in Orphaned)
  BY <1>1, ShownFacts DEF RemoveRow, Shown, NoRow
<1> QED
  BY <1>2, <1>3, Lost DEF RemoveRow

LEMMA RemoveRestStep ==
    ASSUME StoreInv, RemoveRest
    PROVE  StoreInv' /\ ContractStep
<1>1. /\ halfway \in StoreKeys /\ halfway \in doomed /\ ~keyRow[halfway].stored
      /\ held'[halfway] = {} /\ \A j \in StoreKeys \ {halfway} : held'[j] = held[j]
  BY DEF StoreInv, RemoveRest, Present
<1>2. StoreInv'
  <2>1. held' \in [StoreKeys -> SUBSET Nat]
    BY <1>1 DEF StoreInv, RemoveRest
  <2> QED
    BY <1>1, <2>1 DEF StoreInv, RemoveRest, Present, Length
<1>3. \A j \in StoreKeys : Visible'[j] = Visible[j] /\ (j \in Orphaned' => j \in Orphaned)
  BY <1>1, ShownFacts DEF RemoveRest, Shown
<1> QED
  BY <1>2, <1>3, Lost DEF RemoveRest

(* The rows that are removed in one transaction. *)
LEMMA RemoveAllFacts ==
    ASSUME StoreInv, NEW ks \in SUBSET StoreKeys, RemoveAll(ks)
    PROVE  /\ StoreInv'
           /\ \A j \in StoreKeys :
                /\ j \in ks => Visible'[j] = {} /\ j \notin Orphaned'
                /\ j \notin ks => keyRow'[j] = keyRow[j] /\ held'[j] = held[j] /\ Visible'[j] = Visible[j]
                /\ j \in Orphaned' => j \in Orphaned
<1>1. \A j \in StoreKeys :
         /\ j \in ks => keyRow'[j] = NoRow /\ held'[j] = {}
         /\ j \notin ks => keyRow'[j] = keyRow[j] /\ held'[j] = held[j]
  BY DEF RemoveAll
<1>2. StoreInv'
  <2>1. keyRow' \in [StoreKeys -> Row] /\ held' \in [StoreKeys -> SUBSET Nat]
    BY <1>1, RowFacts DEF StoreInv, RemoveAll
  <2>2. clock' \in Nat /\ doomed' = {} /\ halfway' = NoKey
    BY DEF StoreInv, RemoveAll, Idle
  <2>3. \A j \in StoreKeys :
           /\ ~keyRow'[j].stored => keyRow'[j].value = {}
           /\ j \in Scalars => held'[j] = {}
           /\ StoreKind[j] = "list" => Length(held'[j])
    BY <1>1 DEF StoreInv, NoRow, Length
  <2> QED
    BY <2>1, <2>2, <2>3 DEF StoreInv, Scalars
<1> QED
  BY <1>1, <1>2, ShownFacts DEF RemoveAll, Shown, NoRow, Idle

LEMMA CleanupStep ==
    ASSUME StoreInv, StoreCleanup
    PROVE  StoreInv' /\ ContractStep
<1>1. Expired \in SUBSET StoreKeys
  BY DEF Expired, Present
<1>2. StoreInv' /\ \A j \in StoreKeys : Visible'[j] \in {Visible[j], {}} /\ (j \in Orphaned' => j \in Orphaned)
  BY <1>1, RemoveAllFacts DEF StoreCleanup
<1> QED
  BY <1>2, Lost DEF StoreCleanup, RemoveAll

LEMMA ClearStep ==
    ASSUME StoreInv, StoreClear
    PROVE  StoreInv' /\ ContractStep
<1>1. StoreInv' /\ \A j \in StoreKeys : Visible'[j] \in {Visible[j], {}} /\ (j \in Orphaned' => j \in Orphaned)
  BY RemoveAllFacts DEF StoreClear
<1> QED
  BY <1>1, Lost DEF StoreClear, RemoveAll

LEMMA DelStep ==
    ASSUME StoreInv, NEW k \in StoreKeys, StoreDel(k)
    PROVE  StoreInv' /\ ContractStep
<1>1. /\ StoreInv'
      /\ Visible'[k] = {} /\ k \notin Orphaned'
      /\ \A j \in StoreKeys \ {k} : keyRow'[j] = keyRow[j] /\ held'[j] = held[j]
  BY RemoveAllFacts DEF StoreDel
<1>2. Contract!Perform("del", k, {}, {})
  BY <1>1, Performed DEF StoreDel, RemoveAll, Answer
<1> QED
  BY <1>1, <1>2 DEF ContractStep, Contract!Next, Contract!Delete

(* Time passes, and the process dies. *)
LEMMA TickStep ==
    ASSUME StoreInv, StoreTick
    PROVE  StoreInv' /\ ContractStep
<1>1. StoreInv'
  BY DEF StoreInv, StoreTick, Present
<1>2. \A j \in StoreKeys : Visible'[j] \in {Visible[j], {}} /\ (j \in Orphaned' => j \in Orphaned)
  <2> SUFFICES ASSUME NEW j \in StoreKeys
               PROVE  Visible'[j] \in {Visible[j], {}} /\ (j \in Orphaned' => j \in Orphaned)
    OBVIOUS
  <2>1. keyRow[j].expires \in Nat
    BY DEF StoreInv, Row
  <2>2. clock' = clock + 1 /\ keyRow' = keyRow /\ held' = held /\ doomed' = doomed
    BY DEF StoreTick
  <2> QED
    BY <2>1, <2>2, ShownFacts DEF StoreInv, Shown
<1> QED
  BY <1>1, <1>2, Lost DEF StoreTick

LEMMA KilledStep ==
    ASSUME StoreInv, Killed
    PROVE  StoreInv' /\ ContractStep
<1>1. StoreInv'
  BY DEF StoreInv, Killed, Present
<1>2. Visible' = Visible
  BY DEF Killed, Visible, Present, Expired
<1>3. \A j \in StoreKeys \ {halfway} : j \in Orphaned' <=> j \in Orphaned
  BY ShownFacts DEF StoreInv, Killed, Present
<1>4. CASE halfway \in StoreKeys /\ halfway \in Orphaned'
  <2>1. halfway # NoKey /\ halfway \in doomed /\ ~keyRow[halfway].stored
    BY <1>4 DEF StoreInv, Present
  <2>2. Visible[halfway] = {}
    BY <1>4, <2>1, ShownFacts DEF Shown
  <2>3. Orphaned' = Orphaned \cup {halfway}
    BY <1>3, <1>4 DEF Orphaned
  <2> QED
    BY <1>1, <1>2, <1>4, <2>2, <2>3 DEF Killed, ContractStep, Contract!Next, Contract!Die
<1>5. CASE ~(halfway \in StoreKeys /\ halfway \in Orphaned')
  <2>1. halfway \in StoreKeys => halfway \notin Orphaned
    BY ShownFacts DEF StoreInv, Orphaned
  <2>2. Orphaned' = Orphaned
    BY <1>3, <1>5, <2>1 DEF Orphaned
  <2> QED
    BY <1>1, <1>2, <2>2 DEF Killed, ContractStep, Contract!Next, Contract!Die
<1> QED
  BY <1>4, <1>5

-----------------------------------------------------------------------------
(* The commands: what they write to one key keeps the invariant. *)
LEMMA Written ==
    ASSUME StoreInv, Idle, NEW k \in StoreKeys, NEW row \in Row, NEW content \in SUBSET Nat,
           ~row.stored => row.value = {},
           k \in Scalars => content = {},
           StoreKind[k] = "list" => Length(content),
           clock' = clock, halfway' = halfway,
           keyRow' = [keyRow EXCEPT ![k] = row],
           held' = [held EXCEPT ![k] = content],
           doomed' \subseteq {j \in StoreKeys : keyRow'[j].stored}
    PROVE  /\ StoreInv'
           /\ keyRow'[k] = row /\ held'[k] = content
           /\ \A j \in StoreKeys \ {k} : keyRow'[j] = keyRow[j] /\ held'[j] = held[j]
<1>1. /\ keyRow' \in [StoreKeys -> Row] /\ held' \in [StoreKeys -> SUBSET Nat]
      /\ keyRow'[k] = row /\ held'[k] = content
      /\ \A j \in StoreKeys \ {k} : keyRow'[j] = keyRow[j] /\ held'[j] = held[j]
  BY DEF StoreInv
<1>2. halfway' = NoKey
  BY DEF StoreInv, Idle
<1>3. \A j \in StoreKeys :
         /\ ~keyRow'[j].stored => keyRow'[j].value = {}
         /\ j \in Scalars => held'[j] = {}
         /\ StoreKind[j] = "list" => Length(held'[j])
  BY <1>1 DEF StoreInv
<1> QED
  BY <1>1, <1>2, <1>3 DEF StoreInv, Scalars, Present

(* Whatever is pruned after a write has a row. *)
LEMMA WriteFacts ==
    ASSUME NEW k \in StoreKeys, NEW row, NEW content, Write(k, row, content)
    PROVE  /\ Idle /\ UNCHANGED <<clock, halfway, kills>>
           /\ keyRow' = [keyRow EXCEPT ![k] = row] /\ held' = [held EXCEPT ![k] = content]
           /\ doomed' \subseteq {j \in StoreKeys : keyRow'[j].stored}
  BY DEF Write, Excess

(* A collection is no scalar. *)
LEMMA KindFacts ==
    ASSUME NEW k \in StoreKeys
    PROVE  k \in Scalars <=> StoreKind[k] \in {"string", "counter"}
  BY DEF Scalars

LEMMA ReadStep ==
    ASSUME StoreInv, NEW k \in StoreKeys, StoreRead(k)
    PROVE  StoreInv' /\ ContractStep
<1>1. /\ StoreInv'
      /\ keyRow'[k] = Touched(k) /\ held'[k] = held[k]
      /\ \A j \in StoreKeys \ {k} : keyRow'[j] = keyRow[j] /\ held'[j] = held[j]
  BY Written, RowFacts, KindFacts DEF StoreInv, StoreRead, Idle
<1>2. Visible'[k] = Visible[k] /\ (k \in Orphaned' => k \in Orphaned)
  BY <1>1, ShownFacts, RowFacts DEF StoreRead, Shown
<1>3. Contract!Perform("read", k, Visible[k], Visible[k])
  BY <1>1, <1>2, Performed, ShownWhole DEF StoreRead, Answer
<1> QED
  BY <1>1, <1>3 DEF ContractStep, Contract!Next, Contract!Read

LEMMA SetStep ==
    ASSUME StoreInv, NEW k \in StoreKeys, NEW v \in Items, NEW ttl \in 0..1, StoreSet(k, v, ttl)
    PROVE  StoreInv' /\ ContractStep
<1> DEFINE row == [stored |-> TRUE, value |-> {v}, expires |-> Until(ttl), accessed |-> clock]
<1>1. row \in Row /\ row.stored /\ row.value = {v} /\ row.expires = Until(ttl)
  BY UntilFacts DEF StoreInv, Row
<1>2. Write(k, row, held[k]) /\ StoreKind[k] = "string"
  BY DEF StoreSet
<1> HIDE DEF row
<1>3. /\ StoreInv'
      /\ keyRow'[k] = row
      /\ \A j \in StoreKeys \ {k} : keyRow'[j] = keyRow[j] /\ held'[j] = held[j]
  BY <1>1, <1>2, WriteFacts, Written, KindFacts DEF StoreInv
<1>4. Visible'[k] = {v} /\ k \notin Orphaned'
  BY <1>1, <1>2, <1>3, ShownFacts, WriteFacts, UntilFacts, KindFacts DEF StoreInv, Shown
<1>5. Contract!Perform("set", k, {v}, {})
  BY <1>2, <1>3, <1>4, Performed, WriteFacts DEF StoreSet, Answer
<1> QED
  BY <1>2, <1>3, <1>4, <1>5 DEF ContractStep, Contract!Next, Contract!Overwrite

(* A key that has not expired does not by a write that keeps its life. *)
LEMMA UpsertShows ==
    ASSUME StoreInv, NEW k \in StoreKeys, k \notin Expired, NEW v \in SUBSET Nat, NEW content \in SUBSET Nat,
           Write(k, Upserted(k, v), content),
           k \in Scalars => content = {},
           StoreKind[k] = "list" => Length(content)
    PROVE  /\ StoreInv'
           /\ \A j \in StoreKeys \ {k} : keyRow'[j] = keyRow[j] /\ held'[j] = held[j]
           /\ Visible'[k] = IF k \in Scalars THEN v ELSE content
           /\ k \notin Orphaned'
<1>1. /\ StoreInv' /\ clock' = clock
      /\ keyRow'[k] = Upserted(k, v) /\ held'[k] = content
      /\ \A j \in StoreKeys \ {k} : keyRow'[j] = keyRow[j] /\ held'[j] = held[j]
  BY WriteFacts, Written, RowFacts DEF StoreInv
<1>2. Upserted(k, v).stored /\ Upserted(k, v).value = v
  BY RowFacts
<1>3. ~(Upserted(k, v).expires # 0 /\ clock > Upserted(k, v).expires)
  BY RowFacts DEF Expired, Present
<1>4. Visible'[k] = Shown(Upserted(k, v), content, clock, k)
  BY <1>1, ShownFacts
<1>5. Shown(Upserted(k, v), content, clock, k) = IF k \in Scalars THEN v ELSE content
  BY <1>2, <1>3 DEF Shown
<1>6. k \notin Orphaned'
  BY <1>1, <1>2, ShownFacts
<1> QED
  BY <1>1, <1>4, <1>5, <1>6

LEMMA IncrStep ==
    ASSUME StoreInv, NEW k \in StoreKeys, StoreIncr(k)
    PROVE  StoreInv' /\ ContractStep
<1> DEFINE after == OneMore(keyRow[k].value)
<1>1. /\ StoreKind[k] = "counter" /\ k \notin Expired /\ k \in Scalars /\ held[k] = {}
      /\ keyRow[k].value \in SUBSET Nat /\ after \in SUBSET Nat
      /\ k \notin Orphaned
  BY OneMoreFacts, KindFacts, ShownFacts DEF StoreIncr, StoreInv, Row
<1>2. Write(k, Upserted(k, after), held[k]) /\ reply' = [do |-> "count", key |-> k, told |-> after]
  BY DEF StoreIncr, Answer
<1>3. after = Contract!OneMore(Visible[k])
  BY <1>1, <1>2, OneMoreFacts, ShownWhole, WriteFacts
<1> HIDE DEF after
<1>4. /\ StoreInv' /\ Visible'[k] = after /\ k \notin Orphaned'
      /\ \A j \in StoreKeys \ {k} : keyRow'[j] = keyRow[j] /\ held'[j] = held[j]
  BY <1>1, <1>2, UpsertShows, KindFacts
<1>5. Contract!Perform("count", k, Contract!OneMore(Visible[k]), Contract!OneMore(Visible[k]))
  BY <1>2, <1>3, <1>4, Performed, WriteFacts
<1> QED
  BY <1>1, <1>4, <1>5 DEF ContractStep, Contract!Next, Contract!Count

LEMMA CountStep ==
    ASSUME StoreInv, NEW k \in StoreKeys, StoreCount(k)
    PROVE  StoreInv' /\ ContractStep
<1> DEFINE after == OneMore(held[k])
<1>1. /\ StoreKind[k] \in {"hash", "list"} /\ k \notin Expired /\ k \notin Scalars
      /\ held[k] \in SUBSET Nat /\ after \in SUBSET Nat
      /\ StoreKind[k] = "list" => Length(after)
  BY OneMoreFacts, KindFacts DEF StoreCount, StoreInv
<1>2. Write(k, Upserted(k, {}), after) /\ reply' = [do |-> "count", key |-> k, told |-> after]
  BY DEF StoreCount, Answer
<1>3. k \notin Orphaned => after = Contract!OneMore(Visible[k])
  BY <1>1, <1>2, OneMoreFacts, ShownWhole, WriteFacts
<1> HIDE DEF after
<1>4. /\ StoreInv' /\ Visible'[k] = after /\ k \notin Orphaned'
      /\ \A j \in StoreKeys \ {k} : keyRow'[j] = keyRow[j] /\ held'[j] = held[j]
  BY <1>1, <1>2, UpsertShows
<1>5. Contract!Perform("count", k, Contract!OneMore(Visible[k]), Contract!OneMore(Visible[k]))
  BY <1>2, <1>3, <1>4, Performed, WriteFacts
<1> QED
  BY <1>1, <1>4, <1>5 DEF ContractStep, Contract!Next, Contract!Count

LEMMA SaddStep ==
    ASSUME StoreInv, NEW k \in StoreKeys, NEW i \in Items, StoreSadd(k, i)
    PROVE  StoreInv' /\ ContractStep
<1> DEFINE after == held[k] \cup {i}
<1>1. /\ StoreKind[k] = "set" /\ k \notin Expired /\ k \notin Scalars
      /\ after \in SUBSET Nat
  BY KindFacts DEF StoreSadd, StoreInv
<1>2. Write(k, Upserted(k, {}), after) /\ reply' = [do |-> "add", key |-> k, told |-> {i} \ held[k]]
  BY DEF StoreSadd, Answer
<1>3. k \notin Orphaned => held[k] = Visible[k]
  BY <1>1, <1>2, ShownWhole, WriteFacts
<1>4. /\ StoreInv' /\ Visible'[k] = after /\ k \notin Orphaned'
      /\ \A j \in StoreKeys \ {k} : keyRow'[j] = keyRow[j] /\ held'[j] = held[j]
  BY <1>1, <1>2, UpsertShows
<1>5. Contract!Perform("add", k, Visible[k] \cup {i}, {i} \ Visible[k])
  <2>1. k \notin Orphaned => Visible'[k] = Visible[k] \cup {i} /\ {i} \ held[k] = {i} \ Visible[k]
    BY <1>3, <1>4
  <2> HIDE DEF after
  <2> QED
    BY <1>2, <1>4, <2>1, Performed, WriteFacts
<1>6. i \in Visible'[k]
  BY <1>4
<1> QED
  BY <1>1, <1>4, <1>5, <1>6 DEF ContractStep, Contract!Next, Contract!Include

LEMMA ExpireStep ==
    ASSUME StoreInv, NEW k \in StoreKeys, NEW ttl \in 0..1, StoreExpire(k, ttl)
    PROVE  StoreInv' /\ ContractStep
<1> DEFINE row == IF k \in Present THEN [Touched(k) EXCEPT !.expires = Until(ttl)] ELSE NoRow
<1>1. /\ row \in Row /\ row.stored = keyRow[k].stored /\ row.value = keyRow[k].value
      /\ row.stored => row.expires = Until(ttl)
  <2>1. CASE k \in Present
    <3>1. Touched(k) \in Row /\ Until(ttl) \in Nat
      BY UntilFacts, RowFacts DEF StoreInv
    <3>2. row = [Touched(k) EXCEPT !.expires = Until(ttl)]
      BY <2>1
    <3>3. row \in Row /\ row.stored = Touched(k).stored /\ row.value = Touched(k).value
          /\ row.expires = Until(ttl)
      BY <3>1, <3>2 DEF Row
    <3> QED
      BY <3>3, RowFacts
  <2>2. CASE k \notin Present
    <3>1. keyRow[k].stored = FALSE /\ row = NoRow
      BY <2>2 DEF StoreInv, Row, Present
    <3>2. NoRow \in Row /\ NoRow.stored = FALSE /\ NoRow.value = {} /\ keyRow[k].value = {}
      BY <3>1 DEF StoreInv, NoRow, Row
    <3> HIDE DEF row
    <3> QED
      BY <3>1, <3>2
  <2> QED
    BY <2>1, <2>2
<1>2. /\ Idle /\ k \notin Expired /\ keyRow' = [keyRow EXCEPT ![k] = row]
      /\ UNCHANGED <<clock, held, doomed, halfway, kills>>
      /\ reply' = [do |-> "expire", key |-> k, told |-> {}]
  BY DEF StoreExpire, Answer
<1> HIDE DEF row
<1>3. /\ StoreInv'
      /\ keyRow'[k] = row /\ held'[k] = held[k]
      /\ \A j \in StoreKeys \ {k} : keyRow'[j] = keyRow[j] /\ held'[j] = held[j]
  BY <1>1, <1>2, Written DEF StoreInv, Idle
<1>4. Visible'[k] = Visible[k] /\ (k \in Orphaned' => k \in Orphaned)
  BY <1>1, <1>2, <1>3, ShownFacts, UntilFacts DEF StoreInv, Shown, Expired, Present
<1>5. Contract!Perform("expire", k, Visible[k], {})
  BY <1>2, <1>3, <1>4, Performed
<1> QED
  BY <1>3, <1>5 DEF ContractStep, Contract!Next, Contract!Expire

LEMMA LtrimStep ==
    ASSUME StoreInv, NEW k \in StoreKeys, NEW n \in Nat \ {0}, StoreLtrim(k, n)
    PROVE  StoreInv' /\ ContractStep
<1> DEFINE after == {IF m < n THEN m ELSE n : m \in held[k]}
<1>1. /\ StoreKind[k] = "list" /\ k \notin Expired /\ Idle /\ k \notin Scalars
      /\ keyRow' = [keyRow EXCEPT ![k] = Touched(k)] /\ held' = [held EXCEPT ![k] = after]
      /\ UNCHANGED <<clock, doomed, halfway, kills>>
      /\ reply' = [do |-> "trim", key |-> k, told |-> {}]
  BY KindFacts DEF StoreLtrim, Answer, StoreInv
<1>2. /\ after \in SUBSET Nat /\ Length(after)
      /\ held[k] = {} => after = {}
      /\ held[k] # {} => \E m \in after : after = {m} /\ \A l \in held[k] : m \in 1..l
  <2>1. Length(held[k])
    BY <1>1 DEF StoreInv
  <2>2. CASE held[k] = {}
    BY <2>2 DEF Length
  <2>3. ASSUME NEW l \in Nat \ {0}, held[k] = {l}
        PROVE  <1>2!1 /\ <1>2!2 /\ <1>2!3
    <3>1. after = {IF l < n THEN l ELSE n}
      BY <2>3
    <3> QED
      BY <2>3, <3>1 DEF Length
  <2> QED
    BY <2>1, <2>2, <2>3 DEF Length
<1> HIDE DEF after
<1>3. /\ StoreInv'
      /\ keyRow'[k] = Touched(k) /\ held'[k] = after
      /\ \A j \in StoreKeys \ {k} : keyRow'[j] = keyRow[j] /\ held'[j] = held[j]
  BY <1>1, <1>2, Written, RowFacts DEF StoreInv, Idle
<1>4. /\ k \notin Orphaned => Visible[k] = held[k] /\ Visible'[k] = after
      /\ k \in Orphaned => Visible[k] = {}
      /\ k \in Orphaned' => k \in Orphaned
  <2>1. k \in Orphaned => Visible[k] = {}
    BY ShownFacts DEF Shown
  <2>2. k \notin Orphaned => Visible[k] = held[k]
    BY <1>1, ShownWhole
  <2>3. /\ Touched(k).stored = keyRow[k].stored
        /\ Touched(k).stored => Touched(k).expires = keyRow[k].expires
    BY RowFacts
  <2>4. k \in Orphaned' => k \in Orphaned
    BY <1>1, <1>2, <1>3, <2>3, ShownFacts
  <2>5. ASSUME k \notin Orphaned PROVE Visible'[k] = after
    <3>1. keyRow[k].stored => ~(keyRow[k].expires # 0 /\ clock > keyRow[k].expires)
      BY <1>1 DEF Expired, Present
    <3>2. ~keyRow[k].stored => held[k] = {}
      BY <1>1, <2>5, ShownFacts DEF Idle
    <3>3. Visible'[k] = Shown(Touched(k), after, clock, k)
      BY <1>1, <1>3, ShownFacts
    <3>4. CASE keyRow[k].stored
      BY <1>1, <2>3, <3>1, <3>3, <3>4 DEF Shown
    <3>5. CASE ~keyRow[k].stored
      BY <1>2, <2>3, <3>2, <3>3, <3>5 DEF Shown
    <3> QED
      BY <3>4, <3>5
  <2> QED
    BY <2>1, <2>2, <2>4, <2>5
<1>5. CASE k \in Orphaned \/ held[k] = {}
  <2>1. Contract!Perform("trim", k, {}, {})
    BY <1>1, <1>2, <1>3, <1>4, <1>5, Performed
  <2> QED
    BY <1>1, <1>3, <1>4, <1>5, <2>1 DEF ContractStep, Contract!Next, Contract!Cut
<1>6. CASE k \notin Orphaned /\ held[k] # {}
  <2>1. PICK m \in after : after = {m} /\ \A l \in held[k] : m \in 1..l
    BY <1>2, <1>6
  <2>2. Contract!Perform("trim", k, {m}, {})
    BY <1>1, <1>3, <1>4, <1>6, <2>1, Performed
  <2> QED
    BY <1>1, <1>3, <1>4, <1>6, <2>1, <2>2 DEF ContractStep, Contract!Next, Contract!Cut
<1> QED
  BY <1>5, <1>6

-----------------------------------------------------------------------------
(* Every step keeps the invariant and is one of the contract. *)
LEMMA EveryStep ==
    ASSUME StoreInv, [SqliteNext]_storeVars
    PROVE  StoreInv' /\ ContractStep
<1>1. ASSUME NEW k \in StoreKeys, KeyCommand(k) \/ RemoveRow(k)
      PROVE  StoreInv' /\ ContractStep
  <2>1. 1 \in Nat \ {0} /\ 1 \in 0..1
    OBVIOUS
  <2> QED
    BY <1>1, <2>1, CleanKeyStep, RemoveRowStep, ReadStep, IncrStep, CountStep, DelStep, SetStep,
       ExpireStep, SaddStep, LtrimStep DEF KeyCommand
<1>2. CASE UNCHANGED storeVars
  <2>1. StoreInv'
    BY <1>2 DEF storeVars, StoreInv, Present
  <2> QED
    BY <1>2, <2>1 DEF storeVars, ContractStep, Visible, Orphaned, Present, Expired
<1> QED
  BY <1>1, <1>2, RemoveRestStep, CleanupStep, ClearStep, TickStep, KilledStep DEF SqliteNext

LEMMA FirstStore == SqliteInit => StoreInv /\ Contract!Init
<1> SUFFICES ASSUME SqliteInit PROVE StoreInv /\ Contract!Init
  OBVIOUS
<1>1. NoRow \in Row /\ NoRow.stored = FALSE /\ NoRow.value = {}
  BY DEF NoRow, Row
<1>2. StoreInv
  <2>1. /\ keyRow \in [StoreKeys -> Row] /\ held \in [StoreKeys -> SUBSET Nat]
        /\ \A k \in StoreKeys : keyRow[k].stored = FALSE /\ keyRow[k].value = {} /\ held[k] = {}
    BY <1>1 DEF SqliteInit
  <2>2. clock = 0 /\ doomed = {} /\ halfway = NoKey
    BY DEF SqliteInit
  <2> QED
    BY <2>1, <2>2 DEF StoreInv, Scalars, Present, Length
<1>3. \A k \in StoreKeys : Visible[k] = {} /\ k \notin Orphaned
  BY <1>1, ShownFacts DEF SqliteInit, Shown
<1>4. Visible = [k \in StoreKeys |-> {}] /\ Orphaned = {}
  BY <1>3 DEF Visible, Orphaned
<1> QED
  BY <1>2, <1>4 DEF SqliteInit, Contract!Init

(***************************************************************************)
(* The store never brings back what a key held before it was lost: with    *)
(* its removals in two statements and deaths in between, it implements the *)
(* contract of KeyStore, which knows of no statement.                      *)
(***************************************************************************)
THEOREM StoreKeepsContract == SqliteSpec => KeepsContract
<1>1. SqliteInit => StoreInv /\ Contract!Init
  BY FirstStore
<1>2. StoreInv /\ [SqliteNext]_storeVars => StoreInv' /\ [Contract!Next]_<<Visible, Orphaned, reply, kills>>
  BY EveryStep DEF ContractStep
<1> QED
  BY <1>1, <1>2, PTL DEF SqliteSpec, KeepsContract, Contract!Spec

-----------------------------------------------------------------------------
(***************************************************************************)
(* How many rows the store holds: no more than the limit and what deaths   *)
(* left, and one more while a command has rows to prune.                   *)
(***************************************************************************)
RowsBound ==
    /\ Cardinality(Present \ doomed) <= MaxStored + kills
    /\ Cardinality(Present) <= MaxStored + kills + 1

(* What StoreInv leaves out of the types. *)
StoreRest ==
    /\ clock <= MaxClock
    /\ \A k \in StoreKeys : ~keyRow[k].stored => keyRow[k] = NoRow
    /\ reply \in {NoReply} \cup Reply
    /\ kills \in 0..MaxKills

StoreTypes == StoreInv /\ StoreRest /\ RowsBound

(* The sizes of sets of keys. *)
LEMMA FiniteKeys ==
    /\ \A X \in SUBSET StoreKeys : IsFiniteSet(X) /\ Cardinality(X) \in Nat
    /\ \A X, Y \in SUBSET StoreKeys : X \subseteq Y => Cardinality(X) <= Cardinality(Y)
    /\ \A X \in SUBSET StoreKeys, k \in StoreKeys : Cardinality(X \cup {k}) <= Cardinality(X) + 1
    /\ \A X, Y \in SUBSET StoreKeys :
          Y \subseteq X => Cardinality(X \ Y) = Cardinality(X) - Cardinality(Y)
<1>1. \A X \in SUBSET StoreKeys : IsFiniteSet(X) /\ Cardinality(X) \in Nat
  BY FS_Subset, FS_CardinalityType
<1>2. \A X, Y \in SUBSET StoreKeys : X \subseteq Y => Cardinality(X) <= Cardinality(Y)
  BY <1>1, FS_Subset
<1>3. \A X \in SUBSET StoreKeys, k \in StoreKeys : Cardinality(X \cup {k}) <= Cardinality(X) + 1
  <2> SUFFICES ASSUME NEW X \in SUBSET StoreKeys, NEW k \in StoreKeys
               PROVE  Cardinality(X \cup {k}) <= Cardinality(X) + 1
    OBVIOUS
  <2>1. Cardinality(X \cup {k}) = IF k \in X THEN Cardinality(X) ELSE Cardinality(X) + 1
    BY <1>1, FS_AddElement
  <2> QED
    BY <1>1, <2>1
<1>4. ASSUME NEW X \in SUBSET StoreKeys, NEW Y \in SUBSET StoreKeys, Y \subseteq X
      PROVE  Cardinality(X \ Y) = Cardinality(X) - Cardinality(Y)
  <2>1. X \cap Y = Y
    BY <1>4
  <2> QED
    BY <1>1, <2>1, FS_Difference
<1> QED
  BY <1>1, <1>2, <1>3, <1>4

(* Steps that bring no row, and leave none to prune that was. *)
LEMMA NoMoreRows ==
    ASSUME StoreTypes, kills' = kills, Present' \subseteq Present, Present' \ doomed' \subseteq Present \ doomed
    PROVE  RowsBound'
<1>1. /\ Present \in SUBSET StoreKeys /\ Present' \in SUBSET StoreKeys
      /\ Present \ doomed \in SUBSET StoreKeys /\ (Present \ doomed)' \in SUBSET StoreKeys
  BY DEF Present
<1>2. /\ Cardinality(Present') <= Cardinality(Present)
      /\ Cardinality((Present \ doomed)') <= Cardinality(Present \ doomed)
  BY <1>1, FiniteKeys
<1>3. /\ Cardinality(Present') \in Nat /\ Cardinality(Present) \in Nat
      /\ Cardinality((Present \ doomed)') \in Nat /\ Cardinality(Present \ doomed) \in Nat
      /\ kills \in Nat
  BY <1>1, FiniteKeys DEF StoreTypes, StoreRest
<1> QED
  BY <1>2, <1>3 DEF StoreTypes, RowsBound

(* A write brings a row at most, and the rows beyond the limit are to go. *)
LEMMA WriteBound ==
    ASSUME StoreTypes, NEW k \in StoreKeys, NEW row, NEW content, Write(k, row, content)
    PROVE  RowsBound'
<1>1. /\ doomed = {} /\ doomed' \in Excess(keyRow') /\ kills' = kills
      /\ keyRow' = [keyRow EXCEPT ![k] = row]
  BY DEF Write, Idle
<1>2. Present' \in SUBSET StoreKeys /\ Present \in SUBSET StoreKeys /\ Present' \subseteq Present \cup {k}
  BY <1>1 DEF Present, StoreTypes, StoreInv
<1>3. Cardinality(Present) <= MaxStored + kills /\ kills \in Nat
  BY <1>1 DEF StoreTypes, RowsBound, StoreRest
<1>4. Cardinality(Present') <= Cardinality(Present) + 1
  <2>1. Cardinality(Present') <= Cardinality(Present \cup {k}) /\ Cardinality(Present \cup {k}) \in Nat
    BY <1>2, FiniteKeys
  <2>2. Cardinality(Present \cup {k}) <= Cardinality(Present) + 1
    BY <1>2, FiniteKeys
  <2> QED
    BY <1>2, <2>1, <2>2, FiniteKeys
<1>5. /\ doomed' \in SUBSET Present'
      /\ IF Cardinality(Present') <= MaxStored THEN doomed' = {}
           ELSE Cardinality(doomed') = Cardinality(Present') - MaxStored
  BY <1>1 DEF Excess, Present
<1>6. Cardinality(Present' \ doomed') <= MaxStored
  <2>1. CASE Cardinality(Present') <= MaxStored
    <3>1. Present' \ doomed' = Present'
      BY <1>5, <2>1
    <3> QED
      BY <2>1, <3>1
  <2>2. CASE ~(Cardinality(Present') <= MaxStored)
    <3>1. Cardinality(Present' \ doomed') = Cardinality(Present') - Cardinality(doomed')
      BY <1>2, <1>5, FiniteKeys
    <3>2. Cardinality(doomed') = Cardinality(Present') - MaxStored
      BY <1>5, <2>2
    <3>3. Cardinality(Present') \in Nat
      BY <1>2, FiniteKeys
    <3> QED
      BY <3>1, <3>2, <3>3
  <2> QED
    BY <2>1, <2>2
<1>7. Cardinality(Present') \in Nat /\ Cardinality(Present) \in Nat /\ Cardinality(Present' \ doomed') \in Nat
  BY <1>2, FiniteKeys
<1> QED
  BY <1>1, <1>3, <1>4, <1>6, <1>7 DEF RowsBound

(* A death forgets what was to be removed, one row at most. *)
LEMMA KilledBound ==
    ASSUME StoreTypes, Killed
    PROVE  RowsBound'
<1>1. Present' = Present /\ doomed' = {} /\ kills' = kills + 1 /\ kills \in Nat
  BY DEF Killed, Present, StoreTypes, StoreRest
<1>2. Present' \ doomed' = Present
  BY <1>1
<1>3. Cardinality(Present) \in Nat
  BY FiniteKeys DEF Present
<1> QED
  BY <1>1, <1>2, <1>3 DEF StoreTypes, RowsBound

(* Every step keeps the bound. *)
LEMMA RowsBoundKept ==
    ASSUME StoreTypes, [SqliteNext]_storeVars
    PROVE  RowsBound'
<1>1. ASSUME NEW k \in StoreKeys, KeyCommand(k)
      PROVE  RowsBound'
  <2>1. CASE CleanKey(k)
    <3>1. kills' = kills /\ keyRow' = keyRow /\ doomed = {}
      BY <2>1 DEF CleanKey, Idle
    <3> QED
      BY <3>1, NoMoreRows DEF Present
  <2>2. CASE StoreRead(k) \/ StoreExpire(k, 1) \/ StoreLtrim(k, 1)
    <3>1. kills' = kills /\ doomed' = doomed
      BY <2>2 DEF StoreRead, StoreExpire, StoreLtrim
    <3>2. PICK row : keyRow' = [keyRow EXCEPT ![k] = row] /\ row.stored = keyRow[k].stored
      <4>1. StoreInv /\ Touched(k).stored = keyRow[k].stored /\ Touched(k) \in Row
        BY RowFacts DEF StoreTypes
      <4>2. CASE StoreRead(k) \/ StoreLtrim(k, 1)
        <5>1. keyRow' = [keyRow EXCEPT ![k] = Touched(k)]
          BY <4>2 DEF StoreRead, StoreLtrim
        <5> QED
          BY <4>1, <5>1
      <4>3. CASE StoreExpire(k, 1)
        <5>1. keyRow' = [keyRow EXCEPT ![k] = IF k \in Present
                           THEN [Touched(k) EXCEPT !.expires = Until(1)] ELSE NoRow]
          BY <4>3 DEF StoreExpire
        <5>2. [Touched(k) EXCEPT !.expires = Until(1)].stored = keyRow[k].stored
          BY <4>1 DEF Row
        <5>3. k \notin Present => NoRow.stored = keyRow[k].stored
          BY <4>1 DEF Present, NoRow, StoreInv, Row
        <5> QED
          BY <5>1, <5>2, <5>3
      <4> QED
        BY <2>2, <4>2, <4>3
    <3>3. \A j \in StoreKeys : keyRow'[j].stored = keyRow[j].stored
      BY <3>2 DEF StoreTypes, StoreInv
    <3> QED
      BY <3>1, <3>3, NoMoreRows DEF Present
  <2>3. CASE StoreDel(k)
    <3>1. /\ kills' = kills /\ doomed' = doomed
          /\ keyRow' = [j \in StoreKeys |-> IF j \in {k} THEN NoRow ELSE keyRow[j]]
      BY <2>3 DEF StoreDel, RemoveAll
    <3> QED
      BY <3>1, NoMoreRows DEF Present, NoRow
  <2>4. CASE StoreIncr(k) \/ StoreCount(k) \/ \E v \in Items, ttl \in 0..1 : StoreSet(k, v, ttl)
    BY <2>4, WriteBound DEF StoreIncr, StoreCount, StoreSet
  <2>5. CASE \E i \in Items : StoreSadd(k, i)
    BY <2>5, WriteBound DEF StoreSadd
  <2> QED
    BY <1>1, <2>1, <2>2, <2>3, <2>4, <2>5 DEF KeyCommand
<1>2. ASSUME NEW k \in StoreKeys, RemoveRow(k)
      PROVE  RowsBound'
  <2>1. /\ kills' = kills /\ doomed' = doomed /\ keyRow' = [keyRow EXCEPT ![k] = NoRow]
        /\ keyRow \in [StoreKeys -> Row]
    BY <1>2 DEF RemoveRow, StoreTypes, StoreInv
  <2> QED
    BY <2>1, NoMoreRows DEF Present, NoRow
<1>3. CASE RemoveRest
  <2>1. kills' = kills /\ keyRow' = keyRow /\ doomed' = doomed \ {halfway} /\ halfway \notin Present
    BY <1>3 DEF RemoveRest, StoreTypes, StoreInv
  <2> QED
    BY <2>1, NoMoreRows DEF Present
<1>4. ASSUME NEW ks, RemoveAll(ks)
      PROVE  RowsBound'
  <2>1. /\ kills' = kills /\ doomed' = doomed
        /\ keyRow' = [j \in StoreKeys |-> IF j \in ks THEN NoRow ELSE keyRow[j]]
    BY <1>4 DEF RemoveAll
  <2> QED
    BY <2>1, NoMoreRows DEF Present, NoRow
<1>5. CASE StoreTick \/ UNCHANGED storeVars
  <2>1. kills' = kills /\ keyRow' = keyRow /\ doomed' = doomed
    BY <1>5 DEF StoreTick, storeVars
  <2> QED
    BY <2>1, NoMoreRows DEF Present
<1> QED
  BY <1>1, <1>2, <1>3, <1>4, <1>5, KilledBound DEF SqliteNext, StoreCleanup, StoreClear

(* What a command answers is a reply. *)
LEMMA Answers ==
    ASSUME NEW k \in StoreKeys, NEW told \in SUBSET Nat,
           NEW do \in {"read", "set", "count", "add", "trim", "expire", "del"}, Answer(do, k, told)
    PROVE  reply' \in Reply
  BY DEF Answer, Reply

LEMMA StoreRestKept ==
    ASSUME StoreTypes, [SqliteNext]_storeVars
    PROVE  StoreRest'
<1>1. StoreInv /\ StoreRest
  BY DEF StoreTypes
<1>2. ASSUME NEW k \in StoreKeys, NEW row, NEW content, Write(k, row, content), row.stored
      PROVE  /\ clock' = clock /\ kills' = kills
             /\ \A j \in StoreKeys : ~keyRow'[j].stored => keyRow'[j] = NoRow
  <2>1. keyRow' = [keyRow EXCEPT ![k] = row] /\ keyRow \in [StoreKeys -> Row]
    BY <1>1, <1>2 DEF Write, StoreInv
  <2> QED
    BY <1>1, <1>2, <2>1 DEF Write, StoreRest
<1>3. ASSUME NEW ks, RemoveAll(ks)
      PROVE  /\ clock' = clock /\ kills' = kills
             /\ \A j \in StoreKeys : ~keyRow'[j].stored => keyRow'[j] = NoRow
  BY <1>1, <1>3 DEF RemoveAll, StoreRest
<1>4. ASSUME NEW k \in StoreKeys, KeyCommand(k)
      PROVE  StoreRest'
  <2>1. CASE CleanKey(k)
    BY <1>1, <2>1 DEF CleanKey, StoreRest
  <2>2. CASE StoreRead(k) \/ StoreExpire(k, 1) \/ StoreLtrim(k, 1)
    <3>1. \A j \in StoreKeys : ~keyRow'[j].stored => keyRow'[j] = NoRow
      <4>1. Touched(k).stored = keyRow[k].stored /\ (k \notin Present => Touched(k) = NoRow)
        BY <1>1, RowFacts DEF Touched
      <4>2. keyRow \in [StoreKeys -> Row] /\ \A j \in StoreKeys : ~keyRow[j].stored => keyRow[j] = NoRow
        BY <1>1 DEF StoreInv, StoreRest
      <4>3. PICK row : keyRow' = [keyRow EXCEPT ![k] = row] /\ (~row.stored => row = NoRow)
        <5>1. CASE StoreRead(k) \/ StoreLtrim(k, 1)
          <6>1. keyRow' = [keyRow EXCEPT ![k] = Touched(k)]
            BY <5>1 DEF StoreRead, StoreLtrim
          <6> QED
            BY <4>1, <6>1 DEF Present
        <5>2. CASE StoreExpire(k, 1)
          <6>1. keyRow' = [keyRow EXCEPT ![k] = IF k \in Present
                             THEN [Touched(k) EXCEPT !.expires = Until(1)] ELSE NoRow]
            BY <5>2 DEF StoreExpire
          <6>2. k \in Present => [Touched(k) EXCEPT !.expires = Until(1)].stored
            BY <4>1, RowFacts, <1>1 DEF Present, Row
          <6> QED
            BY <6>1, <6>2
        <5> QED
          BY <2>2, <5>1, <5>2
      <4> QED
        BY <4>2, <4>3
    <3>2. clock' = clock /\ kills' = kills
      BY <2>2 DEF StoreRead, StoreExpire, StoreLtrim
    <3>3. reply' \in Reply
      <4>1. (IF k \in Scalars THEN keyRow[k].value ELSE held[k]) \in SUBSET Nat
        BY <1>1 DEF StoreInv, Row
      <4> QED
        BY <2>2, <4>1, Answers DEF StoreRead, StoreExpire, StoreLtrim
    <3> QED
      BY <1>1, <3>1, <3>2, <3>3 DEF StoreRest
  <2>3. CASE StoreDel(k)
    BY <1>1, <1>3, <2>3, Answers DEF StoreDel, StoreRest
  <2>4. CASE StoreIncr(k) \/ StoreCount(k)
    <3>1. keyRow[k].value \in SUBSET Nat /\ held[k] \in SUBSET Nat
      BY <1>1 DEF StoreInv, Row
    <3>2. reply' \in Reply
      BY <2>4, <3>1, OneMoreFacts, Answers DEF StoreIncr, StoreCount
    <3>3. \A v : Upserted(k, v).stored
      BY DEF Upserted
    <3> QED
      BY <1>1, <1>2, <2>4, <3>2, <3>3 DEF StoreIncr, StoreCount, StoreRest
  <2>5. CASE \E v \in Items, ttl \in 0..1 : StoreSet(k, v, ttl)
    <3>1. PICK v \in Items, ttl \in 0..1 : StoreSet(k, v, ttl)
      BY <2>5
    <3> QED
      BY <1>1, <1>2, <3>1, Answers DEF StoreSet, StoreRest
  <2>6. CASE \E i \in Items : StoreSadd(k, i)
    <3>1. PICK i \in Items : StoreSadd(k, i)
      BY <2>6
    <3>2. Upserted(k, {}).stored /\ {i} \ held[k] \in SUBSET Nat
      BY DEF Upserted
    <3> QED
      BY <1>1, <1>2, <3>1, <3>2, Answers DEF StoreSadd, StoreRest
  <2> QED
    BY <1>4, <2>1, <2>2, <2>3, <2>4, <2>5, <2>6 DEF KeyCommand
<1>5. ASSUME NEW k \in StoreKeys, RemoveRow(k)
      PROVE  StoreRest'
  <2>1. keyRow \in [StoreKeys -> Row]
    BY <1>1 DEF StoreInv
  <2> QED
    BY <1>1, <1>5, <2>1 DEF RemoveRow, StoreRest
<1>6. CASE RemoveRest \/ UNCHANGED storeVars
  BY <1>1, <1>6 DEF RemoveRest, storeVars, StoreRest
<1>7. CASE StoreCleanup \/ StoreClear
  BY <1>1, <1>3, <1>7 DEF StoreCleanup, StoreClear, StoreRest
<1>8. CASE StoreTick
  BY <1>1, <1>8 DEF StoreTick, StoreRest, StoreInv
<1>9. CASE Killed
  BY <1>1, <1>9 DEF Killed, StoreRest
<1> QED
  BY <1>4, <1>5, <1>6, <1>7, <1>8, <1>9 DEF SqliteNext

LEMMA StoreTypesKept ==
    ASSUME StoreTypes, [SqliteNext]_storeVars
    PROVE  StoreTypes'
  BY EveryStep, RowsBoundKept, StoreRestKept DEF StoreTypes

LEMMA StoreTypesBegin == SqliteInit => StoreTypes
<1> SUFFICES ASSUME SqliteInit PROVE StoreTypes
  OBVIOUS
<1>1. Present = {} /\ Present \ doomed = {}
  BY DEF SqliteInit, Present, NoRow
<1>2. RowsBound
  BY <1>1, FS_EmptySet DEF RowsBound, SqliteInit
<1>3. StoreRest
  BY DEF StoreRest, SqliteInit
<1> QED
  BY <1>2, <1>3, FirstStore DEF StoreTypes

LEMMA StoreTypesImply ==
    ASSUME StoreTypes
    PROVE  SqliteTypeOK
  BY DEF StoreTypes, StoreInv, StoreRest, RowsBound, SqliteTypeOK

(***************************************************************************)
(* The types of the store; and it holds no more rows than maxL2Entries,    *)
(* those that are about to be removed apart, but for one for every death   *)
(* that fell between a write and what it prunes.                           *)
(***************************************************************************)
THEOREM StoreTypeCorrect == SqliteSpec => []SqliteTypeOK
<1>1. SqliteInit => StoreTypes
  BY StoreTypesBegin
<1>2. StoreTypes /\ [SqliteNext]_storeVars => StoreTypes'
  BY StoreTypesKept
<1>3. StoreTypes => SqliteTypeOK
  BY StoreTypesImply
<1> QED
  BY <1>1, <1>2, <1>3, PTL DEF SqliteSpec

HIDE SqliteStoreAssumption DEF SqliteStoreAssumption

-----------------------------------------------------------------------------
(***************************************************************************)
(* The rate limiter.                                                       *)
(***************************************************************************)
USE RateLimiterAssumption DEF RateLimiterAssumption

(* The checks that have not answered nor written; those of the middleware that are over. *)
Early == {"new", "asking", "deciding"}
Ended == {"admitted", "refused", "failed"}

SpentIn(s, w) == {x \in Requests : /\ request[x].store = s /\ request[x].spent
                                   /\ request[x].now \div Window = w}

(* What the state of a check says of it. *)
CheckInv ==
    \A r \in Requests :
        /\ request[r].now <= now
        /\ request[r].at \in Early => ~request[r].spent
        /\ request[r].at \in {"admitted", "counted"} => request[r].spent
        /\ request[r].at = "deciding" =>
              strategy # "fixed" /\ request[r].knew \subseteq Spenders(request[r].store)
        /\ request[r].at = "counted" => strategy = "fixed"
        /\ strategy = "fixed" => request[r].limit = Limit

(* A counter has counted no more than were spent in its window. *)
CountInv ==
    \A s \in Stores, w \in Windows : counter[s][w].count <= Cardinality(SpentIn(s, w))

ChecksInv == LimiterTypeOK /\ CheckInv /\ CountInv

(* Those of a window that were counted in it, and those of them let through. *)
PromptIn(s, w) == SpentIn(s, w) \ late
LetIn(s, w) == {x \in PromptIn(s, w) : request[x].at \in {"admitted", "counted"}}

(* Until a window is over its counter lives and has counted all of them. *)
WindowsInv ==
    \A s \in Stores, w \in Windows :
        /\ Cardinality(LetIn(s, w)) <= Limit
        /\ now \div Window <= w =>
              /\ Cardinality(PromptIn(s, w)) <= counter[s][w].count
              /\ PromptIn(s, w) # {} => counter[s][w].until # 0
              /\ counter[s][w].until # 0 => (w + 1) * Window <= counter[s][w].until

(* The admissions that the bounds are about. *)
Good(s) == Admitted(s) \ (lost \cup late)

(* A stamp that has left the window of a later check that is over, or that twice a window *)
(* of the log has passed since.                                                           *)
PassedBy(s, x) ==
    \/ \E y \in Begun(s) : Stamp(x) + 2 * request[y].window <= now
    \/ \E y \in Begun(s) : request[y].at \in Ended /\ Stamp(x) + request[y].window <= Stamp(y)

(* The log lacks only admissions that have passed, or that who wrote it did not know. *)
LogInv ==
    /\ \A s \in Stores :
          /\ kept[s].log \subseteq Spenders(s)
          /\ \A x \in kept[s].log :
                \E y \in Begun(s) : Stamp(x) + 2 * request[y].window <= kept[s].until
          /\ \A x \in Good(s) : x \in kept[s].log \/ PassedBy(s, x)
    /\ \A r \in Requests : request[r].at = "deciding" =>
          /\ request[r].read.log \subseteq Spenders(request[r].store)
          /\ \A x \in Good(request[r].store) \cap request[r].knew :
                /\ x \in request[r].read.log \/ PassedBy(request[r].store, x)
                /\ r \notin late /\ Near(request[r].store, x, Stamp(r)) => x \in request[r].read.log

(***************************************************************************)
(* The bucket.  With tokens left at time h, the admissions X account for   *)
(* all that was there and was refilled since any t.                        *)
(***************************************************************************)
Stamps == [x \in Requests |-> request[x].now]

Backed(X, stamps, h, tokens) ==
    /\ \A x \in X : stamps[x] <= h
    /\ \A t \in 0..h :
          tokens + Window * Cardinality({x \in X : t <= stamps[x]}) <= Limit * (Window + h - t)

Full == Limit * Window

(* The time of a bucket's last refill, were it never to go back; and since when it is full at least. *)
Refill(s, v) == v.last + rewound[s]
FullSince(s, v) == v.until - 3 * Window + rewound[s]

BucketInv ==
    /\ \A s \in Stores :
          /\ kept[s].until <= now + 2 * Window
          /\ kept[s].until = 0 => Good(s) = {}
          /\ kept[s].until # 0 => kept[s].last + 2 * Window <= kept[s].until
          /\ \/ Backed(Good(s), Stamps, Refill(s, kept[s]), kept[s].tokens)
             \/ Backed(Good(s), Stamps, FullSince(s, kept[s]), Full)
    /\ \A r \in Requests : request[r].at = "deciding" =>
          LET q == request[r]
              X == Good(q.store) \cap q.knew
          IN  /\ q.read.until <= now + 2 * Window
              /\ q.read.until # 0 =>
                    \/ Backed(X, Stamps, Refill(q.store, q.read), q.read.tokens)
                    \/ /\ Backed(X, Stamps, FullSince(q.store, q.read), Full)
                       /\ r \notin late => q.read.until <= q.now + 3 * Window
              /\ q.read.until = 0 =>
                    /\ q.read = Nothing
                    /\ Backed(X, Stamps, now - Window + rewound[q.store], Full)
                    /\ r \notin late => Backed(X, Stamps, q.now + rewound[q.store], Full)

(* A bucket that has no token left had one taken, and was not refilled for a token since. *)
Drawn(s, v) == v.until # 0 /\ v.tokens < Window =>
                  \E x \in Spenders(s) : v.last <= v.tokens + Stamp(x)

DrawnInv ==
    /\ \A s \in Stores : Drawn(s, kept[s])
    /\ \A r \in Requests : request[r].at = "deciding" => Drawn(request[r].store, request[r].read)
-----------------------------------------------------------------------------
(* What a step of the limiter is to the check it is about. *)

Turns(r, rec) == request' = [request EXCEPT ![r] = rec]

(* The check has begun and goes on with what it began with. *)
Advances(r, rec) ==
    /\ rec \in Request /\ Turns(r, rec)
    /\ rec.store = request[r].store /\ rec.now = request[r].now
    /\ rec.limit = request[r].limit /\ rec.window = request[r].window

Begins(r) ==
    \E rec \in Request :
        /\ Turns(r, rec)
        /\ request[r].at = "new" /\ rec.at = "asking" /\ ~rec.spent /\ rec.now = now
        /\ Configured(rec)
        /\ UNCHANGED <<strategy, now, kept, counter, lost, late, rewound>>

(* The value a check reads. *)
Found(r) == IF now < kept[request[r].store].until THEN kept[request[r].store] ELSE Nothing

(* It reads when a window of the log has passed since it began. *)
Outlived(r) == \E y \in Begun(request[r].store) : now >= request[r].now + request[y].window

Gets(r) ==
    \E rec \in Request :
        /\ Advances(r, rec)
        /\ strategy # "fixed" /\ request[r].at = "asking" /\ rec.at = "deciding" /\ ~rec.spent
        /\ rec.read = Found(r) /\ rec.knew = Spenders(request[r].store)
        /\ late' = IF Overtaken(r) \/ Outlived(r) THEN late \cup {r} ELSE late
        /\ UNCHANGED <<strategy, now, kept, counter, lost, rewound>>

Writes(r) ==
    \E rec \in Request :
        /\ Advances(r, rec)
        /\ strategy # "fixed" /\ request[r].at = "deciding" /\ rec.at \in Ended
        /\ rec.at = "admitted" => Verdict(r).ok
        /\ rec.at = "refused" => ~Verdict(r).ok
        /\ rec.spent = Verdict(r).ok
        /\ Store(r)
        /\ UNCHANGED <<strategy, now, counter, late>>

Counts(r) ==
    \E rec \in Request :
        /\ Advances(r, rec)
        /\ strategy = "fixed" /\ request[r].at = "asking" /\ rec.spent
        /\ \/ rec.at = "counted" /\ Incremented(request[r]).count = 1
           \/ rec.at = "admitted" /\ Incremented(request[r]).count <= Limit
           \/ rec.at = "refused" /\ Incremented(request[r]).count > Limit
           \/ rec.at = "waved"
        /\ Count(request[r])
        /\ \/ rec.at = "waved" /\ late' = late
           \/ late' = IF now \div Window > request[r].now \div Window THEN late \cup {r} ELSE late
        /\ UNCHANGED <<strategy, now, kept, lost, rewound>>

Expires(r) ==
    \E rec \in Request :
        /\ Advances(r, rec)
        /\ request[r].at = "counted" /\ rec.at = "admitted" /\ rec.spent = request[r].spent
        /\ counter' = [counter EXCEPT ![request[r].store][WindowOf(request[r])].until = now + Window]
        /\ UNCHANGED <<strategy, now, kept, lost, late, rewound>>

(* The check is given up, and nothing comes of it. *)
Drops(r) ==
    \E rec \in Request :
        /\ Advances(r, rec)
        /\ request[r].at \in {"asking", "deciding", "counted"} /\ rec.at \in {"waved", "failed"}
        /\ rec.spent = request[r].spent
        /\ UNCHANGED <<strategy, now, kept, counter, lost, late, rewound>>

Rests == now' \in Times /\ now <= now' /\ UNCHANGED <<strategy, kept, counter, request, lost, late, rewound>>

(* The stamps of the window that the check read. *)
Lately(r) == {x \in request[r].read.log : InWindow(x, r)}

LEMMA SlideFacts ==
    ASSUME NEW r
    PROVE  /\ Slide(r).ok \in BOOLEAN
           /\ Slide(r).ok <=> Cardinality(Lately(r)) < request[r].limit
           /\ Slide(r).value.log = IF Slide(r).ok THEN Lately(r) \cup {r} ELSE Lately(r)
           /\ Slide(r).value.tokens = 0
           /\ Slide(r).value.last = request[r].now
           /\ Slide(r).value.until = now + 2 * request[r].window
           /\ Slide(r).value = [log |-> Slide(r).value.log, tokens |-> 0, last |-> request[r].now,
                                until |-> now + 2 * request[r].window]
<1> DEFINE ok == Cardinality(Lately(r)) < request[r].limit
           value(b) == [log |-> IF b THEN Lately(r) \cup {r} ELSE Lately(r), tokens |-> 0,
                        last |-> request[r].now, until |-> now + 2 * request[r].window]
<1>1. Slide(r) = [ok |-> ok, value |-> value(ok)]
  BY DEF Slide, Lately
<1>2. \A b : [ok |-> b, value |-> value(b)].ok = b /\ [ok |-> b, value |-> value(b)].value = value(b)
  OBVIOUS
<1> HIDE DEF value, ok
<1>3. Slide(r).ok = ok /\ Slide(r).value = value(ok)
  BY <1>1, <1>2
<1>4. Slide(r).ok = ok /\ Slide(r).value = value(Slide(r).ok)
  BY <1>3
<1>5. Slide(r).ok \in BOOLEAN /\ (Slide(r).ok <=> Cardinality(Lately(r)) < request[r].limit)
  <2>1. ok \in BOOLEAN /\ (ok <=> Cardinality(Lately(r)) < request[r].limit)
    BY DEF ok
  <2> QED
    BY <1>4, <2>1, Zenon
<1> QED
  BY <1>4, <1>5 DEF value

LEMMA TakeFacts ==
    ASSUME NEW r
    PROVE  /\ Take(r).ok \in BOOLEAN
           /\ Take(r).ok <=> Refilled(request[r]) >= Window
           /\ Take(r).value = [log |-> {}, last |-> request[r].now, until |-> now + 2 * Window,
                               tokens |-> IF Take(r).ok THEN Refilled(request[r]) - Window
                                                        ELSE Refilled(request[r])]
           /\ Take(r).value.log = {}
           /\ Take(r).value.last = request[r].now
           /\ Take(r).value.until = now + 2 * Window
           /\ Take(r).value.tokens = IF Take(r).ok THEN Refilled(request[r]) - Window
                                                   ELSE Refilled(request[r])
<1> DEFINE ok == Refilled(request[r]) >= Window
           value(b) == [log |-> {}, tokens |-> IF b THEN Refilled(request[r]) - Window
                                                    ELSE Refilled(request[r]),
                        last |-> request[r].now, until |-> now + 2 * Window]
<1>1. Take(r) = [ok |-> ok, value |-> value(ok)]
  BY DEF Take
<1>2. \A b : [ok |-> b, value |-> value(b)].ok = b /\ [ok |-> b, value |-> value(b)].value = value(b)
  OBVIOUS
<1> HIDE DEF value, ok
<1>3. Take(r).ok = ok /\ Take(r).value = value(ok)
  BY <1>1, <1>2
<1>4. Take(r).ok = ok /\ Take(r).value = value(Take(r).ok)
  BY <1>3
<1>5. Take(r).ok \in BOOLEAN /\ (Take(r).ok <=> Refilled(request[r]) >= Window)
  <2>1. ok \in BOOLEAN /\ (ok <=> Refilled(request[r]) >= Window)
    BY DEF ok
  <2> QED
    BY <1>4, <2>1, Zenon
<1> QED
  BY <1>4, <1>5 DEF value

LEMMA VerdictOk ==
    ASSUME NEW r
    PROVE  Verdict(r).ok \in BOOLEAN
<1>1. Slide(r).ok \in BOOLEAN /\ Take(r).ok \in BOOLEAN
  BY SlideFacts, TakeFacts, Zenon
<1> QED
  BY <1>1, Zenon DEF Verdict

(* What a check is configured with. *)
LEMMA LimitsTyped ==
    ASSUME NEW q, Configured(q)
    PROVE  /\ q.limit \in Nat \ {0} /\ q.window \in Nat \ {0}
           /\ strategy = "fixed" => q.limit = Limit
           /\ strategy # "sliding" => q.limit \in 1..Limit /\ q.window = Window
           /\ strategy = "sliding" =>
                 \E c \in Configs : q.limit = c.maxRequests /\ q.window = c.windowMs
<1>1. PICK c \in Limits : q.limit = c.maxRequests /\ q.window = c.windowMs
  BY DEF Configured
<1>2. CASE strategy = "sliding"
  BY <1>1, <1>2 DEF Limits
<1>3. CASE strategy # "sliding"
  <2>1. \/ c = [maxRequests |-> Limit, windowMs |-> Window]
        \/ strategy = "bucket" /\ c = [maxRequests |-> IF Limit = 1 THEN 1 ELSE Limit \div 2,
                                       windowMs |-> Window]
    BY <1>1, <1>3 DEF Limits
  <2> QED
    BY <1>1, <1>3, <2>1
<1> QED
  BY <1>2, <1>3

LEMMA CheckTyped ==
    ASSUME LimiterTypeOK, NEW r \in Requests
    PROVE  /\ request[r] \in Request /\ request[r].store \in Stores /\ request[r].now \in Times
           /\ request[r].limit \in Nat \ {0} /\ request[r].window \in Nat \ {0}
           /\ request[r].read \in Kept
           /\ strategy # "sliding" => request[r].limit \in 1..Limit /\ request[r].window = Window
           /\ strategy = "sliding" /\ request[r].at # "new" =>
                 \E c \in Configs : request[r].limit = c.maxRequests /\ request[r].window = c.windowMs
           /\ kept[request[r].store] \in Kept /\ Nothing \in Kept
           /\ request[r].spent \in BOOLEAN /\ Times \subseteq Nat
<1>1. request[r] \in Request
  BY DEF LimiterTypeOK
<1>2. \A s \in Stores : kept[s] \in Kept
  BY DEF LimiterTypeOK
<1>3. Nothing \in Kept
  BY FS_EmptySet DEF Nothing, Kept, Times, Forever
<1>4. Configured(request[r]) \/ (strategy = "sliding" /\ request[r].at = "new")
  BY DEF LimiterTypeOK
<1>5. /\ strategy # "sliding" => request[r].limit \in 1..Limit /\ request[r].window = Window
      /\ strategy = "sliding" /\ request[r].at # "new" =>
            \E c \in Configs : request[r].limit = c.maxRequests /\ request[r].window = c.windowMs
  BY <1>4, LimitsTyped
<1> QED
  BY <1>1, <1>2, <1>3, <1>5 DEF Request, Times

LEMMA TurnedTyped ==
    ASSUME LimiterTypeOK, NEW r \in Requests, NEW rec \in Request, Turns(r, rec)
    PROVE  /\ request' \in [Requests -> Request]
           /\ \A x \in Requests : request'[x] = IF x = r THEN rec ELSE request[x]
  BY DEF Turns, LimiterTypeOK

LEMMA FiniteRequests ==
    /\ IsFiniteSet(Requests)
    /\ \A X \in SUBSET Requests : IsFiniteSet(X) /\ Cardinality(X) \in Nat
    /\ \A X \in SUBSET Requests, Y \in SUBSET Requests :
          X \subseteq Y => Cardinality(X) <= Cardinality(Y)
    /\ \A X \in SUBSET Requests, r \in Requests :
          Cardinality(X \cup {r}) = IF r \in X THEN Cardinality(X) ELSE Cardinality(X) + 1
<1>1. IsFiniteSet(Requests)
  BY FS_Interval DEF Requests
<1>2. \A X \in SUBSET Requests : IsFiniteSet(X) /\ Cardinality(X) \in Nat
  BY <1>1, FS_Subset, FS_CardinalityType
<1>3. \A X \in SUBSET Requests, Y \in SUBSET Requests :
          X \subseteq Y => Cardinality(X) <= Cardinality(Y)
  BY <1>2, FS_Subset
<1>4. \A X \in SUBSET Requests, r \in Requests :
          Cardinality(X \cup {r}) = IF r \in X THEN Cardinality(X) ELSE Cardinality(X) + 1
  BY <1>2, FS_AddElement
<1> QED
  BY <1>1, <1>2, <1>3, <1>4

LEMMA BeginsOne ==
    ASSUME ChecksInv, NEW r \in Requests, NEW p \in Portals, BeginCheck(r, p)
    PROVE  Begins(r) /\ up' = up /\ \A q \in Portals : chosen'[q] \in {{}, {Redis}, {q}}
<1> DEFINE current == IF up THEN Redis ELSE p
           s == IF strategy # "fixed" /\ chosen[p] # {} THEN CHOOSE x \in chosen[p] : TRUE
                ELSE current
<1>1. \A x : (CHOOSE y \in {x} : TRUE) = x
  OBVIOUS
<1>2. s \in {Redis, p} /\ s \in Stores
  BY <1>1 DEF ChecksInv, LimiterTypeOK, Stores
<1>3. PICK c \in Limits :
         Turns(r, [request[r] EXCEPT !.at = "asking", !.store = s, !.now = now,
                                     !.limit = c.maxRequests, !.window = c.windowMs])
  BY DEF BeginCheck, Turns
<1>4. c.maxRequests \in Nat \ {0} /\ c.windowMs \in Nat \ {0}
  <2> DEFINE q == [limit |-> c.maxRequests, window |-> c.windowMs]
  <2>1. Configured(q) /\ q.limit = c.maxRequests /\ q.window = c.windowMs
    BY DEF Configured
  <2> HIDE DEF q
  <2> QED
    BY <2>1, LimitsTyped
<1> DEFINE rec == [request[r] EXCEPT !.at = "asking", !.store = s, !.now = now,
                                     !.limit = c.maxRequests, !.window = c.windowMs]
<1>5. request[r] \in Request /\ request[r].at = "new" /\ ~request[r].spent /\ now \in Times
  BY CheckTyped DEF ChecksInv, LimiterTypeOK, BeginCheck, CheckInv, Early
<1>6. /\ rec \in Request /\ rec.at = "asking" /\ ~rec.spent /\ rec.now = now
      /\ rec.limit = c.maxRequests /\ rec.window = c.windowMs
  BY <1>2, <1>4, <1>5 DEF Request
<1>7. Begins(r)
  <2>1. Configured(rec)
    BY <1>6 DEF Configured
  <2>2. Turns(r, rec) /\ UNCHANGED <<strategy, now, kept, counter, lost, late, rewound>>
    BY <1>3 DEF BeginCheck
  <2> HIDE DEF rec
  <2> QED
    BY <1>5, <1>6, <2>1, <2>2 DEF Begins
<1>8. \A q \in Portals : chosen'[q] \in {{}, {Redis}, {q}}
  BY <1>2 DEF ChecksInv, LimiterTypeOK, BeginCheck
<1> QED
  BY <1>7, <1>8 DEF BeginCheck

LEMMA GetsOne ==
    ASSUME ChecksInv, NEW r \in Requests, Get(r)
    PROVE  Gets(r) /\ UNCHANGED <<up, chosen>>
<1> DEFINE rec == [request[r] EXCEPT !.at = "deciding", !.read = Found(r),
                                     !.knew = Spenders(request[r].store)]
<1>1. request[r] \in Request /\ request[r].at = "asking" /\ ~request[r].spent /\ Found(r) \in Kept
  BY CheckTyped DEF ChecksInv, Get, CheckInv, Early, Found
<1>2. Turns(r, rec)
  BY DEF Get, Turns, Found
<1>3. Spenders(request[r].store) \in SUBSET Requests
  BY DEF Spenders
<1>4. /\ rec \in Request /\ rec.at = "deciding" /\ ~rec.spent /\ rec.read = Found(r)
      /\ rec.knew = Spenders(request[r].store)
      /\ rec.store = request[r].store /\ rec.now = request[r].now
      /\ rec.limit = request[r].limit /\ rec.window = request[r].window
  BY <1>1, <1>3 DEF Request
<1>5. /\ strategy # "fixed"
      /\ late' = IF Overtaken(r) \/ Outlived(r) THEN late \cup {r} ELSE late
      /\ UNCHANGED <<strategy, now, kept, counter, lost, rewound>> /\ UNCHANGED <<up, chosen>>
  BY DEF Get, Outlived
<1> HIDE DEF rec
<1> QED
  BY <1>1, <1>2, <1>4, <1>5 DEF Gets, Advances

LEMMA SetsOne ==
    ASSUME ChecksInv, NEW r \in Requests, Set(r)
    PROVE  Writes(r) /\ UNCHANGED <<up, chosen>>
<1> DEFINE ok == Verdict(r).ok
           rec == [request[r] EXCEPT !.at = IF ok THEN "admitted" ELSE "refused",
                                     !.read = Nothing, !.knew = {}, !.spent = ok]
<1>1. request[r] \in Request /\ request[r].at = "deciding" /\ Nothing \in Kept /\ strategy # "fixed"
  BY CheckTyped DEF ChecksInv, Set, CheckInv
<1>2. Turns(r, rec)
  BY DEF Set, Turns
<1>3. ok \in BOOLEAN
  BY VerdictOk
<1> HIDE DEF ok
<1>4. /\ rec \in Request /\ rec.at = (IF ok THEN "admitted" ELSE "refused") /\ rec.spent = ok
      /\ rec.store = request[r].store /\ rec.now = request[r].now
      /\ rec.limit = request[r].limit /\ rec.window = request[r].window
  BY <1>1, <1>3 DEF Request
<1>5. Store(r) /\ UNCHANGED <<strategy, now, counter, late>> /\ UNCHANGED <<up, chosen>>
  BY DEF Set
<1>6. rec.at \in Ended /\ (rec.at = "admitted" => ok) /\ (rec.at = "refused" => ~ok)
  BY <1>3, <1>4 DEF Ended
<1>7. Advances(r, rec)
  BY <1>2, <1>4 DEF Advances
<1> HIDE DEF rec
<1> QED
  BY <1>1, <1>4, <1>5, <1>6, <1>7 DEF Writes, ok

LEMMA IncrsOne ==
    ASSUME ChecksInv, NEW r \in Requests, Incr(r)
    PROVE  Counts(r) /\ UNCHANGED <<up, chosen>>
<1> DEFINE count == Incremented(request[r]).count
           at == IF count = 1 THEN "counted" ELSE IF count <= request[r].limit THEN "admitted" ELSE "refused"
           rec == [request[r] EXCEPT !.at = at, !.spent = TRUE]
<1>1. /\ request[r] \in Request /\ request[r].at = "asking" /\ strategy = "fixed"
      /\ request[r].limit = Limit
  BY CheckTyped DEF ChecksInv, Incr, CheckInv
<1>2. Turns(r, rec)
  BY DEF Incr, Turns
<1>3. count \in Int
  <2>1. counter[request[r].store][WindowOf(request[r])].count \in Int
    <3>1. WindowOf(request[r]) \in Windows
      BY CheckTyped DEF WindowOf, Windows, Times, ChecksInv
    <3> QED
      BY <3>1, CheckTyped DEF ChecksInv, LimiterTypeOK, Counter
  <2> QED
    BY <2>1 DEF Incremented
<1> HIDE DEF count
<1>4. /\ rec \in Request /\ rec.at = at /\ rec.spent
      /\ rec.store = request[r].store /\ rec.now = request[r].now
      /\ rec.limit = request[r].limit /\ rec.window = request[r].window
  BY <1>1 DEF Request
<1>5. \/ rec.at = "counted" /\ count = 1
      \/ rec.at = "admitted" /\ count <= Limit
      \/ rec.at = "refused" /\ count > Limit
  BY <1>1, <1>3, <1>4
<1>6. /\ Count(request[r]) /\ UNCHANGED <<strategy, now, kept, lost, rewound>> /\ UNCHANGED <<up, chosen>>
      /\ late' = IF now \div Window > request[r].now \div Window THEN late \cup {r} ELSE late
  BY DEF Incr
<1> QED
  BY <1>1, <1>2, <1>4, <1>5, <1>6 DEF Counts, Advances, count

LEMMA ExpiresOne ==
    ASSUME ChecksInv, NEW r \in Requests, Expire(r)
    PROVE  Expires(r) /\ UNCHANGED <<up, chosen>>
<1> DEFINE rec == [request[r] EXCEPT !.at = "admitted"]
<1>1. request[r] \in Request /\ request[r].at = "counted"
  BY CheckTyped DEF ChecksInv, Expire
<1>2. Turns(r, rec)
  BY <1>1 DEF Expire, Turns, Reach
<1>3. /\ rec \in Request /\ rec.at = "admitted" /\ rec.spent = request[r].spent
      /\ rec.store = request[r].store /\ rec.now = request[r].now
      /\ rec.limit = request[r].limit /\ rec.window = request[r].window
  BY <1>1 DEF Request
<1> QED
  BY <1>1, <1>2, <1>3 DEF Expire, Expires, Advances

LEMMA CrashesOne ==
    ASSUME ChecksInv, NEW r \in Requests, CrashDuring(r)
    PROVE  Drops(r) /\ UNCHANGED <<up, chosen>>
<1> DEFINE rec == [request[r] EXCEPT !.at = "failed"]
<1>1. request[r] \in Request /\ request[r].at = "counted"
  BY CheckTyped DEF ChecksInv, CrashDuring
<1>2. Turns(r, rec)
  BY <1>1 DEF CrashDuring, Turns, Reach
<1>3. /\ rec \in Request /\ rec.at = "failed" /\ rec.spent = request[r].spent
      /\ rec.store = request[r].store /\ rec.now = request[r].now
      /\ rec.limit = request[r].limit /\ rec.window = request[r].window
  BY <1>1 DEF Request
<1> QED
  BY <1>1, <1>2, <1>3 DEF CrashDuring, Drops, Advances

LEMMA FailsOne ==
    ASSUME ChecksInv, NEW r \in Requests, Fail(r)
    PROVE  (Drops(r) \/ Writes(r) \/ Counts(r)) /\ UNCHANGED <<up, chosen>>
<1> DEFINE over == [request[r] EXCEPT !.at = IF strategy = "fixed" THEN "waved" ELSE "failed",
                                      !.read = Nothing, !.knew = {}]
<1>1. request[r] \in Request /\ Nothing \in Kept
  BY CheckTyped DEF ChecksInv
<1>2. /\ over \in Request /\ over.at = (IF strategy = "fixed" THEN "waved" ELSE "failed")
      /\ over.spent = request[r].spent
      /\ over.store = request[r].store /\ over.now = request[r].now
      /\ over.limit = request[r].limit /\ over.window = request[r].window
  BY <1>1 DEF Request
<1> HIDE DEF over
<1>3. /\ request[r].at \in {"asking", "deciding", "counted"}
      /\ UNCHANGED <<strategy, now, up, chosen, late>>
  BY DEF Fail
<1>4. CASE Turns(r, over) /\ UNCHANGED <<kept, counter, lost, rewound>>
  <2>1. Drops(r)
    BY <1>2, <1>3, <1>4 DEF Drops, Advances
  <2> QED
    BY <1>3, <2>1
<1>5. CASE /\ request[r].at = "deciding" /\ Store(r)
           /\ Turns(r, [over EXCEPT !.spent = Verdict(r).ok]) /\ UNCHANGED counter
  <2> DEFINE ok == Verdict(r).ok
             rec == [over EXCEPT !.spent = ok]
  <2>1. ok \in BOOLEAN /\ strategy # "fixed"
    BY <1>5, VerdictOk DEF ChecksInv, CheckInv
  <2> HIDE DEF ok
  <2>2. /\ rec \in Request /\ rec.at = "failed" /\ rec.spent = ok
        /\ rec.store = request[r].store /\ rec.now = request[r].now
        /\ rec.limit = request[r].limit /\ rec.window = request[r].window
    BY <1>2, <2>1 DEF Request
  <2>3. Turns(r, rec)
    BY <1>5 DEF ok
  <2>4. Writes(r)
    BY <1>3, <1>5, <2>1, <2>2, <2>3 DEF Writes, Advances, Ended, ok
  <2> QED
    BY <1>3, <2>4
<1>6. CASE /\ request[r].at = "asking" /\ strategy = "fixed" /\ Count(request[r])
           /\ Turns(r, [over EXCEPT !.spent = TRUE]) /\ UNCHANGED <<kept, lost, rewound>>
  <2> DEFINE rec == [over EXCEPT !.spent = TRUE]
  <2>1. /\ rec \in Request /\ rec.at = "waved" /\ rec.spent
        /\ rec.store = request[r].store /\ rec.now = request[r].now
        /\ rec.limit = request[r].limit /\ rec.window = request[r].window
    BY <1>2, <1>6 DEF Request
  <2>2. Counts(r)
    BY <1>3, <1>6, <2>1 DEF Counts, Advances
  <2> QED
    BY <1>3, <2>2
<1> QED
  BY <1>4, <1>5, <1>6 DEF Fail, Turns, over

(* What a step of the limiter is, for the invariants below. *)
LEMMA LimiterSteps ==
    ASSUME ChecksInv, [LimiterNext]_limiterVars
    PROVE  /\ \/ \E r \in Requests : \/ Begins(r) \/ Gets(r) \/ Writes(r) \/ Counts(r)
                                     \/ Expires(r) \/ Drops(r)
              \/ Rests
           /\ up' \in BOOLEAN /\ \A p \in Portals : chosen'[p] \in {{}, {Redis}, {p}}
<1>1. up \in BOOLEAN /\ (\A p \in Portals : chosen[p] \in {{}, {Redis}, {p}}) /\ now \in Times
  BY DEF ChecksInv, LimiterTypeOK
<1>2. UNCHANGED <<up, chosen>> =>
          up' \in BOOLEAN /\ \A p \in Portals : chosen'[p] \in {{}, {Redis}, {p}}
  BY <1>1
<1>3. ASSUME NEW r \in Requests, NEW p \in Portals, BeginCheck(r, p)
      PROVE  /\ Begins(r) /\ up' \in BOOLEAN
             /\ \A q \in Portals : chosen'[q] \in {{}, {Redis}, {q}}
  BY <1>1, <1>3, BeginsOne
<1>4. ASSUME NEW r \in Requests, Get(r) \/ Set(r) \/ Incr(r) \/ Expire(r) \/ Fail(r) \/ CrashDuring(r)
      PROVE  /\ Gets(r) \/ Writes(r) \/ Counts(r) \/ Expires(r) \/ Drops(r)
             /\ UNCHANGED <<up, chosen>>
  BY <1>4, GetsOne, SetsOne, IncrsOne, ExpiresOne, FailsOne, CrashesOne
<1>5. CASE LimiterTick
  BY <1>1, <1>5 DEF LimiterTick, Rests, Times
<1>6. CASE RedisChanges
  <2>1. up' \in BOOLEAN
    BY <1>1, <1>6, Zenon DEF RedisChanges
  <2> QED
    BY <1>1, <1>6, <2>1 DEF RedisChanges, Rests, Times
<1>7. CASE UNCHANGED limiterVars
  BY <1>1, <1>7 DEF limiterVars, Rests, Times
<1> QED
  BY <1>2, <1>3, <1>4, <1>5, <1>6, <1>7 DEF LimiterNext

LEMMA Arithmetic ==
    /\ \A m, n \in Nat : m * n \in Nat
    /\ \A k, m, n \in Nat : m <= n => m * k <= n * k /\ k * m <= k * n
    /\ \A n \in Nat : /\ n \div Window \in Nat
                      /\ (n \div Window) * Window <= n
                      /\ n < (n \div Window + 1) * Window
    /\ \A m, n \in Nat : m <= n => m \div Window <= n \div Window
  OBVIOUS

LEMMA RefilledTyped ==
    ASSUME LimiterTypeOK, NEW r \in Requests, strategy # "sliding"
    PROVE  /\ Refilled(request[r]) \in 0..Full
           /\ Refilled(request[r]) \in Nat /\ Refilled(request[r]) <= Full
           /\ Refilled(request[r]) <= request[r].limit * Window
<1> DEFINE q == request[r]
<1>1. q.limit \in 1..Limit /\ q.now \in Nat /\ q.read.last \in Nat /\ q.read.tokens \in Nat
  <2>1. q.limit \in 1..Limit /\ q.now \in Times /\ q.read \in Kept
    BY CheckTyped
  <2>2. Limit * Window \in Nat
    BY Arithmetic
  <2> QED
    BY <2>1, <2>2 DEF Kept, Times
<1>2. q.limit * Window \in Nat /\ q.limit * Window <= Full
  BY <1>1, Arithmetic DEF Full
<1> DEFINE elapsed == IF q.now > q.read.last THEN q.now - q.read.last ELSE 0
<1>3. elapsed \in Nat
  BY <1>1
<1>4. q.read.tokens + q.limit * elapsed \in Nat
  BY <1>1, <1>3, Arithmetic
<1>5. Refilled(q) = IF q.read.until = 0 \/ q.read.tokens + q.limit * elapsed > q.limit * Window
                      THEN q.limit * Window ELSE q.read.tokens + q.limit * elapsed
  BY DEF Refilled
<1> HIDE DEF elapsed, q
<1>6. Refilled(q) \in Nat /\ Refilled(q) <= q.limit * Window /\ Full \in Nat
  BY <1>2, <1>4, <1>5 DEF Full
<1>7. Refilled(q) <= Full
  BY <1>2, <1>6
<1>8. Refilled(q) \in 0..Full
  BY <1>6, <1>7
<1> QED
  BY <1>6, <1>7, <1>8 DEF q

LEMMA VerdictTyped ==
    ASSUME LimiterTypeOK, NEW r \in Requests, request[r].at # "new"
    PROVE  Verdict(r).value \in Kept
<1>1. /\ request[r].limit \in Nat /\ request[r].window \in Nat /\ request[r].now \in Times
      /\ now \in Times /\ request[r].read.log \in SUBSET Requests
      /\ \/ request[r].read.log = {}
         \/ \E c \in Configs : Cardinality(request[r].read.log) <= c.maxRequests
  BY CheckTyped DEF Kept, LimiterTypeOK
<1>2. now + 2 * Window \in Nat /\ now + 2 * request[r].window \in Nat
  BY <1>1 DEF Times
<1>3. ASSUME strategy = "sliding" PROVE Slide(r).value \in Kept
  <2>1. Lately(r) \subseteq request[r].read.log
    BY DEF Lately
  <2> DEFINE log == IF Slide(r).ok THEN Lately(r) \cup {r} ELSE Lately(r)
  <2>2. log \in SUBSET Requests
    BY <1>1, <2>1
  <2>3. log = {} \/ \E c \in Configs : Cardinality(log) <= c.maxRequests
    <3>1. CASE Slide(r).ok
      <4>1. PICK c \in Configs : request[r].limit = c.maxRequests
        BY <1>3, CheckTyped
      <4>2. Cardinality(Lately(r)) < request[r].limit /\ Cardinality(Lately(r)) \in Nat
        BY <1>1, <2>1, <3>1, SlideFacts, FiniteRequests
      <4>3. Cardinality(Lately(r) \cup {r}) <= Cardinality(Lately(r)) + 1
        BY <1>1, <2>1, <4>2, FiniteRequests
      <4>4. Cardinality(Lately(r) \cup {r}) \in Nat
        BY <2>2, <3>1, FiniteRequests
      <4> QED
        BY <1>1, <3>1, <4>1, <4>2, <4>3, <4>4
    <3>2. CASE ~Slide(r).ok
      <4>1. log = Lately(r)
        BY <3>2
      <4>2. CASE request[r].read.log = {}
        BY <2>1, <4>1, <4>2
      <4>3. CASE \E c \in Configs : Cardinality(request[r].read.log) <= c.maxRequests
        <5>1. PICK c \in Configs : Cardinality(request[r].read.log) <= c.maxRequests
          BY <4>3
        <5>2. /\ Cardinality(Lately(r)) <= Cardinality(request[r].read.log)
              /\ Cardinality(Lately(r)) \in Nat /\ Cardinality(request[r].read.log) \in Nat
          BY <1>1, <2>1, FiniteRequests
        <5>3. c.maxRequests \in Nat /\ Cardinality(Lately(r)) <= c.maxRequests
          BY <5>1, <5>2
        <5> HIDE DEF log
        <5> QED
          BY <4>1, <5>1, <5>3
      <4> QED
        BY <1>1, <4>2, <4>3
    <3> QED
      BY <3>1, <3>2
  <2>4. Slide(r).value = [log |-> log, tokens |-> 0, last |-> request[r].now,
                          until |-> now + 2 * request[r].window]
    BY SlideFacts
  <2>5. 0 \in 0..(Limit * Window)
    BY Arithmetic
  <2> HIDE DEF log
  <2> QED
    BY <1>1, <1>2, <2>2, <2>3, <2>4, <2>5 DEF Kept
<1>4. ASSUME strategy # "sliding" PROVE Take(r).value \in Kept
  <2> DEFINE tokens == IF Take(r).ok THEN Refilled(request[r]) - Window ELSE Refilled(request[r])
  <2>1. tokens \in 0..Full
    <3>1. Full \in Nat
      BY Arithmetic DEF Full
    <3>2. Refilled(request[r]) \in 0..Full /\ (Take(r).ok => Refilled(request[r]) >= Window)
      BY <1>4, RefilledTyped, TakeFacts
    <3> QED
      BY <3>1, <3>2
  <2>2. Take(r).value = [log |-> {}, last |-> request[r].now, until |-> now + 2 * Window,
                         tokens |-> tokens]
    BY TakeFacts
  <2> HIDE DEF tokens
  <2> QED
    BY <1>1, <1>2, <2>1, <2>2 DEF Kept, Full
<1> QED
  BY <1>3, <1>4 DEF Verdict

LEMMA VerdictFacts ==
    ASSUME NEW r
    PROVE  /\ Verdict(r).value.last = request[r].now
           /\ strategy # "sliding" => Verdict(r).value.until = now + 2 * Window
           /\ strategy = "sliding" => Verdict(r).value.until = now + 2 * request[r].window
<1>1. Slide(r).value.last = request[r].now /\ Slide(r).value.until = now + 2 * request[r].window
  BY SlideFacts
<1>2. Take(r).value.last = request[r].now /\ Take(r).value.until = now + 2 * Window
  BY TakeFacts
<1> QED
  BY <1>1, <1>2 DEF Verdict

(* A check keeps what it began with, and is over for good. *)
Onward(x) ==
    /\ request[x].spent => request'[x].spent
    /\ request[x].at # "new" =>
          /\ request'[x].at # "new"
          /\ request'[x].store = request[x].store /\ request'[x].now = request[x].now
          /\ request'[x].limit = request[x].limit /\ request'[x].window = request[x].window
    /\ request[x].at \in {"admitted", "refused", "failed", "waved"} => request'[x] = request[x]

LEMMA AllOnward ==
    ASSUME ChecksInv, [LimiterNext]_limiterVars
    PROVE  /\ request' \in [Requests -> Request]
           /\ \A x \in Requests : Onward(x)
           /\ strategy' = strategy /\ now' \in Times /\ now <= now'
<1>1. now \in Times /\ request \in [Requests -> Request] /\ \A x \in Requests : ~(now > now) /\ CheckInv
  BY DEF ChecksInv, LimiterTypeOK, Times
<1>2. ASSUME NEW r \in Requests, Begins(r)
      PROVE  request' \in [Requests -> Request] /\ (\A x \in Requests : Onward(x))
             /\ UNCHANGED <<strategy, now>>
  <2>1. PICK rec \in Request : Turns(r, rec) /\ request[r].at = "new" /\ UNCHANGED <<strategy, now>>
    BY <1>2 DEF Begins
  <2>2. ~request[r].spent
    BY <2>1 DEF ChecksInv, CheckInv, Early
  <2> QED
    BY <2>1, <2>2, TurnedTyped DEF Onward, ChecksInv
<1>3. ASSUME NEW r \in Requests, Gets(r) \/ Writes(r) \/ Counts(r) \/ Expires(r) \/ Drops(r)
      PROVE  request' \in [Requests -> Request] /\ (\A x \in Requests : Onward(x))
             /\ UNCHANGED <<strategy, now>>
  <2>1. PICK rec \in Request :
           /\ Advances(r, rec) /\ UNCHANGED <<strategy, now>>
           /\ request[r].at \in {"asking", "deciding", "counted"} /\ rec.at # "new"
           /\ rec.spent = request[r].spent \/ rec.spent \/ request[r].at # "counted"
    BY <1>3 DEF Gets, Writes, Counts, Expires, Drops, Advances, Ended
  <2>2. request[r].spent => rec.spent
    BY <2>1 DEF ChecksInv, CheckInv, Early
  <2> QED
    BY <2>1, <2>2, TurnedTyped DEF Onward, ChecksInv, Advances
<1>4. CASE Rests
  BY <1>1, <1>4 DEF Rests, Onward
<1> QED
  BY <1>1, <1>2, <1>3, <1>4, LimiterSteps DEF Times

LEMMA CheckKept ==
    ASSUME ChecksInv, [LimiterNext]_limiterVars
    PROVE  CheckInv'
<1> USE AllOnward
<1>1. \A s : Spenders(s) \subseteq Spenders(s)'
  <2>1. \A x \in Requests : request[x].spent => request'[x].spent /\ request'[x].store = request[x].store
    BY DEF Onward, ChecksInv, CheckInv, Early
  <2> QED
    BY <2>1 DEF Spenders
<1> DEFINE Fine(x) ==
        /\ request[x].now <= now
        /\ request[x].at \in Early => ~request[x].spent
        /\ request[x].at \in {"admitted", "counted"} => request[x].spent
        /\ request[x].at = "deciding" =>
              strategy # "fixed" /\ request[x].knew \subseteq Spenders(request[x].store)
        /\ request[x].at = "counted" => strategy = "fixed"
        /\ strategy = "fixed" => request[x].limit = Limit
<1>2. \A x \in Requests : Fine(x) /\ request[x].now \in Nat
  BY CheckTyped DEF ChecksInv, CheckInv, Times
<1>3. now \in Nat /\ now' \in Nat
  BY DEF Times, ChecksInv, LimiterTypeOK
<1>4. ASSUME NEW x \in Requests, request'[x] = request[x] PROVE Fine(x)'
  BY <1>1, <1>2, <1>3, <1>4
<1>5. ASSUME NEW r \in Requests, NEW rec \in Request, Turns(r, rec), rec.now <= now',
             rec.at \in Early => ~rec.spent, rec.at \in {"admitted", "counted"} => rec.spent,
             rec.at = "deciding" => strategy # "fixed" /\ rec.knew \subseteq Spenders(rec.store),
             rec.at = "counted" => strategy = "fixed", strategy = "fixed" => rec.limit = Limit
      PROVE  CheckInv'
  <2>1. \A x \in Requests : request'[x] = IF x = r THEN rec ELSE request[x]
    BY <1>5, TurnedTyped DEF ChecksInv
  <2>2. Fine(r)'
    BY <1>1, <1>5, <2>1
  <2>3. \A x \in Requests : Fine(x)'
    BY <1>4, <2>1, <2>2
  <2> QED
    BY <2>3 DEF CheckInv
<1>6. ASSUME NEW r \in Requests, Begins(r) PROVE CheckInv'
  <2>1. PICK rec \in Request : /\ Turns(r, rec) /\ rec.at = "asking" /\ ~rec.spent /\ rec.now = now
                               /\ now' = now /\ Configured(rec)
    BY <1>6 DEF Begins
  <2>2. strategy = "fixed" => rec.limit = Limit
    BY <2>1, LimitsTyped
  <2> QED
    BY <1>3, <1>5, <2>1, <2>2
<1>7. ASSUME NEW r \in Requests, Gets(r) PROVE CheckInv'
  BY <1>2, <1>3, <1>5, <1>7 DEF Gets, Early, Advances
<1>8. ASSUME NEW r \in Requests, Writes(r) PROVE CheckInv'
  BY <1>2, <1>3, <1>5, <1>8 DEF Writes, Early, Advances, Ended
<1>9. ASSUME NEW r \in Requests, Counts(r) PROVE CheckInv'
  BY <1>2, <1>3, <1>5, <1>9 DEF Counts, Early, Advances
<1>10. ASSUME NEW r \in Requests, Expires(r) PROVE CheckInv'
  BY <1>2, <1>3, <1>5, <1>10 DEF Expires, Early, Advances
<1>11. ASSUME NEW r \in Requests, Drops(r) PROVE CheckInv'
  BY <1>2, <1>3, <1>5, <1>11 DEF Drops, Early, Advances
<1>12. CASE Rests
  BY <1>4, <1>12 DEF Rests, CheckInv
<1> QED
  BY <1>6, <1>7, <1>8, <1>9, <1>10, <1>11, <1>12, LimiterSteps

(* Who was spent stays so, and so do the counts. *)
LEMMA SpentKept ==
    ASSUME ChecksInv, [LimiterNext]_limiterVars
    PROVE  /\ \A s : Spenders(s) \subseteq Spenders(s)'
           /\ \A s, w : SpentIn(s, w) \subseteq SpentIn(s, w)'
           /\ \A s, w : Cardinality(SpentIn(s, w)) <= Cardinality(SpentIn(s, w)')
<1>1. \A x \in Requests : request[x].spent =>
          /\ request'[x].spent /\ request'[x].store = request[x].store
          /\ request'[x].now = request[x].now
  BY AllOnward DEF Onward, ChecksInv, CheckInv, Early
<1>2. \A s : Spenders(s) \subseteq Spenders(s)'
  BY <1>1 DEF Spenders
<1>3. \A s, w : SpentIn(s, w) \subseteq SpentIn(s, w)'
  BY <1>1 DEF SpentIn
<1>4. \A s, w : SpentIn(s, w) \in SUBSET Requests /\ SpentIn(s, w)' \in SUBSET Requests
  BY DEF SpentIn
<1> QED
  BY <1>2, <1>3, <1>4, FiniteRequests

LEMMA WindowTyped ==
    ASSUME LimiterTypeOK, NEW r \in Requests
    PROVE  WindowOf(request[r]) \in Windows /\ WindowOf(request[r]) = request[r].now \div Window
<1>1. request[r].now \in 0..MaxTime
  BY CheckTyped DEF Times
<1>2. \A n \in 0..MaxTime : n \div Window \in 0..(MaxTime \div Window)
  OBVIOUS
<1> QED
  BY <1>1, <1>2 DEF WindowOf, Windows

(* What the counter of a check's window becomes, and who is then spent in it. *)
LEMMA CountsFacts ==
    ASSUME ChecksInv, NEW r \in Requests, Counts(r), NEW s, s = request[r].store,
           NEW w, w = WindowOf(request[r])
    PROVE  /\ s \in Stores /\ w \in Windows /\ w = request[r].now \div Window
           /\ counter[s][w] \in Counter /\ r \notin SpentIn(s, w)
           /\ SpentIn(s, w)' = SpentIn(s, w) \cup {r}
           /\ Cardinality(SpentIn(s, w)') = Cardinality(SpentIn(s, w)) + 1
           /\ counter' = [counter EXCEPT ![s][w] = Incremented(request[r])]
           /\ Incremented(request[r]).count \in 1..(counter[s][w].count + 1)
           /\ \/ /\ now < counter[s][w].until
                 /\ Incremented(request[r]).count = counter[s][w].count + 1
                 /\ Incremented(request[r]).until = counter[s][w].until
              \/ /\ now >= counter[s][w].until
                 /\ Incremented(request[r]).count = 1 /\ Incremented(request[r]).until = Forever
           /\ \A x, y : x # s \/ y # w => SpentIn(x, y)' = SpentIn(x, y)
           /\ Incremented(request[r]) \in Counter
<1>1. s \in Stores /\ w \in Windows /\ w = request[r].now \div Window
  BY CheckTyped, WindowTyped DEF ChecksInv
<1>2. PICK rec \in Request : /\ Advances(r, rec) /\ rec.spent /\ request[r].at = "asking"
                             /\ Count(request[r])
  BY DEF Counts
<1>3. ~request[r].spent
  BY <1>2 DEF ChecksInv, CheckInv, Early
<1>4. \A x \in Requests : request'[x] = IF x = r THEN rec ELSE request[x]
  BY <1>2, TurnedTyped DEF Advances, ChecksInv
<1>5. SpentIn(s, w)' = SpentIn(s, w) \cup {r} /\ r \notin SpentIn(s, w)
  BY <1>1, <1>2, <1>3, <1>4 DEF SpentIn, Advances
<1>6. \A x, y : x # s \/ y # w => SpentIn(x, y)' = SpentIn(x, y)
  BY <1>1, <1>2, <1>3, <1>4 DEF SpentIn, Advances
<1>7. /\ Cardinality(SpentIn(s, w)') = Cardinality(SpentIn(s, w)) + 1
      /\ Cardinality(SpentIn(s, w)') <= MaxRequests
      /\ Cardinality(SpentIn(s, w)) \in Nat
  <2>1. SpentIn(s, w) \in SUBSET Requests /\ SpentIn(s, w) \cup {r} \in SUBSET Requests
    BY DEF SpentIn
  <2>2. Cardinality(Requests) = MaxRequests
    BY FS_Interval DEF Requests
  <2>3. Cardinality(SpentIn(s, w) \cup {r}) <= MaxRequests
    BY <2>1, <2>2, FiniteRequests
  <2> QED
    BY <1>5, <2>1, <2>3, FiniteRequests
<1>8. counter[s][w] \in Counter /\ counter[s][w].count <= Cardinality(SpentIn(s, w))
  BY <1>1 DEF ChecksInv, CountInv, LimiterTypeOK
<1>9. counter[s][w].count \in Nat /\ counter[s][w].until \in Nat /\ now \in Nat
  BY <1>8 DEF Counter, ChecksInv, LimiterTypeOK, Times
<1>10. counter' = [counter EXCEPT ![s][w] = Incremented(request[r])]
  BY <1>2 DEF Count
<1>11. \/ /\ now < counter[s][w].until
          /\ Incremented(request[r]) = [counter[s][w] EXCEPT !.count = @ + 1]
       \/ /\ now >= counter[s][w].until
          /\ Incremented(request[r]) = [count |-> 1, until |-> Forever]
  BY <1>9 DEF Incremented
<1>12. \/ /\ now < counter[s][w].until
          /\ Incremented(request[r]).count = counter[s][w].count + 1
          /\ Incremented(request[r]).until = counter[s][w].until
       \/ /\ now >= counter[s][w].until
          /\ Incremented(request[r]).count = 1 /\ Incremented(request[r]).until = Forever
  BY <1>8, <1>11 DEF Counter
<1>13. Incremented(request[r]).count \in 1..(counter[s][w].count + 1)
  BY <1>9, <1>12
<1>14. Incremented(request[r]) \in Counter
  <2>1. counter[s][w].count + 1 \in 0..MaxRequests /\ 1 \in 0..MaxRequests /\ Forever \in 0..Forever
    BY <1>7, <1>8, <1>9 DEF Forever
  <2> QED
    BY <1>8, <1>11, <2>1 DEF Counter
<1> QED
  BY <1>1, <1>5, <1>6, <1>7, <1>8, <1>10, <1>12, <1>13, <1>14

LEMMA ExpiresFacts ==
    ASSUME ChecksInv, NEW r \in Requests, Expires(r), NEW s, s = request[r].store,
           NEW w, w = WindowOf(request[r])
    PROVE  /\ s \in Stores /\ w \in Windows /\ w = request[r].now \div Window
           /\ \A x \in Stores, y \in Windows :
                 /\ counter'[x][y].count = counter[x][y].count
                 /\ counter'[x][y].until = IF x = s /\ y = w THEN now + Window
                                                            ELSE counter[x][y].until
           /\ counter' \in [Stores -> [Windows -> Counter]]
<1>1. s \in Stores /\ w \in Windows /\ w = request[r].now \div Window
  BY CheckTyped, WindowTyped DEF ChecksInv
<1>2. counter' = [counter EXCEPT ![s][w].until = now + Window]
  BY DEF Expires
<1>3. counter \in [Stores -> [Windows -> Counter]] /\ counter[s][w] \in Counter
  BY <1>1 DEF ChecksInv, LimiterTypeOK
<1>4. now + Window \in 0..Forever
  BY DEF ChecksInv, LimiterTypeOK, Times, Forever
<1> DEFINE c == [counter[s][w] EXCEPT !.until = now + Window]
<1>5. c \in Counter /\ c.count = counter[s][w].count /\ c.until = now + Window
  BY <1>3, <1>4 DEF Counter
<1>6. counter' = [counter EXCEPT ![s][w] = c]
  BY <1>2
<1> HIDE DEF c
<1>7. /\ counter' \in [Stores -> [Windows -> Counter]]
      /\ \A x \in Stores, y \in Windows :
            counter'[x][y] = IF x = s /\ y = w THEN c ELSE counter[x][y]
  BY <1>1, <1>3, <1>5, <1>6
<1>8. \A x \in Stores, y \in Windows :
         /\ counter'[x][y].count = counter[x][y].count
         /\ counter'[x][y].until = IF x = s /\ y = w THEN now + Window ELSE counter[x][y].until
  BY <1>5, <1>7
<1> QED
  BY <1>1, <1>7, <1>8

LEMMA CountKept ==
    ASSUME ChecksInv, [LimiterNext]_limiterVars
    PROVE  CountInv' /\ counter' \in [Stores -> [Windows -> Counter]]
<1>1. counter \in [Stores -> [Windows -> Counter]]
  BY DEF ChecksInv, LimiterTypeOK
<1>2. \A s \in Stores, w \in Windows : /\ counter[s][w].count \in Nat
                                       /\ Cardinality(SpentIn(s, w)) \in Nat
                                       /\ Cardinality(SpentIn(s, w)') \in Nat
  <2>1. \A s, w : SpentIn(s, w) \in SUBSET Requests /\ SpentIn(s, w)' \in SUBSET Requests
    BY DEF SpentIn
  <2>2. \A s \in Stores, w \in Windows : counter[s][w] \in Counter
    BY <1>1
  <2> QED
    BY <2>1, <2>2, FiniteRequests DEF Counter
<1>3. ASSUME \A s \in Stores, w \in Windows : counter'[s][w].count = counter[s][w].count
      PROVE  CountInv'
  <2>1. ASSUME NEW s \in Stores, NEW w \in Windows
        PROVE  counter'[s][w].count <= Cardinality(SpentIn(s, w)')
    <3>1. counter[s][w].count <= Cardinality(SpentIn(s, w))
      BY DEF ChecksInv, CountInv
    <3>2. Cardinality(SpentIn(s, w)) <= Cardinality(SpentIn(s, w)')
      BY SpentKept
    <3> QED
      BY <1>2, <1>3, <3>1, <3>2
  <2> QED
    BY <2>1 DEF CountInv
<1>4. ASSUME NEW r \in Requests, Counts(r)
      PROVE  CountInv' /\ counter' \in [Stores -> [Windows -> Counter]]
  <2>0. PICK s, w : s = request[r].store /\ w = WindowOf(request[r])
    OBVIOUS
  <2>1. /\ s \in Stores /\ w \in Windows
        /\ counter' = [counter EXCEPT ![s][w] = Incremented(request[r])]
        /\ Incremented(request[r]) \in Counter
        /\ Incremented(request[r]).count \in 1..(counter[s][w].count + 1)
        /\ Cardinality(SpentIn(s, w)') = Cardinality(SpentIn(s, w)) + 1
    BY <1>4, <2>0, CountsFacts
  <2>2. /\ counter' \in [Stores -> [Windows -> Counter]]
        /\ \A x \in Stores, y \in Windows :
              counter'[x][y] = IF x = s /\ y = w THEN Incremented(request[r]) ELSE counter[x][y]
    BY <1>1, <2>1
  <2>3. counter[s][w].count <= Cardinality(SpentIn(s, w))
    BY <2>1 DEF ChecksInv, CountInv
  <2>4. ASSUME NEW x \in Stores, NEW y \in Windows
        PROVE  counter'[x][y].count <= Cardinality(SpentIn(x, y)')
    <3>1. CASE x = s /\ y = w
      BY <1>2, <2>1, <2>2, <2>3, <3>1
    <3>2. CASE ~(x = s /\ y = w)
      <4>1. counter'[x][y] = counter[x][y]
        BY <2>2, <3>2
      <4>2. counter[x][y].count <= Cardinality(SpentIn(x, y))
        BY DEF ChecksInv, CountInv
      <4>3. Cardinality(SpentIn(x, y)) <= Cardinality(SpentIn(x, y)')
        BY SpentKept
      <4> QED
        BY <1>2, <4>1, <4>2, <4>3
    <3> QED
      BY <3>1, <3>2
  <2> QED
    BY <2>2, <2>4 DEF CountInv
<1>5. ASSUME NEW r \in Requests, Expires(r)
      PROVE  CountInv' /\ counter' \in [Stores -> [Windows -> Counter]]
  <2>0. PICK s, w : s = request[r].store /\ w = WindowOf(request[r])
    OBVIOUS
  <2> QED
    BY <1>3, <1>5, <2>0, ExpiresFacts
<1>6. ASSUME NEW r \in Requests, Begins(r) \/ Gets(r) \/ Writes(r) \/ Drops(r)
      PROVE  counter' = counter
  BY <1>6 DEF Begins, Gets, Writes, Drops
<1>7. counter' = counter => CountInv'
  BY <1>3
<1> QED
  BY <1>1, <1>4, <1>5, <1>6, <1>7, LimiterSteps DEF Rests

LEMMA ChecksKept ==
    ASSUME ChecksInv, [LimiterNext]_limiterVars
    PROVE  ChecksInv'
<1>1. LimiterTypeOK
  BY DEF ChecksInv
<1> DEFINE Histories == kept' \in [Stores -> Kept] /\ lost' \subseteq Requests
                        /\ late' \subseteq Requests /\ rewound' \in [Stores -> Nat]
<1>2. UNCHANGED <<kept, lost, late, rewound>> => Histories
  BY <1>1 DEF LimiterTypeOK
<1>3. ASSUME NEW r \in Requests, Writes(r) PROVE Histories
  <2>1. request[r].store \in Stores /\ Verdict(r).value \in Kept /\ Store(r) /\ late' = late
    BY <1>1, <1>3, CheckTyped, VerdictTyped DEF Writes
  <2>2. kept' \in [Stores -> Kept]
    BY <1>1, <2>1 DEF Store, LimiterTypeOK
  <2>3. lost' \subseteq Requests
    BY <1>1, <2>1 DEF Store, LimiterTypeOK, Spenders
  <2>4. rewound' \in [Stores -> Nat]
    <3>1. request[r].now \in Nat /\ request[r].read.last \in Nat
      BY <1>1, CheckTyped DEF Kept, Times
    <3>2. rewound[request[r].store] \in Nat
      BY <1>1, <2>1 DEF LimiterTypeOK
    <3>3. request[r].read.last > request[r].now =>
             rewound[request[r].store] + request[r].read.last - request[r].now \in Nat
      BY <3>1, <3>2
    <3> QED
      BY <1>1, <2>1, <3>3 DEF Store, LimiterTypeOK
  <2> QED
    BY <1>1, <2>1, <2>2, <2>3, <2>4 DEF LimiterTypeOK
<1>4. ASSUME NEW r \in Requests, Begins(r) \/ Gets(r) \/ Counts(r) \/ Expires(r) \/ Drops(r)
      PROVE  UNCHANGED <<kept, lost, rewound>> /\ (late' = late \/ late' = late \cup {r})
  BY <1>4 DEF Begins, Gets, Counts, Expires, Drops
<1>5. Histories
  BY <1>1, <1>2, <1>3, <1>4, LimiterSteps DEF Rests, LimiterTypeOK
<1>6. \A r \in Requests : Configured(request'[r]) \/ (strategy = "sliding" /\ request'[r].at = "new")
  <2> DEFINE Settled(q) == Configured(q) \/ (strategy = "sliding" /\ q.at = "new")
  <2>1. \A x \in Requests : Settled(request[x])
    BY <1>1 DEF LimiterTypeOK
  <2>2. ASSUME NEW r \in Requests, Begins(r) PROVE \A x \in Requests : Settled(request'[x])
    BY <1>1, <2>1, <2>2, TurnedTyped DEF Begins
  <2>3. ASSUME NEW r \in Requests, Gets(r) \/ Writes(r) \/ Counts(r) \/ Expires(r) \/ Drops(r)
        PROVE  \A x \in Requests : Settled(request'[x])
    <3>1. PICK rec \in Request : Advances(r, rec) /\ request[r].at # "new"
      BY <2>3 DEF Gets, Writes, Counts, Expires, Drops
    <3>2. Configured(request[r])
      BY <2>1, <3>1
    <3>3. Configured(rec)
      BY <3>1, <3>2 DEF Configured, Advances
    <3> QED
      BY <1>1, <2>1, <3>1, <3>3, TurnedTyped DEF Advances
  <2>4. Rests => \A x \in Requests : Settled(request'[x])
    BY <2>1 DEF Rests
  <2> QED
    BY <2>2, <2>3, <2>4, LimiterSteps
<1>7. \A r \in Requests : Configured(request[r])' \/ (strategy = "sliding" /\ request[r].at = "new")'
  BY <1>6, AllOnward DEF Configured, Limits
<1>8. LimiterTypeOK'
  BY <1>1, <1>5, <1>7, AllOnward, CountKept, LimiterSteps DEF LimiterTypeOK
<1> QED
  BY <1>8, CheckKept, CountKept DEF ChecksInv

LEMMA ChecksBegin ==
    ASSUME LimiterInit
    PROVE  ChecksInv
<1>1. Nothing \in Kept /\ 0 \in Times /\ 0 \in 0..Forever /\ 0 \in 0..MaxRequests /\ Redis \in Stores
  BY FS_EmptySet DEF Nothing, Kept, Times, Forever, Stores
<1>2. [at |-> "new", store |-> Redis, now |-> 0, limit |-> Limit, window |-> Window,
       read |-> Nothing, knew |-> {}, spent |-> FALSE] \in Request
  BY <1>1 DEF Request
<1>3. [count |-> 0, until |-> 0] \in Counter
  BY <1>1 DEF Counter
<1>4. LimiterTypeOK
  <2>1. \A r \in Requests : /\ request[r].limit = Limit /\ request[r].window = Window
                            /\ request[r].at = "new"
    BY DEF LimiterInit
  <2>2. strategy # "sliding" => \A r \in Requests : Configured(request[r])
    BY <2>1 DEF Configured, Limits
  <2> QED
    BY <1>1, <1>2, <1>3, <2>1, <2>2 DEF LimiterInit, LimiterTypeOK
<1>5. CheckInv
  BY DEF LimiterInit, CheckInv, Early
<1>6. CountInv
  <2>1. \A s, w : Cardinality(SpentIn(s, w)) \in Nat
    BY FiniteRequests DEF SpentIn
  <2> QED
    BY <2>1 DEF LimiterInit, CountInv
<1> QED
  BY <1>4, <1>5, <1>6 DEF ChecksInv

LEMMA AlwaysChecks == LimiterSpec => []ChecksInv
<1>1. LimiterInit => ChecksInv
  BY ChecksBegin
<1>2. ChecksInv /\ [LimiterNext]_limiterVars => ChecksInv'
  BY ChecksKept
<1> QED
  BY <1>1, <1>2, PTL DEF LimiterSpec

(* The windows of @repo/rate-limiter. *)
WindowInv(s, w) ==
    /\ Cardinality(LetIn(s, w)) <= Limit
    /\ now \div Window <= w =>
          /\ Cardinality(PromptIn(s, w)) <= counter[s][w].count
          /\ PromptIn(s, w) # {} => counter[s][w].until # 0
          /\ counter[s][w].until # 0 => (w + 1) * Window <= counter[s][w].until

LEMMA WindowFacts ==
    ASSUME ChecksInv
    PROVE  /\ now \in Nat
           /\ \A s \in Stores, w \in Windows :
                 /\ counter[s][w].count \in Nat /\ counter[s][w].until \in Nat
                 /\ w \in Nat /\ w * Window <= MaxTime /\ (w + 1) * Window <= Forever
                 /\ (w + 1) * Window \in Nat
                 /\ now \div Window <= w => now < (w + 1) * Window
           /\ \A s, w : /\ PromptIn(s, w) \in SUBSET Requests /\ LetIn(s, w) \subseteq PromptIn(s, w)
                        /\ Cardinality(PromptIn(s, w)) \in Nat /\ Cardinality(LetIn(s, w)) \in Nat
<1>1. now \in Nat
  BY DEF ChecksInv, LimiterTypeOK, Times
<1>2. \A s \in Stores, w \in Windows : counter[s][w].count \in Nat /\ counter[s][w].until \in Nat
  <2>1. \A s \in Stores, w \in Windows : counter[s][w] \in Counter
    BY DEF ChecksInv, LimiterTypeOK
  <2> QED
    BY <2>1 DEF Counter
<1>3. ASSUME NEW w \in Windows
      PROVE  /\ w \in Nat /\ w * Window <= MaxTime /\ (w + 1) * Window \in Nat
             /\ (w + 1) * Window <= Forever
             /\ now \div Window <= w => now < (w + 1) * Window
  <2>1. w \in Nat /\ w <= MaxTime \div Window /\ MaxTime \div Window \in Nat
    BY DEF Windows
  <2>2. w * Window <= (MaxTime \div Window) * Window /\ w * Window \in Nat
    BY <2>1, Arithmetic
  <2>3. (MaxTime \div Window) * Window <= MaxTime /\ (MaxTime \div Window) * Window \in Nat
    BY <2>1, Arithmetic
  <2>4. (w + 1) * Window = w * Window + Window
    BY <2>1
  <2>5. ASSUME now \div Window <= w PROVE now < (w + 1) * Window
    <3>1. now < (now \div Window + 1) * Window /\ now \div Window \in Nat
      BY <1>1, Arithmetic
    <3>2. (now \div Window + 1) * Window <= (w + 1) * Window
      BY <2>1, <2>5, <3>1, Arithmetic
    <3>3. (now \div Window + 1) * Window \in Nat /\ (w + 1) * Window \in Nat
      BY <2>1, <3>1, Arithmetic
    <3> QED
      BY <1>1, <3>1, <3>2, <3>3
  <2> QED
    BY <2>1, <2>2, <2>3, <2>4, <2>5 DEF Forever
<1>4. \A s, w : /\ PromptIn(s, w) \in SUBSET Requests /\ LetIn(s, w) \subseteq PromptIn(s, w)
                /\ Cardinality(PromptIn(s, w)) \in Nat /\ Cardinality(LetIn(s, w)) \in Nat
  <2>1. \A s, w : PromptIn(s, w) \in SUBSET Requests /\ LetIn(s, w) \in SUBSET Requests
    BY DEF PromptIn, LetIn, SpentIn
  <2>2. \A s, w : LetIn(s, w) \subseteq PromptIn(s, w)
    BY DEF LetIn
  <2> QED
    BY <2>1, <2>2, FiniteRequests
<1> QED
  BY <1>1, <1>2, <1>3, <1>4

(* Where nothing is counted and nobody let in, the window goes on as it was. *)
LEMMA WindowRests ==
    ASSUME ChecksInv, ChecksInv', now <= now', NEW s \in Stores, NEW w \in Windows, WindowInv(s, w),
           PromptIn(s, w)' = PromptIn(s, w), LetIn(s, w)' \subseteq LetIn(s, w),
           counter'[s][w].count = counter[s][w].count,
           \/ counter'[s][w].until = counter[s][w].until
           \/ /\ (w + 1) * Window <= counter'[s][w].until
    PROVE  WindowInv(s, w)'
<1>1. Cardinality(LetIn(s, w)') <= Cardinality(LetIn(s, w)) /\ Cardinality(LetIn(s, w)') \in Nat
  <2>1. LetIn(s, w)' \in SUBSET Requests /\ LetIn(s, w) \in SUBSET Requests
    BY DEF PromptIn, LetIn, SpentIn
  <2> QED
    BY <2>1, FiniteRequests, Zenon
<1>2. /\ now \in Nat /\ now' \in Nat /\ counter[s][w].until \in Nat /\ w \in Nat
      /\ Cardinality(LetIn(s, w)) \in Nat
  <2>1. now' \in Nat
    BY DEF ChecksInv, LimiterTypeOK, Times
  <2> QED
    BY <2>1, WindowFacts, Zenon
<1>3. Cardinality(LetIn(s, w)') <= Limit
  BY <1>1, <1>2 DEF WindowInv
<1>4. ASSUME now' \div Window <= w PROVE now \div Window <= w
  <2>1. now \div Window <= now' \div Window
    BY <1>2, Arithmetic
  <2>2. now \div Window \in Nat /\ now' \div Window \in Nat
    BY <1>2, Arithmetic
  <2>3. \A x, y, z \in Nat : x <= y /\ y <= z => x <= z
    OBVIOUS
  <2> QED
    BY <1>2, <1>4, <2>1, <2>2, <2>3, Zenon
<1>5. 0 < (w + 1) * Window /\ (w + 1) * Window \in Nat
  BY <1>2
<1>6. PICK over \in Nat : over = (w + 1) * Window
  BY <1>5
<1>7. ASSUME now' \div Window <= w
      PROVE  /\ Cardinality(PromptIn(s, w)') <= counter'[s][w].count
             /\ PromptIn(s, w)' # {} => counter'[s][w].until # 0
             /\ counter'[s][w].until # 0 => over <= counter'[s][w].until
  <2>1. /\ Cardinality(PromptIn(s, w)) <= counter[s][w].count
        /\ PromptIn(s, w) # {} => counter[s][w].until # 0
        /\ counter[s][w].until # 0 => over <= counter[s][w].until
    BY <1>4, <1>6, <1>7 DEF WindowInv
  <2>2. \/ counter'[s][w].until = counter[s][w].until
        \/ over <= counter'[s][w].until
    BY <1>6
  <2>3. 0 < over
    BY <1>5, <1>6
  <2> QED
    BY <1>2, <2>1, <2>2, <2>3
<1> QED
  BY <1>3, <1>6, <1>7 DEF WindowInv

LEMMA WindowCounts ==
    ASSUME ChecksInv, ChecksInv', NEW r \in Requests, Counts(r), WindowsInv
    PROVE  WindowsInv'
<1>0. PICK s, w, d : /\ s = request[r].store /\ w = WindowOf(request[r])
                     /\ d = Incremented(request[r])
  OBVIOUS
<1>c. PICK c : c = counter[s][w]
  OBVIOUS
<1>1. /\ s \in Stores /\ w \in Windows /\ w = request[r].now \div Window
      /\ r \notin SpentIn(s, w) /\ SpentIn(s, w)' = SpentIn(s, w) \cup {r}
      /\ counter' = [counter EXCEPT ![s][w] = d]
      /\ \/ now < c.until /\ d.count = c.count + 1 /\ d.until = c.until
         \/ now >= c.until /\ d.count = 1 /\ d.until = Forever
      /\ \A x, y : x # s \/ y # w => SpentIn(x, y)' = SpentIn(x, y)
  <2>1. /\ s \in Stores /\ w \in Windows /\ w = request[r].now \div Window
        /\ r \notin SpentIn(s, w) /\ SpentIn(s, w)' = SpentIn(s, w) \cup {r}
        /\ counter' = [counter EXCEPT ![s][w] = Incremented(request[r])]
    BY <1>0, CountsFacts
  <2>3. \A x, y : x # s \/ y # w => SpentIn(x, y)' = SpentIn(x, y)
    BY <1>0, CountsFacts
  <2>2. \/ now < c.until /\ d.count = c.count + 1 /\ d.until = c.until
        \/ now >= c.until /\ d.count = 1 /\ d.until = Forever
    BY <1>0, <1>c, CountsFacts
  <2> QED
    BY <1>0, <2>1, <2>2, <2>3
<1>2. PICK rec \in Request :
        /\ Advances(r, rec) /\ request[r].at = "asking" /\ now' = now
        /\ rec.at \in {"counted", "admitted"} =>
              /\ d.count <= Limit
              /\ late' = IF now \div Window > w THEN late \cup {r} ELSE late
        /\ late' = late \/ late' = late \cup {r}
  <2>1. 1 <= Limit
    OBVIOUS
  <2> QED
    BY <2>1, <1>0, <1>1 DEF Counts
<1>3. \A x \in Requests : request'[x] = IF x = r THEN rec ELSE request[x]
  BY <1>2, TurnedTyped DEF Advances, ChecksInv
<1>4. counter \in [Stores -> [Windows -> Counter]]
  BY DEF ChecksInv, LimiterTypeOK
<1>5. \A x \in Stores, y \in Windows :
          counter'[x][y] = IF x = s /\ y = w THEN d ELSE counter[x][y]
  BY <1>1, <1>4
<1>6. ASSUME NEW x \in Stores, NEW y \in Windows, x # s \/ y # w
      PROVE  WindowInv(x, y)'
  <2>1. r \notin SpentIn(x, y)
    <3>1. ~request[r].spent
      BY <1>2 DEF ChecksInv, CheckInv, Early
    <3> QED
      BY <3>1 DEF SpentIn
  <2>2. SpentIn(x, y)' = SpentIn(x, y)
    BY <1>1, <1>6
  <2>3. PromptIn(x, y)' = PromptIn(x, y)
    BY <1>2, <2>1, <2>2 DEF PromptIn
  <2>4. PromptIn(x, y) \subseteq Requests \ {r}
    BY <2>1 DEF PromptIn, SpentIn
  <2>5. LetIn(x, y)' = LetIn(x, y)
    BY <1>3, <2>3, <2>4 DEF LetIn
  <2>6. counter'[x][y] = counter[x][y] /\ WindowInv(x, y) /\ now <= now'
    BY <1>2, <1>5, <1>6, WindowFacts DEF WindowsInv, WindowInv
  <2> QED
    BY <2>3, <2>5, <2>6, WindowRests
<1>7. WindowInv(s, w)'
  <2> DEFINE open == now \div Window <= w
  <2>1. /\ c.count \in Nat /\ c.until \in Nat /\ now \in Nat /\ w \in Nat
        /\ (w + 1) * Window \in Nat /\ (w + 1) * Window <= Forever
        /\ open => now < (w + 1) * Window
        /\ PromptIn(s, w) \in SUBSET Requests /\ LetIn(s, w) \subseteq PromptIn(s, w)
        /\ Cardinality(PromptIn(s, w)) \in Nat /\ Cardinality(LetIn(s, w)) \in Nat
        /\ LetIn(s, w)' \in SUBSET Requests /\ PromptIn(s, w)' \in SUBSET Requests
        /\ Forever \in Nat
    <3>1. LetIn(s, w)' \in SUBSET Requests /\ PromptIn(s, w)' \in SUBSET Requests /\ Forever \in Nat
      BY DEF Forever, LetIn, PromptIn, SpentIn
    <3> HIDE DEF open
    <3>2. open => now < (w + 1) * Window
      BY <1>1, WindowFacts DEF open
    <3> QED
      BY <1>1, <1>c, <3>1, <3>2, WindowFacts
  <2>2. /\ Cardinality(LetIn(s, w)) <= Limit
        /\ open => /\ Cardinality(PromptIn(s, w)) <= c.count
                   /\ PromptIn(s, w) # {} => c.until # 0
                   /\ c.until # 0 => (w + 1) * Window <= c.until
    BY <1>1, <1>c DEF WindowsInv
  <2> HIDE DEF open
  <2>3. PromptIn(s, w)' \subseteq PromptIn(s, w) \cup {r}
    BY <1>1, <1>2 DEF PromptIn
  <2>4. LetIn(s, w)' \subseteq LetIn(s, w) \cup {r}
    <3>1. \A x \in PromptIn(s, w) : x \in Requests
      BY <2>1
    <3> QED
      BY <1>3, <2>3, <3>1 DEF LetIn
  <2>5. Cardinality(PromptIn(s, w)') <= Cardinality(PromptIn(s, w)) + 1
    <3>1. /\ PromptIn(s, w) \cup {r} \in SUBSET Requests
          /\ Cardinality(PromptIn(s, w) \cup {r}) <= Cardinality(PromptIn(s, w)) + 1
      BY <2>1, FiniteRequests
    <3>2. Cardinality(PromptIn(s, w)') <= Cardinality(PromptIn(s, w) \cup {r})
      BY <2>1, <2>3, <3>1, FiniteRequests
    <3>3. Cardinality(PromptIn(s, w)') \in Nat /\ Cardinality(PromptIn(s, w) \cup {r}) \in Nat
      BY <2>1, <3>1, FiniteRequests
    <3> QED
      BY <2>1, <3>1, <3>2, <3>3
  <2>6. open /\ now >= c.until => PromptIn(s, w) = {}
    <3>1. PICK over \in Nat : over = (w + 1) * Window
      BY <2>1
    <3> QED
      BY <2>1, <2>2, <3>1
  <2>7. open => Cardinality(PromptIn(s, w)') <= d.count
    <3>1. Cardinality({}) = 0
      BY FS_EmptySet
    <3>2. Cardinality(PromptIn(s, w)') \in Nat
      BY <2>1, FiniteRequests
    <3>3. CASE open /\ now < c.until
      <4>1. Cardinality(PromptIn(s, w)) <= c.count /\ d.count = c.count + 1
        BY <1>1, <2>1, <2>2, <3>3
      <4> QED
        BY <2>1, <2>5, <3>2, <4>1
    <3>4. CASE open /\ now >= c.until
      <4>1. PromptIn(s, w) = {}
        BY <2>6, <3>4, Zenon
      <4>2. Cardinality(PromptIn(s, w)) = 0
        BY <3>1, <4>1
      <4>3. d.count = 1
        BY <1>1, <2>1, <3>4
      <4> QED
        BY <2>5, <3>2, <4>2, <4>3
    <3> QED
      BY <2>1, <3>3, <3>4
  <2>8. Cardinality(LetIn(s, w)') <= Limit
    <3>1. CASE r \in LetIn(s, w)'
      <4>1. rec.at \in {"counted", "admitted"} /\ r \notin late'
        BY <1>3, <3>1 DEF LetIn, PromptIn
      <4>2. open /\ d.count <= Limit
        <5>1. ~(now \div Window > w)
          BY <1>2, <4>1
        <5>2. now \div Window \in Nat
          BY <2>1, Arithmetic
        <5> QED
          BY <1>2, <2>1, <4>1, <5>1, <5>2 DEF open
      <4>3. LetIn(s, w)' \subseteq PromptIn(s, w)'
        BY DEF LetIn
      <4>4. Cardinality(LetIn(s, w)') <= Cardinality(PromptIn(s, w)')
        BY <2>1, <4>3, FiniteRequests
      <4>5. Cardinality(LetIn(s, w)') \in Nat /\ Cardinality(PromptIn(s, w)') \in Nat
        BY <2>1, FiniteRequests
      <4>6. d.count \in Nat
        BY <1>1, <2>1
      <4> QED
        BY <2>7, <4>2, <4>4, <4>5, <4>6
    <3>2. CASE r \notin LetIn(s, w)'
      <4>1. LetIn(s, w)' \subseteq LetIn(s, w) /\ LetIn(s, w) \in SUBSET Requests
        BY <2>1, <2>4, <3>2
      <4>2. Cardinality(LetIn(s, w)') <= Cardinality(LetIn(s, w)) /\ Cardinality(LetIn(s, w)') \in Nat
        BY <2>1, <4>1, FiniteRequests
      <4> QED
        BY <2>1, <2>2, <4>2
    <3> QED
      BY <3>1, <3>2
  <2>9. open => d.until # 0 /\ (w + 1) * Window <= d.until
    BY <1>1, <2>1, <2>2
  <2>10. counter'[s][w] = d
    BY <1>1, <1>5
  <2> QED
    BY <1>2, <2>7, <2>8, <2>9, <2>10 DEF WindowInv, open
<1> QED
  BY <1>6, <1>7 DEF WindowsInv, WindowInv

LEMMA WindowsKept ==
    ASSUME ChecksInv, ChecksInv', [LimiterNext]_limiterVars, strategy = "fixed", WindowsInv
    PROVE  WindowsInv'
<1>1. now <= now' /\ now \in Nat
  BY AllOnward, WindowFacts
<1>2. ASSUME \A s \in Stores, w \in Windows :
                /\ PromptIn(s, w)' = PromptIn(s, w) /\ LetIn(s, w)' \subseteq LetIn(s, w)
                /\ counter'[s][w].count = counter[s][w].count
                /\ \/ counter'[s][w].until = counter[s][w].until
                   \/ (w + 1) * Window <= counter'[s][w].until
      PROVE  WindowsInv'
  <2>1. \A s \in Stores, w \in Windows : WindowInv(s, w)
    BY DEF WindowsInv, WindowInv
  <2>2. \A s \in Stores, w \in Windows : WindowInv(s, w)'
    BY <1>1, <1>2, <2>1, WindowRests
  <2> QED
    BY <2>2 DEF WindowsInv, WindowInv
<1>3. ASSUME NEW r \in Requests, NEW rec \in Request, Turns(r, rec), late' = late,
             request[r].spent = rec.spent,
             rec.spent => rec.store = request[r].store /\ rec.now = request[r].now,
             request[r].at \in {"admitted", "counted"} \/ rec.at \notin {"admitted", "counted"}
      PROVE  \A s, w : PromptIn(s, w)' = PromptIn(s, w) /\ LetIn(s, w)' \subseteq LetIn(s, w)
  <2>1. \A x \in Requests : request'[x] = IF x = r THEN rec ELSE request[x]
    BY <1>3, TurnedTyped DEF ChecksInv
  <2>2. \A s, w : SpentIn(s, w)' = SpentIn(s, w)
    BY <1>3, <2>1 DEF SpentIn
  <2>3. \A s, w : PromptIn(s, w)' = PromptIn(s, w)
    BY <1>3, <2>2 DEF PromptIn
  <2>4. \A s, w : PromptIn(s, w) \subseteq Requests
    BY DEF PromptIn, SpentIn
  <2> QED
    BY <1>3, <2>1, <2>3, <2>4 DEF LetIn
<1>4. ASSUME NEW r \in Requests, Begins(r) PROVE WindowsInv'
  <2>1. ~request[r].spent
    BY <1>4 DEF Begins, ChecksInv, CheckInv, Early
  <2>2. PICK rec \in Request : /\ Turns(r, rec) /\ rec.at = "asking" /\ ~rec.spent
                               /\ UNCHANGED <<counter, late>>
    BY <1>4 DEF Begins
  <2>3. request[r].spent = rec.spent
    BY <2>1, <2>2, CheckTyped DEF Request, ChecksInv
  <2> QED
    BY <1>2, <1>3, <2>2, <2>3
<1>5. ASSUME NEW r \in Requests, Counts(r) PROVE WindowsInv'
  BY <1>5, WindowCounts
<1>6. ASSUME NEW r \in Requests, Expires(r) PROVE WindowsInv'
  <2>0. PICK s, w : s = request[r].store /\ w = WindowOf(request[r])
    OBVIOUS
  <2>1. /\ s \in Stores /\ w \in Windows /\ w = request[r].now \div Window
        /\ \A x \in Stores, y \in Windows :
              /\ counter'[x][y].count = counter[x][y].count
              /\ counter'[x][y].until = IF x = s /\ y = w THEN now + Window
                                                         ELSE counter[x][y].until
    BY <1>6, <2>0, ExpiresFacts
  <2>2. (w + 1) * Window <= now + Window
    <3>1. request[r].now \in Nat /\ request[r].now <= now
      BY CheckTyped DEF Times, ChecksInv, CheckInv
    <3>2. w * Window <= request[r].now /\ w \in Nat
      BY <2>1, <3>1, Arithmetic
    <3>3. (w + 1) * Window = w * Window + Window /\ w * Window \in Nat
      BY <3>2, Arithmetic
    <3> QED
      BY <1>1, <3>1, <3>2, <3>3
  <2>3. \A x, y : PromptIn(x, y)' = PromptIn(x, y) /\ LetIn(x, y)' \subseteq LetIn(x, y)
    BY <1>3, <1>6 DEF Expires, Advances
  <2> QED
    BY <1>2, <2>1, <2>2, <2>3
<1>7. ASSUME NEW r \in Requests, Drops(r) PROVE WindowsInv'
  <2>1. \A x, y : PromptIn(x, y)' = PromptIn(x, y) /\ LetIn(x, y)' \subseteq LetIn(x, y)
    BY <1>3, <1>7 DEF Drops, Advances
  <2> QED
    BY <1>2, <1>7, <2>1 DEF Drops
<1>8. CASE Rests
  <2>1. \A x, y : PromptIn(x, y)' = PromptIn(x, y) /\ LetIn(x, y)' = LetIn(x, y)
    BY <1>8 DEF Rests, PromptIn, LetIn, SpentIn
  <2> QED
    BY <1>2, <1>8, <2>1 DEF Rests
<1>9. ASSUME NEW r \in Requests, Gets(r) \/ Writes(r) PROVE FALSE
  BY <1>9 DEF Gets, Writes
<1> QED
  BY <1>4, <1>5, <1>6, <1>7, <1>8, <1>9, LimiterSteps

(* The two steps of the middleware's checks, for the log and for the bucket. *)
Quiet(r) == Begins(r) \/ Gets(r) \/ Drops(r)

LEMMA GoodFacts ==
    ASSUME ChecksInv
    PROVE  \A s : /\ Good(s) \subseteq Spenders(s) /\ Spenders(s) \subseteq Requests
                  /\ \A x \in Spenders(s) : /\ request[x].at \notin Early /\ request[x].store = s
                                            /\ Stamp(x) \in Nat /\ Stamp(x) <= now
                                            /\ Stamp(x) \in Times
<1>1. \A x \in Requests : Stamp(x) \in Times /\ Stamp(x) <= now
  BY CheckTyped DEF Stamp, ChecksInv, CheckInv
<1> QED
  BY <1>1 DEF Good, Admitted, Spenders, ChecksInv, CheckInv, Early, Times

LEMMA QuietFacts ==
    ASSUME ChecksInv, strategy # "fixed", NEW r \in Requests, Quiet(r)
    PROVE  /\ \A s : Good(s)' = Good(s) /\ Spenders(s)' = Spenders(s)
           /\ \A x \in Requests \ {r} : request'[x] = request[x]
           /\ request'[r].at = "deciding" => Gets(r)
           /\ request'[r].at \notin {"admitted", "refused"}
           /\ late \subseteq late' /\ UNCHANGED <<now, kept, lost, rewound, strategy>>
<1>1. PICK rec \in Request :
        /\ Turns(r, rec) /\ ~rec.spent /\ rec.at \notin {"admitted", "refused"}
        /\ rec.at = "deciding" => Gets(r)
        /\ late' = late \/ late' = late \cup {r}
        /\ UNCHANGED <<now, kept, lost, rewound, strategy>>
        /\ request[r].at \in {"new", "asking", "deciding", "counted"}
  <2>1. CASE Begins(r)
    BY <2>1 DEF Begins
  <2>2. CASE Gets(r)
    BY <2>2 DEF Gets, Advances
  <2>3. CASE Drops(r)
    BY <2>3 DEF Drops, Advances, ChecksInv, CheckInv, Early
  <2> QED
    BY <2>1, <2>2, <2>3 DEF Quiet
<1>2. \A x \in Requests : request'[x] = IF x = r THEN rec ELSE request[x]
  BY <1>1, TurnedTyped DEF ChecksInv
<1>3. ~request[r].spent
  BY <1>1 DEF ChecksInv, CheckInv, Early
<1>4. \A s : Spenders(s)' = Spenders(s)
  BY <1>1, <1>2, <1>3 DEF Spenders
<1>5. \A s : Good(s)' = Good(s)
  BY <1>1, <1>2 DEF Good, Admitted
<1> QED
  BY <1>1, <1>2, <1>4, <1>5

LEMMA WritesFacts ==
    ASSUME ChecksInv, NEW r \in Requests, Writes(r), NEW s, s = request[r].store
    PROVE  /\ s \in Stores /\ now' = now /\ late' = late /\ strategy' = strategy
           /\ Good(s)' \subseteq (Good(s) \cap request[r].knew) \cup {r}
           /\ r \in Good(s)' => Verdict(r).ok /\ r \notin late
           /\ \A z : z # s => Good(z)' \subseteq Good(z)
           /\ \A z : Spenders(z) \subseteq Spenders(z)'
           /\ \A z \in Stores : kept'[z] = IF z = s THEN Verdict(r).value ELSE kept[z]
           /\ rewound' = IF strategy = "bucket" /\ request[r].read.last > request[r].now
                           THEN [rewound EXCEPT ![s] = @ + request[r].read.last - request[r].now]
                           ELSE rewound
           /\ r \notin Spenders(s) /\ r \notin Good(s)
           /\ Verdict(r).ok => r \in Spenders(s)'
           /\ \A x \in Requests \ {r} : request'[x] = request[x]
           /\ request'[r].at \in Ended /\ Stamp(r)' = Stamp(r) /\ request'[r].store = s
           /\ request'[r].limit = request[r].limit
           /\ request'[r].at = "refused" => ~Verdict(r).ok
<1>1. PICK rec \in Request :
        /\ Advances(r, rec) /\ request[r].at = "deciding" /\ rec.at \in Ended
        /\ rec.at = "admitted" => Verdict(r).ok
        /\ rec.at = "refused" => ~Verdict(r).ok
        /\ rec.spent = Verdict(r).ok
        /\ Store(r) /\ UNCHANGED <<strategy, now, counter, late>>
  BY DEF Writes
<1>2. \A x \in Requests : request'[x] = IF x = r THEN rec ELSE request[x]
  BY <1>1, TurnedTyped DEF ChecksInv, Advances
<1>3. ~request[r].spent /\ s \in Stores /\ rec.store = s /\ rec.now = request[r].now
  BY <1>1, CheckTyped DEF ChecksInv, CheckInv, Early, Advances
<1>4. lost' = lost \cup (Spenders(s) \ request[r].knew)
  BY <1>1 DEF Store
<1>5. r \notin Spenders(s) /\ r \notin Good(s)
  BY <1>1, <1>3 DEF Spenders, Good, Admitted
<1>6. Good(s)' \subseteq (Good(s) \cap request[r].knew) \cup {r}
  <2>1. ASSUME NEW x \in Good(s)', x # r PROVE x \in Good(s) /\ x \in request[r].knew
    <3>1. x \in Good(s)
      BY <1>1, <1>2, <1>4, <2>1 DEF Good, Admitted
    <3>2. x \in Spenders(s) /\ x \notin lost'
      BY <2>1, <3>1, GoodFacts DEF Good
    <3> QED
      BY <1>4, <3>1, <3>2
  <2> QED
    BY <2>1
<1>7. r \in Good(s)' => Verdict(r).ok /\ r \notin late
  BY <1>1, <1>2 DEF Good, Admitted
<1>8. \A z : z # s => Good(z)' \subseteq Good(z)
  BY <1>1, <1>2, <1>3, <1>4 DEF Good, Admitted
<1>9. \A z : Spenders(z) \subseteq Spenders(z)'
  BY <1>2, <1>3 DEF Spenders
<1>10. \A z \in Stores : kept'[z] = IF z = s THEN Verdict(r).value ELSE kept[z]
  <2>1. kept \in [Stores -> Kept] /\ kept' = [kept EXCEPT ![s] = Verdict(r).value]
    BY <1>1 DEF ChecksInv, LimiterTypeOK, Store
  <2> QED
    BY <2>1
<1>11. rewound' = IF strategy = "bucket" /\ request[r].read.last > request[r].now
                    THEN [rewound EXCEPT ![s] = @ + request[r].read.last - request[r].now]
                    ELSE rewound
  BY <1>1 DEF Store
<1>12. Verdict(r).ok => r \in Spenders(s)'
  BY <1>1, <1>2, <1>3 DEF Spenders
<1>13. request'[r] = rec /\ rec.limit = request[r].limit
  BY <1>1, <1>2 DEF Advances
<1> QED
  BY <1>1, <1>2, <1>3, <1>5, <1>6, <1>7, <1>8, <1>9, <1>10, <1>11, <1>12, <1>13 DEF Stamp

LEMMA StampKept ==
    ASSUME ChecksInv, [LimiterNext]_limiterVars, NEW x \in Requests, request[x].at # "new"
    PROVE  Stamp(x)' = Stamp(x)
  BY AllOnward DEF Onward, Stamp

(* Who shares a log goes on doing so, and never by another window. *)
LEMMA BegunKept ==
    ASSUME ChecksInv, [LimiterNext]_limiterVars, NEW s
    PROVE  \A y \in Begun(s) : /\ y \in Begun(s)' /\ Stamp(y)' = Stamp(y)
                              /\ request'[y].window = request[y].window
                              /\ request[y].window \in Nat \ {0} /\ Stamp(y) \in Nat
                              /\ y \in Requests
<1> SUFFICES ASSUME NEW y \in Requests, request[y].at # "new", request[y].store = s
             PROVE  /\ y \in Begun(s)' /\ Stamp(y)' = Stamp(y)
                    /\ request'[y].window = request[y].window
                    /\ request[y].window \in Nat \ {0} /\ Stamp(y) \in Nat
  BY DEF Begun
<1>1. request[y].window \in Nat \ {0} /\ Stamp(y) \in Nat
  BY CheckTyped DEF ChecksInv, Stamp, Times
<1>2. /\ request'[y].at # "new" /\ request'[y].store = s
      /\ request'[y].window = request[y].window /\ request'[y].now = request[y].now
  BY AllOnward DEF Onward
<1> QED
  BY <1>1, <1>2 DEF Begun, Stamp

(* Near only becomes rarer. *)
LEMMA NearBefore ==
    ASSUME ChecksInv, [LimiterNext]_limiterVars, NEW s, NEW x, Stamp(x)' = Stamp(x), NEW t,
           Near(s, x, t)'
    PROVE  Near(s, x, t)
<1> SUFFICES ASSUME NEW y \in Begun(s) PROVE t < Stamp(x) + request[y].window
  BY DEF Near
<1>1. y \in Begun(s)' /\ request'[y].window = request[y].window
  BY BegunKept
<1>2. t < Stamp(x)' + request'[y].window
  BY <1>1 DEF Near
<1> QED
  BY <1>1, <1>2

LEMMA PassedKept ==
    ASSUME ChecksInv, [LimiterNext]_limiterVars, NEW s, NEW x \in Requests,
           request[x].at # "new", PassedBy(s, x)
    PROVE  PassedBy(s, x)'
<1>1. Stamp(x)' = Stamp(x) /\ Stamp(x) \in Nat
  BY StampKept, CheckTyped DEF Stamp, Times, ChecksInv
<1>2. now \in Nat /\ now' \in Nat /\ now <= now'
  BY AllOnward DEF ChecksInv, LimiterTypeOK, Times
<1>3. ASSUME NEW y \in Begun(s), Stamp(x) + 2 * request[y].window <= now
      PROVE  PassedBy(s, x)'
  <2>1. y \in Begun(s)' /\ request'[y].window = request[y].window /\ request[y].window \in Nat
    BY BegunKept
  <2>2. Stamp(x)' + 2 * request'[y].window <= now'
    BY <1>1, <1>2, <1>3, <2>1
  <2> QED
    BY <2>1, <2>2 DEF PassedBy
<1>4. ASSUME NEW y \in Begun(s), request[y].at \in Ended,
             Stamp(x) + request[y].window <= Stamp(y)
      PROVE  PassedBy(s, x)'
  <2>1. y \in Requests /\ y \in Begun(s)'
    BY BegunKept
  <2>2. request'[y] = request[y]
    BY <1>4, <2>1, AllOnward DEF Onward, Ended
  <2>3. Stamp(y)' = Stamp(y)
    BY <2>2 DEF Stamp
  <2>4. request'[y].at \in Ended /\ Stamp(x)' + request'[y].window <= Stamp(y)'
    BY <1>1, <1>4, <2>2, <2>3
  <2> QED
    BY <2>1, <2>4 DEF PassedBy
<1> QED
  BY <1>3, <1>4 DEF PassedBy

(* The log of a store, and what a check knows of it. *)
LogOf(s) ==
    /\ kept[s].log \subseteq Spenders(s)
    /\ \A x \in kept[s].log :
          \E y \in Begun(s) : Stamp(x) + 2 * request[y].window <= kept[s].until
    /\ \A x \in Good(s) : x \in kept[s].log \/ PassedBy(s, x)

ReadOf(r) ==
    request[r].at = "deciding" =>
        /\ request[r].read.log \subseteq Spenders(request[r].store)
        /\ \A x \in Good(request[r].store) \cap request[r].knew :
              /\ x \in request[r].read.log \/ PassedBy(request[r].store, x)
              /\ r \notin late /\ Near(request[r].store, x, Stamp(r)) => x \in request[r].read.log

LEMMA LogParts == LogInv <=> (\A s \in Stores : LogOf(s)) /\ (\A r \in Requests : ReadOf(r))
  BY DEF LogInv, LogOf, ReadOf

LEMMA LogPartsNext == (\A s \in Stores : LogOf(s)') /\ (\A r \in Requests : ReadOf(r)') => LogInv'
  BY DEF LogInv, LogOf, ReadOf

(* A store whose log nobody writes, and which has no admission more. *)
LEMMA LogRests ==
    ASSUME ChecksInv, [LimiterNext]_limiterVars, NEW s \in Stores, LogOf(s), kept'[s] = kept[s],
           Good(s)' \subseteq Good(s), Spenders(s) \subseteq Spenders(s)'
    PROVE  LogOf(s)'
<1>1. \A x \in Spenders(s) : /\ x \in Requests /\ Stamp(x)' = Stamp(x) /\ request[x].at # "new"
  BY GoodFacts, StampKept DEF Early
<1>2. \A x \in Good(s) : x \in Spenders(s) /\ (PassedBy(s, x) => PassedBy(s, x)')
  BY <1>1, GoodFacts, PassedKept
<1>3. /\ kept[s].log \subseteq Spenders(s)
      /\ \A x \in kept[s].log :
            \E y \in Begun(s) : Stamp(x) + 2 * request[y].window <= kept[s].until
      /\ \A x \in Good(s) : x \in kept[s].log \/ PassedBy(s, x)
  BY DEF LogOf
<1>4. \A x \in kept[s].log :
         \E y \in Begun(s)' : Stamp(x)' + 2 * request'[y].window <= kept'[s].until
  BY <1>1, <1>3, BegunKept
<1>5. kept'[s].log \subseteq Spenders(s)'
      /\ \A x \in Good(s)' : x \in kept'[s].log \/ PassedBy(s, x)'
  BY <1>2, <1>3
<1> QED
  BY <1>4, <1>5 DEF LogOf

LEMMA ReadRests ==
    ASSUME ChecksInv, [LimiterNext]_limiterVars, NEW r \in Requests, ReadOf(r),
           request'[r] = request[r], late \subseteq late', NEW s, s = request[r].store,
           request[r].at = "deciding" => Good(s)' \cap request[r].knew \subseteq Good(s),
           Spenders(s) \subseteq Spenders(s)'
    PROVE  ReadOf(r)'
<1> SUFFICES ASSUME request[r].at = "deciding" PROVE ReadOf(r)'
  BY DEF ReadOf
<1>1. Stamp(r)' = Stamp(r)
  BY DEF Stamp
<1>2. \A x \in Good(s) : /\ x \in Requests /\ Stamp(x)' = Stamp(x)
                         /\ PassedBy(s, x) => PassedBy(s, x)'
  BY GoodFacts, StampKept, PassedKept DEF Early
<1>3. \A x \in Good(s) : Near(s, x, Stamp(r))' => Near(s, x, Stamp(r))
  <2> SUFFICES ASSUME NEW x \in Good(s), Near(s, x, Stamp(r))' PROVE Near(s, x, Stamp(r))
    OBVIOUS
  <2>1. Stamp(x)' = Stamp(x)
    BY <1>2
  <2> QED
    BY <1>1, <2>1, BegunKept DEF Near
<1>4. /\ request[r].read.log \subseteq Spenders(s)
      /\ \A x \in Good(s) \cap request[r].knew :
            /\ x \in request[r].read.log \/ PassedBy(s, x)
            /\ r \notin late /\ Near(s, x, Stamp(r)) => x \in request[r].read.log
  BY DEF ReadOf
<1>5. /\ request'[r].read.log \subseteq Spenders(s)'
      /\ \A x \in Good(s)' \cap request'[r].knew :
            /\ x \in request'[r].read.log \/ PassedBy(s, x)'
            /\ r \notin late' /\ Near(s, x, Stamp(r))' => x \in request'[r].read.log
  BY <1>2, <1>3, <1>4
<1>6. request'[r].store = s
  OBVIOUS
<1> QED
  BY <1>5, <1>6 DEF ReadOf

(* What a check reads. *)
LEMMA LogRead ==
    ASSUME ChecksInv, LogInv, strategy = "sliding", [LimiterNext]_limiterVars,
           NEW r \in Requests, Gets(r)
    PROVE  ReadOf(r)'
<1>0. PICK s : s = request[r].store
  OBVIOUS
<1>1. PICK rec \in Request :
        /\ Advances(r, rec) /\ rec.at = "deciding" /\ rec.read = Found(r) /\ rec.knew = Spenders(s)
        /\ late' = IF Overtaken(r) \/ Outlived(r) THEN late \cup {r} ELSE late
        /\ UNCHANGED <<now, kept>> /\ request[r].at = "asking"
  BY <1>0 DEF Gets
<1>2. request'[r] = rec /\ rec.store = s /\ Stamp(r)' = Stamp(r) /\ s \in Stores
      /\ Stamp(r) \in Nat /\ now \in Nat /\ kept[s] \in Kept /\ Stamp(r) = request[r].now
  BY <1>0, <1>1, TurnedTyped, CheckTyped DEF Advances, Stamp, ChecksInv, LimiterTypeOK, Times
<1>3. LogOf(s)
  BY <1>2, LogParts
<1>4. Good(s)' = Good(s) /\ Spenders(s)' = Spenders(s)
  BY QuietFacts DEF Quiet
<1>5. kept[s].until \in Nat
  BY <1>2 DEF Kept
<1>6. \/ now < kept[s].until /\ rec.read.log = kept[s].log
      \/ kept[s].until <= now /\ rec.read.log = {}
  BY <1>0, <1>1, <1>2, <1>5 DEF Found, Nothing
<1>7. rec.read.log \subseteq Spenders(s)
  BY <1>3, <1>6 DEF LogOf
<1>8. ASSUME NEW x \in Good(s) PROVE x \in rec.read.log \/ PassedBy(s, x)
  <2>1. CASE x \in kept[s].log
    <3>1. PICK y \in Begun(s) : Stamp(x) + 2 * request[y].window <= kept[s].until
      BY <1>3, <2>1 DEF LogOf
    <3>2. Stamp(x) \in Nat /\ request[y].window \in Nat
      BY <1>8, GoodFacts, BegunKept
    <3> QED
      BY <1>2, <1>5, <1>6, <2>1, <3>1, <3>2 DEF PassedBy
  <2>2. CASE PassedBy(s, x)
    BY <2>2
  <2> QED
    BY <1>3, <2>1, <2>2 DEF LogOf
<1>9. ASSUME NEW x \in Good(s), r \notin late', Near(s, x, Stamp(r))
      PROVE  x \in rec.read.log
  <2>1. ~Overtaken(r) /\ ~Outlived(r)
    BY <1>1, <1>9
  <2>2. Stamp(x) \in Nat
    BY <1>9, GoodFacts
  <2>3. ASSUME NEW y \in Begun(s) PROVE Stamp(x) + 2 * request[y].window > now
    <3>1. request[y].window \in Nat
      BY BegunKept
    <3>2. now < Stamp(r) + request[y].window
      BY <1>0, <1>2, <2>1, <3>1 DEF Outlived
    <3>3. Stamp(r) < Stamp(x) + request[y].window
      BY <1>9 DEF Near
    <3> QED
      BY <1>2, <2>2, <3>1, <3>2, <3>3
  <2>4. ASSUME NEW y \in Begun(s), request[y].at \in Ended,
               Stamp(x) + request[y].window <= Stamp(y)
        PROVE  FALSE
    <3>1. Stamp(y) \in Nat /\ request[y].window \in Nat /\ y \in Requests
      BY BegunKept
    <3>2. Stamp(r) < Stamp(x) + request[y].window
      BY <1>9 DEF Near
    <3>3. Stamp(r) < Stamp(y)
      BY <1>2, <2>2, <2>4, <3>1, <3>2
    <3>4. request[y].store = request[r].store
      BY <1>0 DEF Begun
    <3> QED
      BY <2>1, <2>4, <3>1, <3>3, <3>4 DEF Overtaken, Ended
  <2>5. ~PassedBy(s, x)
    <3>1. \A y \in Begun(s) : ~(Stamp(x) + 2 * request[y].window <= now)
      <4> SUFFICES ASSUME NEW y \in Begun(s) PROVE ~(Stamp(x) + 2 * request[y].window <= now)
        OBVIOUS
      <4>1. request[y].window \in Nat
        BY BegunKept
      <4> QED
        BY <1>2, <2>2, <2>3, <4>1
    <3> QED
      BY <2>4, <3>1 DEF PassedBy
  <2> QED
    BY <1>8, <2>5
<1>10. \A x \in Good(s) : /\ x \in Requests /\ Stamp(x)' = Stamp(x)
                          /\ PassedBy(s, x) => PassedBy(s, x)'
  BY GoodFacts, StampKept, PassedKept DEF Early
<1>11. \A x \in Good(s) : Near(s, x, Stamp(r))' => Near(s, x, Stamp(r))
  <2> SUFFICES ASSUME NEW x \in Good(s), Near(s, x, Stamp(r))' PROVE Near(s, x, Stamp(r))
    OBVIOUS
  <2>1. Stamp(x)' = Stamp(x)
    BY <1>10
  <2> QED
    BY <1>2, <2>1, BegunKept DEF Near
<1>12. \A x \in Good(s) : /\ x \in rec.read.log \/ PassedBy(s, x)'
                          /\ r \notin late' /\ Near(s, x, Stamp(r))' => x \in rec.read.log
  BY <1>8, <1>9, <1>10, <1>11
<1> QED
  BY <1>2, <1>4, <1>7, <1>12 DEF ReadOf

(* What a check writes. *)
LEMMA LogWritten ==
    ASSUME ChecksInv, LogInv, strategy = "sliding", [LimiterNext]_limiterVars,
           NEW r \in Requests, Writes(r), NEW s, s = request[r].store
    PROVE  LogOf(s)'
<1>1. /\ s \in Stores /\ now' = now
      /\ Good(s)' \subseteq (Good(s) \cap request[r].knew) \cup {r}
      /\ r \in Good(s)' => Verdict(r).ok
      /\ Spenders(s) \subseteq Spenders(s)'
      /\ kept'[s] = Verdict(r).value
      /\ Verdict(r).ok => r \in Spenders(s)'
      /\ request'[r].at \in Ended /\ Stamp(r)' = Stamp(r) /\ request'[r].store = s
  BY WritesFacts
<1>2. /\ Verdict(r) = Slide(r) /\ request[r].at = "deciding" /\ Stamp(r) = request[r].now
      /\ Stamp(r) \in Nat /\ Stamp(r) <= now /\ now \in Nat
  BY CheckTyped DEF Verdict, Writes, Stamp, ChecksInv, CheckInv, Times, LimiterTypeOK
<1>3. /\ kept'[s].log = IF Verdict(r).ok THEN Lately(r) \cup {r} ELSE Lately(r)
      /\ kept'[s].until = now + 2 * request[r].window
  <2>1. kept'[s] = Slide(r).value /\ Verdict(r).ok = Slide(r).ok
    BY <1>1, <1>2
  <2>2. /\ Slide(r).value.log = IF Slide(r).ok THEN Lately(r) \cup {r} ELSE Lately(r)
        /\ Slide(r).value.until = now + 2 * request[r].window
    BY SlideFacts
  <2> QED
    BY <2>1, <2>2, Zenon
<1>4. /\ request[r].read.log \subseteq Spenders(s)
      /\ \A x \in Good(s) \cap request[r].knew : x \in request[r].read.log \/ PassedBy(s, x)
  BY <1>2, LogParts DEF ReadOf
<1>5. kept'[s].log \subseteq Spenders(s)'
  BY <1>1, <1>3, <1>4 DEF Lately
<1>6. \A x \in Spenders(s) : Stamp(x)' = Stamp(x) /\ Stamp(x) \in Nat /\ Stamp(x) <= now
  BY GoodFacts, StampKept DEF Early
<1>r. r \in Begun(s) /\ r \in Begun(s)' /\ request'[r].window = request[r].window
      /\ request[r].window \in Nat
  <2>1. r \in Begun(s)
    BY <1>2 DEF Begun
  <2> QED
    BY <2>1, BegunKept
<1>7. \A x \in kept'[s].log :
         \E y \in Begun(s)' : Stamp(x)' + 2 * request'[y].window <= kept'[s].until
  <2>1. \A x \in Lately(r) \cup {r} : Stamp(x)' \in Nat /\ Stamp(x)' <= now
    BY <1>1, <1>2, <1>4, <1>6 DEF Lately
  <2>2. \A x \in kept'[s].log : Stamp(x)' + 2 * request'[r].window <= kept'[s].until
    BY <1>2, <1>3, <1>r, <2>1
  <2> QED
    BY <1>r, <2>2
<1>8. ASSUME NEW x \in Good(s)' PROVE x \in kept'[s].log \/ PassedBy(s, x)'
  <2>1. CASE x = r
    BY <1>1, <1>3, <2>1, <1>8
  <2>2. CASE x # r
    <3>1. x \in Good(s) \cap request[r].knew
      BY <1>1, <1>8, <2>2
    <3>2. x \in Requests /\ Stamp(x)' = Stamp(x) /\ Stamp(x) \in Nat /\ request[x].at # "new"
      BY <1>6, <3>1, GoodFacts DEF Early
    <3>3. CASE PassedBy(s, x)
      BY <3>2, <3>3, PassedKept
    <3>4. CASE x \in request[r].read.log /\ InWindow(x, r)
      BY <1>2, <1>3, <3>4 DEF Lately
    <3>5. CASE x \in request[r].read.log /\ ~InWindow(x, r)
      <4>1. Stamp(x) + request[r].window <= Stamp(r)
        BY <1>2, <1>r, <3>2, <3>5 DEF InWindow
      <4>2. Stamp(x)' + request'[r].window <= Stamp(r)'
        BY <1>1, <1>r, <3>2, <4>1
      <4> QED
        BY <1>1, <1>r, <4>2 DEF PassedBy
    <3> QED
      BY <1>4, <3>1, <3>3, <3>4, <3>5
  <2> QED
    BY <2>1, <2>2
<1> QED
  BY <1>5, <1>7, <1>8 DEF LogOf

LEMMA LogKept ==
    ASSUME ChecksInv, strategy = "sliding", [LimiterNext]_limiterVars, LogInv
    PROVE  LogInv'
<1>1. (\A s \in Stores : LogOf(s)) /\ (\A r \in Requests : ReadOf(r))
  BY LogParts
<1>2. ASSUME NEW r \in Requests, Quiet(r) PROVE LogInv'
  <2>1. \A s : Good(s)' = Good(s) /\ Spenders(s)' = Spenders(s)
    BY <1>2, QuietFacts
  <2>2. \A s \in Stores : LogOf(s)'
    BY <1>1, <1>2, <2>1, QuietFacts, LogRests
  <2>3. \A x \in Requests \ {r} : ReadOf(x)'
    <3>1. \A x \in Requests \ {r} : request'[x] = request[x] /\ late \subseteq late'
      BY <1>2, QuietFacts
    <3> QED
      BY <1>1, <2>1, <3>1, ReadRests
  <2>4. ReadOf(r)'
    <3>1. CASE request'[r].at = "deciding"
      BY <1>2, <3>1, QuietFacts, LogRead
    <3>2. CASE request'[r].at # "deciding"
      BY <3>2 DEF ReadOf
    <3> QED
      BY <3>1, <3>2
  <2> QED
    BY <2>2, <2>3, <2>4, LogPartsNext
<1>3. ASSUME NEW r \in Requests, Writes(r) PROVE LogInv'
  <2>0. PICK s : s = request[r].store
    OBVIOUS
  <2>1. /\ \A z : z # s => Good(z)' \subseteq Good(z)
        /\ \A z : Spenders(z) \subseteq Spenders(z)'
        /\ \A z \in Stores \ {s} : kept'[z] = kept[z]
        /\ Good(s)' \subseteq Good(s) \cup {r}
        /\ late' = late
        /\ \A x \in Requests \ {r} : request'[x] = request[x]
        /\ request'[r].at \in Ended
    BY <1>3, <2>0, WritesFacts
  <2>2. \A z \in Stores \ {s} : LogOf(z)'
    BY <1>1, <2>1, LogRests
  <2>3. LogOf(s)'
    BY <1>3, <2>0, LogWritten
  <2>4. ASSUME NEW x \in Requests \ {r} PROVE ReadOf(x)'
    <3>0. PICK z : z = request[x].store
      OBVIOUS
    <3>1. request[x].at = "deciding" => r \notin request[x].knew
      <4>1. ~request[r].spent
        BY <1>3 DEF Writes, ChecksInv, CheckInv, Early
      <4>2. \A y : r \notin Spenders(y)
        BY <4>1 DEF Spenders
      <4> QED
        BY <4>2 DEF ChecksInv, CheckInv
    <3>2. request[x].at = "deciding" => Good(z)' \cap request[x].knew \subseteq Good(z)
      BY <2>1, <3>1
    <3> QED
      BY <1>1, <2>1, <3>0, <3>2, ReadRests
  <2>5. ReadOf(r)'
    BY <2>1 DEF ReadOf, Ended
  <2> QED
    BY <2>2, <2>3, <2>4, <2>5, LogPartsNext
<1>4. CASE Rests
  <2>1. \A s : Good(s)' = Good(s) /\ Spenders(s)' = Spenders(s)
    BY <1>4 DEF Rests, Good, Admitted, Spenders
  <2>2. \A s \in Stores : LogOf(s)'
    BY <1>1, <1>4, <2>1, LogRests DEF Rests
  <2>3. \A x \in Requests : ReadOf(x)'
    BY <1>1, <1>4, <2>1, ReadRests DEF Rests
  <2> QED
    BY <2>2, <2>3, LogPartsNext
<1>5. ASSUME NEW r \in Requests, Counts(r) \/ Expires(r) PROVE FALSE
  BY <1>5 DEF Counts, Expires, ChecksInv, CheckInv
<1> QED
  BY <1>2, <1>3, <1>4, <1>5, LimiterSteps DEF Quiet

(* The admissions of which a time is in every window, on paths with a limit of l at most. *)
InSpan(s, t, l) == {x \in Good(s) : request[x].limit <= l /\ Stamp(x) <= t /\ Near(s, x, t)}

SpanInv == \A s \in Stores, t \in Times, l \in Nat : Cardinality(InSpan(s, t, l)) <= l

LEMMA SpanKept ==
    ASSUME ChecksInv, strategy = "sliding", [LimiterNext]_limiterVars, LogInv, SpanInv
    PROVE  SpanInv'
<1>1. \A s \in Stores, t \in Times, l \in Nat : Cardinality(InSpan(s, t, l)) <= l
  BY DEF SpanInv
<1>2. \A s, t, l : InSpan(s, t, l) \in SUBSET Requests /\ InSpan(s, t, l)' \in SUBSET Requests
  BY DEF InSpan, Good, Admitted
<1>3. ASSUME NEW s \in Stores, NEW t \in Times, NEW l \in Nat,
             InSpan(s, t, l)' \subseteq InSpan(s, t, l)
      PROVE  Cardinality(InSpan(s, t, l)') <= l
  <2>1. Cardinality(InSpan(s, t, l)') <= Cardinality(InSpan(s, t, l))
    BY <1>2, <1>3, FiniteRequests
  <2>2. Cardinality(InSpan(s, t, l)') \in Nat /\ Cardinality(InSpan(s, t, l)) \in Nat
    BY <1>2, FiniteRequests
  <2> QED
    BY <1>1, <2>1, <2>2
<1>4. \A s : \A x \in Good(s) : /\ Stamp(x)' = Stamp(x) /\ Stamp(x) \in Nat
                               /\ request'[x].limit = request[x].limit
  BY GoodFacts, StampKept, AllOnward DEF Early, Onward
<1>5. ASSUME NEW s \in Stores, Good(s)' \subseteq Good(s), NEW t \in Times, NEW l \in Nat
      PROVE  Cardinality(InSpan(s, t, l)') <= l
  BY <1>3, <1>4, <1>5, NearBefore DEF InSpan
<1>6. ASSUME NEW s \in Stores, NEW t \in Times, NEW l \in Nat PROVE Cardinality(InSpan(s, t, l)') <= l
  <2>1. ASSUME NEW r \in Requests, Quiet(r) PROVE Good(s)' \subseteq Good(s)
    BY <2>1, QuietFacts
  <2>2. CASE Rests
    BY <1>5, <2>2 DEF Rests, Good, Admitted
  <2>3. ASSUME NEW r \in Requests, Counts(r) \/ Expires(r) PROVE FALSE
    BY <2>3 DEF Counts, Expires, ChecksInv, CheckInv
  <2>4. ASSUME NEW r \in Requests, Writes(r), s # request[r].store PROVE Good(s)' \subseteq Good(s)
    BY <2>4, WritesFacts
  <2>5. ASSUME NEW r \in Requests, Writes(r), s = request[r].store
        PROVE  Cardinality(InSpan(s, t, l)') <= l
    <3>1. /\ Good(s)' \subseteq (Good(s) \cap request[r].knew) \cup {r}
          /\ r \in Good(s)' => Verdict(r).ok /\ r \notin late
          /\ Stamp(r)' = Stamp(r)
      BY <2>5, WritesFacts
    <3>2. CASE r \notin InSpan(s, t, l)'
      BY <1>3, <1>4, <3>1, <3>2, NearBefore DEF InSpan
    <3>3. CASE r \in InSpan(s, t, l)'
      <4>1. /\ Slide(r).ok /\ r \notin late /\ Stamp(r) <= t /\ Stamp(r) \in Nat /\ t \in Nat
            /\ request[r].at = "deciding" /\ Stamp(r) = request[r].now
            /\ request[r].read.log \in SUBSET Requests /\ r \in Begun(s)
        BY <2>5, <3>1, <3>3, CheckTyped
        DEF InSpan, Verdict, Writes, Stamp, Times, ChecksInv, Kept, Begun
      <4>l. request[r].limit \in Nat /\ request[r].limit <= l
        BY <2>5, <3>3, CheckTyped, WritesFacts DEF InSpan, ChecksInv
      <4>2. ASSUME NEW x \in InSpan(s, t, l)', x # r PROVE x \in Lately(r)
        <5>1. x \in Good(s) \cap request[r].knew /\ Stamp(x) \in Nat /\ Near(s, x, t)
          BY <1>4, <3>1, <4>2, NearBefore DEF InSpan
        <5>2. \A y \in Begun(s) : Stamp(r) < Stamp(x) + request[y].window
          <6> SUFFICES ASSUME NEW y \in Begun(s) PROVE Stamp(r) < Stamp(x) + request[y].window
            OBVIOUS
          <6>1. t < Stamp(x) + request[y].window /\ request[y].window \in Nat
            BY <5>1, BegunKept DEF Near
          <6> QED
            BY <4>1, <5>1, <6>1
        <5>3. Near(s, x, Stamp(r)) /\ InWindow(x, r)
          <6>1. request[r].window \in Nat
            BY <4>1, BegunKept
          <6> QED
            BY <4>1, <5>1, <5>2, <6>1 DEF Near, InWindow
        <5>4. x \in request[r].read.log
          BY <2>5, <4>1, <5>1, <5>3, LogParts DEF ReadOf
        <5> QED
          BY <5>3, <5>4 DEF Lately
      <4>3. InSpan(s, t, l)' \subseteq Lately(r) \cup {r}
        BY <4>2
      <4>4. Lately(r) \in SUBSET Requests /\ Lately(r) \cup {r} \in SUBSET Requests
        BY <4>1 DEF Lately
      <4>5. /\ Cardinality(InSpan(s, t, l)') <= Cardinality(Lately(r) \cup {r})
            /\ Cardinality(Lately(r) \cup {r}) <= Cardinality(Lately(r)) + 1
        <5>1. Cardinality(Lately(r)) \in Nat
          BY <4>4, FiniteRequests
        <5>2. Cardinality(Lately(r) \cup {r}) <= Cardinality(Lately(r)) + 1
          BY <4>4, <5>1, FiniteRequests
        <5>3. Cardinality(InSpan(s, t, l)') <= Cardinality(Lately(r) \cup {r})
          BY <1>2, <4>3, <4>4, FiniteRequests
        <5> QED
          BY <5>2, <5>3
      <4>6. /\ Cardinality(InSpan(s, t, l)') \in Nat /\ Cardinality(Lately(r)) \in Nat
            /\ Cardinality(Lately(r) \cup {r}) \in Nat
        BY <1>2, <4>4, FiniteRequests
      <4>7. Cardinality(Lately(r)) < request[r].limit
        BY <4>1, SlideFacts
      <4> QED
        BY <4>l, <4>5, <4>6, <4>7
    <3> QED
      BY <3>2, <3>3
  <2> QED
    BY <1>5, <2>1, <2>2, <2>3, <2>4, <2>5, LimiterSteps DEF Quiet
<1> QED
  BY <1>6 DEF SpanInv

(* The counts of a bucket's admissions. *)
Since(X, stamps, t) == {x \in X : t <= stamps[x]}

LEMMA Products ==
    /\ \A a, b \in Int : Limit * (a + b) = Limit * a + Limit * b
    /\ \A a, b \in Int : a <= b => Limit * a <= Limit * b /\ 0 <= Limit * (b - a)
    /\ \A a \in Int : Limit * a \in Int /\ Window * a \in Int
    /\ \A a, b \in Int : a <= b => Window * a <= Window * b
    /\ \A a \in Int : Window * (a + 1) = Window * a + Window
    /\ Full \in Nat /\ Window <= Full
<1>1. Window <= Limit * Window /\ Limit * Window \in Nat
  OBVIOUS
<1> QED
  BY <1>1 DEF Full

LEMMA WholeProducts ==
    \A a \in Int : Limit * a \in Int /\ Window * a \in Int
  OBVIOUS

LEMMA BackedOn ==
    ASSUME NEW X \in SUBSET Requests, NEW Y \in SUBSET Requests, Y \subseteq X,
           NEW stamps, NEW stampt, \A x \in Y : stampt[x] = stamps[x] /\ stamps[x] \in Nat,
           NEW h \in Int, NEW i \in Int, h <= i, NEW m \in Nat, NEW n \in Nat,
           n <= m + Limit * (i - h), n <= Full, Backed(X, stamps, h, m)
    PROVE  Backed(Y, stampt, i, n)
<1>1. \A x \in Y : stampt[x] <= i
  BY DEF Backed
<1>2. ASSUME NEW t \in 0..i
      PROVE  n + Window * Cardinality(Since(Y, stampt, t)) <= Limit * (Window + i - t)
  <2>1. Since(Y, stampt, t) \in SUBSET Requests /\ Since(X, stamps, t) \in SUBSET Requests
    BY DEF Since
  <2>2. PICK c \in Nat, d \in Nat : /\ c = Cardinality(Since(Y, stampt, t))
                                    /\ d = Cardinality(Since(X, stamps, t))
    BY <2>1, FiniteRequests
  <2>3. CASE t <= h
    <3>1. Since(Y, stampt, t) \subseteq Since(X, stamps, t)
      BY DEF Since
    <3>2. c <= d
      BY <2>1, <2>2, <3>1, FiniteRequests
    <3>3. m + Window * d <= Limit * (Window + h - t)
      BY <2>2, <2>3 DEF Backed, Since
    <3>4. Window * c <= Window * d
      BY <3>2, Products
    <3>5. Limit * (Window + i - t) = Limit * (Window + h - t) + Limit * (i - h)
      BY Products
    <3>6. /\ Window * c \in Int /\ Window * d \in Int /\ Limit * (Window + h - t) \in Int
          /\ Limit * (i - h) \in Int
      BY Products
    <3>7. n + Window * c <= Limit * (Window + i - t)
      BY <3>3, <3>4, <3>5, <3>6
    <3> QED
      BY <2>2, <3>7, Zenon
  <2>4. CASE h < t
    <3>1. Since(Y, stampt, t) = {}
      BY <2>4 DEF Backed, Since
    <3>2. c = 0
      BY <2>2, <3>1, FS_EmptySet
    <3>3. Full <= Limit * (Window + i - t) /\ Full \in Nat /\ Limit * (Window + i - t) \in Int
      BY Products DEF Full
    <3>4. Window * c = 0
      BY <3>2
    <3>5. n + Window * c <= Limit * (Window + i - t)
      BY <3>3, <3>4
    <3> QED
      BY <2>2, <3>5, Zenon
  <2> QED
    BY <2>3, <2>4
<1> QED
  BY <1>1, <1>2 DEF Backed, Since

LEMMA BackedAdd ==
    ASSUME NEW X \in SUBSET Requests, NEW r \in Requests, NEW stamps, NEW stampt,
           \A x \in X : stampt[x] = stamps[x] /\ stamps[x] \in Nat,
           NEW h \in Int, stampt[r] \in Nat, stampt[r] <= h,
           NEW m \in Nat, Window <= m, Backed(X, stamps, h, m)
    PROVE  Backed(X \cup {r}, stampt, h, m - Window)
<1>1. \A x \in X \cup {r} : stampt[x] <= h
  BY DEF Backed
<1>2. ASSUME NEW t \in 0..h
      PROVE  (m - Window) + Window * Cardinality(Since(X \cup {r}, stampt, t))
                <= Limit * (Window + h - t)
  <2>1. Since(X \cup {r}, stampt, t) \in SUBSET Requests /\ Since(X, stamps, t) \in SUBSET Requests
        /\ Since(X, stamps, t) \cup {r} \in SUBSET Requests
    BY DEF Since
  <2>2. PICK c \in Nat, d \in Nat : /\ c = Cardinality(Since(X \cup {r}, stampt, t))
                                    /\ d = Cardinality(Since(X, stamps, t))
    <3>1. /\ Cardinality(Since(X \cup {r}, stampt, t)) \in Nat
          /\ Cardinality(Since(X, stamps, t)) \in Nat
      BY <2>1, FiniteRequests, Zenon
    <3> QED
      BY <3>1, Zenon
  <2>3. Since(X \cup {r}, stampt, t) \subseteq Since(X, stamps, t) \cup {r}
    BY DEF Since
  <2>4. c <= d + 1
    <3>0. \A A, B \in SUBSET Requests : A \subseteq B => Cardinality(A) <= Cardinality(B)
      BY FiniteRequests
    <3>1. Cardinality(Since(X \cup {r}, stampt, t)) <= Cardinality(Since(X, stamps, t) \cup {r})
      BY <2>1, <2>3, <3>0, Zenon
    <3>2. Cardinality(Since(X, stamps, t) \cup {r}) \in {d, d + 1}
      BY <2>1, <2>2, FiniteRequests
    <3> QED
      BY <2>2, <3>1, <3>2
  <2>5. Window * c <= Window * d + Window
    <3>1. Window * c <= Window * (d + 1) /\ Window * (d + 1) = Window * d + Window
      BY <2>4, Products
    <3> QED
      BY <3>1
  <2>6. m + Window * d <= Limit * (Window + h - t)
    BY <2>2 DEF Backed, Since
  <2>7. Window * c \in Int /\ Window * d \in Int /\ Limit * (Window + h - t) \in Int
    <3>1. c \in Int /\ d \in Int /\ Window + h - t \in Int
      BY <2>2
    <3> QED
      BY <3>1, WholeProducts, Zenon
  <2>8. (m - Window) + Window * c <= Limit * (Window + h - t)
    BY <2>5, <2>6, <2>7
  <2> QED
    BY <2>2, <2>8
<1> QED
  BY <1>1, <1>2 DEF Backed, Since

LEMMA BackedNone ==
    ASSUME NEW stamps, NEW h \in Int
    PROVE  Backed({}, stamps, h, Full)
<1>1. ASSUME NEW t \in 0..h
      PROVE  Full + Window * Cardinality({x \in {} : t <= stamps[x]}) <= Limit * (Window + h - t)
  <2>1. {x \in {} : t <= stamps[x]} = {}
    OBVIOUS
  <2>2. Cardinality({}) = 0
    BY FS_EmptySet
  <2>3. Limit * Window <= Limit * (Window + h - t)
    BY Products
  <2>4. Limit * Window \in Int /\ Limit * (Window + h - t) \in Int /\ Window * 0 = 0
    BY Products
  <2> QED
    BY <2>1, <2>2, <2>3, <2>4 DEF Full
<1> QED
  BY <1>1 DEF Backed

LEMMA StampsKept ==
    ASSUME ChecksInv, [LimiterNext]_limiterVars, NEW x \in Requests
    PROVE  /\ Stamps[x] = Stamp(x) /\ Stamps'[x] = Stamp(x)' /\ Stamps[x] \in Nat
           /\ request[x].at # "new" => Stamps'[x] = Stamps[x]
<1>1. Stamps[x] = request[x].now /\ Stamps'[x] = request'[x].now
  BY DEF Stamps
<1>2. request[x].now \in Nat
  BY CheckTyped DEF Times, ChecksInv
<1>3. request[x].at # "new" => request'[x].now = request[x].now
  BY AllOnward DEF Onward
<1> QED
  BY <1>1, <1>2, <1>3 DEF Stamp

LEMMA KeptTyped ==
    ASSUME LimiterTypeOK, NEW s \in Stores
    PROVE  /\ kept[s].until \in Nat /\ kept[s].last \in Nat /\ kept[s].tokens \in Nat
           /\ kept[s].tokens <= Full /\ rewound[s] \in Nat /\ now \in Nat
           /\ Refill(s, kept[s]) \in Int /\ FullSince(s, kept[s]) \in Int
<1>1. kept[s] \in Kept /\ rewound[s] \in Nat /\ now \in Nat
  BY DEF LimiterTypeOK, Times
<1>2. Limit * Window \in Nat
  BY Products DEF Full
<1>3. /\ kept[s].until \in Nat /\ kept[s].last \in Nat /\ kept[s].tokens \in Nat
      /\ kept[s].tokens <= Full
  BY <1>1, <1>2 DEF Kept, Times, Full
<1> QED
  BY <1>1, <1>3 DEF Refill, FullSince

LEMMA ReadTyped ==
    ASSUME LimiterTypeOK, NEW r \in Requests
    PROVE  LET q == request[r]
           IN  /\ q.read.until \in Nat /\ q.read.last \in Nat /\ q.read.tokens \in Nat
               /\ q.read.tokens <= Full /\ q.now \in Nat
               /\ strategy # "sliding" => q.limit \in 1..Limit /\ q.window = Window
               /\ q.store \in Stores /\ rewound[q.store] \in Nat /\ now \in Nat
<1>1. request[r] \in Request /\ rewound[request[r].store] \in Nat /\ now \in Nat
  BY CheckTyped DEF LimiterTypeOK, Times
<1>2. Limit * Window \in Nat
  BY Products DEF Full
<1> QED
  BY <1>1, <1>2, CheckTyped DEF Kept, Times, Full

(* The bucket of a store, and what a check has read of it. *)
BucketOf(s) ==
    /\ kept[s].until <= now + 2 * Window
    /\ kept[s].until = 0 => Good(s) = {}
    /\ kept[s].until # 0 => kept[s].last + 2 * Window <= kept[s].until
    /\ \/ Backed(Good(s), Stamps, Refill(s, kept[s]), kept[s].tokens)
       \/ Backed(Good(s), Stamps, FullSince(s, kept[s]), Full)

Known(r) == Good(request[r].store) \cap request[r].knew

TakenOf(r) ==
    LET q == request[r]
    IN  q.at = "deciding" =>
          /\ q.read.until <= now + 2 * Window
          /\ q.read.until # 0 =>
                \/ Backed(Known(r), Stamps, Refill(q.store, q.read), q.read.tokens)
                \/ /\ Backed(Known(r), Stamps, FullSince(q.store, q.read), Full)
                   /\ r \notin late => q.read.until <= q.now + 3 * Window
          /\ q.read.until = 0 =>
                /\ q.read = Nothing
                /\ Backed(Known(r), Stamps, now - Window + rewound[q.store], Full)
                /\ r \notin late => Backed(Known(r), Stamps, q.now + rewound[q.store], Full)

LEMMA BucketParts == BucketInv <=> (\A s \in Stores : BucketOf(s)) /\ (\A r \in Requests : TakenOf(r))
  BY DEF BucketInv, BucketOf, TakenOf, Known

LEMMA BucketPartsNext ==
    (\A s \in Stores : BucketOf(s)') /\ (\A r \in Requests : TakenOf(r)') => BucketInv'
  BY DEF BucketInv, BucketOf, TakenOf, Known

LEMMA BucketRests ==
    ASSUME ChecksInv, [LimiterNext]_limiterVars, NEW s \in Stores, BucketOf(s), kept'[s] = kept[s],
           rewound'[s] = rewound[s], Good(s)' \subseteq Good(s)
    PROVE  BucketOf(s)'
<1>1. \A x \in Good(s) : Stamps'[x] = Stamps[x] /\ Stamps[x] \in Nat
  BY GoodFacts, StampsKept DEF Early
<1>2. Good(s) \in SUBSET Requests /\ Good(s)' \in SUBSET Requests
  BY DEF Good, Admitted
<1>3. now <= now' /\ now' \in Nat
  BY AllOnward DEF Times
<1>4. /\ kept[s].until \in Nat /\ kept[s].tokens \in Nat /\ kept[s].tokens <= Full
      /\ rewound[s] \in Nat /\ now \in Nat /\ Full \in Nat
      /\ Refill(s, kept[s]) \in Int /\ FullSince(s, kept[s]) \in Int
  BY KeptTyped, Products DEF ChecksInv
<1>5. Refill(s, kept[s])' = Refill(s, kept[s]) /\ FullSince(s, kept[s])' = FullSince(s, kept[s])
  BY DEF Refill, FullSince
<1>6. ASSUME NEW h \in Int, NEW m \in Nat, m <= Full, Backed(Good(s), Stamps, h, m)
      PROVE  Backed(Good(s)', Stamps', h, m)
  <2>1. h - h = 0 /\ Limit * 0 = 0
    OBVIOUS
  <2>2. m <= m + Limit * (h - h)
    BY <2>1
  <2> QED
    BY <1>1, <1>2, <1>6, <2>2, BackedOn
<1>7. \/ Backed(Good(s)', Stamps', Refill(s, kept[s]), kept[s].tokens)
      \/ Backed(Good(s)', Stamps', FullSince(s, kept[s]), Full)
  BY <1>4, <1>6 DEF BucketOf
<1>8. /\ kept'[s].until <= now' + 2 * Window
      /\ kept'[s].until = 0 => Good(s)' = {}
      /\ kept'[s].until # 0 => kept'[s].last + 2 * Window <= kept'[s].until
  BY <1>3, <1>4 DEF BucketOf
<1> QED
  BY <1>5, <1>7, <1>8 DEF BucketOf

LEMMA TakenRests ==
    ASSUME ChecksInv, [LimiterNext]_limiterVars, NEW r \in Requests, TakenOf(r),
           request'[r] = request[r], late \subseteq late', NEW s, s = request[r].store,
           rewound'[s] \in Nat, rewound[s] <= rewound'[s],
           request[r].at = "deciding" => Good(s)' \cap request[r].knew \subseteq Good(s)
    PROVE  TakenOf(r)'
<1> SUFFICES ASSUME request[r].at = "deciding" PROVE TakenOf(r)'
  BY DEF TakenOf
<1>1. /\ Known(r)' \subseteq Known(r) /\ Known(r) \in SUBSET Requests /\ Known(r)' \in SUBSET Requests
  BY DEF Known, Good, Admitted
<1>2. \A x \in Known(r) : Stamps'[x] = Stamps[x] /\ Stamps[x] \in Nat
  BY GoodFacts, StampsKept DEF Early, Known
<1>3. now <= now' /\ now' \in Nat
  BY AllOnward DEF Times
<1> DEFINE q == request[r]
<1>4. /\ q.read.until \in Nat /\ q.read.last \in Nat /\ q.read.tokens \in Nat /\ q.read.tokens <= Full
      /\ q.now \in Nat /\ rewound[s] \in Nat /\ now \in Nat /\ Full \in Nat
  BY ReadTyped, Products DEF ChecksInv
<1>5. ASSUME NEW h \in Int, NEW i \in Int, h <= i, NEW m \in Nat, m <= Full,
             Backed(Known(r), Stamps, h, m)
      PROVE  Backed(Known(r)', Stamps', i, m)
  <2>1. 0 <= Limit * (i - h) /\ Limit * (i - h) \in Int
    BY <1>5, Products
  <2>2. m <= m + Limit * (i - h)
    BY <2>1
  <2> QED
    BY <1>1, <1>2, <1>5, <2>2, BackedOn
<1>6. CASE q.read.until # 0
  <2>1. CASE Backed(Known(r), Stamps, q.read.last + rewound[s], q.read.tokens)
    <3>0. PICK h \in Int, i \in Int : /\ h = q.read.last + rewound[s] /\ i = q.read.last + rewound'[s]
                                      /\ h <= i
      BY <1>4
    <3>1. Backed(Known(r)', Stamps', i, q.read.tokens)
      BY <1>4, <1>5, <2>1, <3>0
    <3> QED
      BY <1>3, <1>4, <1>6, <3>0, <3>1 DEF TakenOf, Refill
  <2>2. CASE /\ Backed(Known(r), Stamps, q.read.until - 3 * Window + rewound[s], Full)
             /\ r \notin late => q.read.until <= q.now + 3 * Window
    <3>0. PICK h \in Int, i \in Int : /\ h = q.read.until - 3 * Window + rewound[s]
                                      /\ i = q.read.until - 3 * Window + rewound'[s]
                                      /\ h <= i
      BY <1>4
    <3>1. Backed(Known(r)', Stamps', i, Full)
      BY <1>4, <1>5, <2>2, <3>0
    <3> QED
      BY <1>3, <1>4, <1>6, <2>2, <3>0, <3>1 DEF TakenOf, FullSince
  <2> QED
    BY <1>6, <2>1, <2>2 DEF TakenOf, Refill, FullSince
<1>7. CASE q.read.until = 0
  <2>1. /\ q.read = Nothing
        /\ Backed(Known(r), Stamps, now - Window + rewound[s], Full)
        /\ r \notin late => Backed(Known(r), Stamps, q.now + rewound[s], Full)
    BY <1>7 DEF TakenOf
  <2>2. Backed(Known(r)', Stamps', now' - Window + rewound'[s], Full)
    <3>a. /\ now - Window + rewound[s] \in Int /\ now' - Window + rewound'[s] \in Int
          /\ now - Window + rewound[s] <= now' - Window + rewound'[s]
      <4>1. /\ rewound[s] \in Nat /\ rewound'[s] \in Nat /\ rewound[s] <= rewound'[s]
            /\ now \in Nat /\ now' \in Nat /\ now <= now' /\ Window \in Nat
        BY <1>3, <1>4
      <4> QED
        BY <4>1
    <3>0. PICK h \in Int, i \in Int : /\ h = now - Window + rewound[s]
                                      /\ i = now' - Window + rewound'[s] /\ h <= i
      BY <3>a
    <3>1. Backed(Known(r)', Stamps', i, Full)
      BY <1>4, <1>5, <2>1, <3>0
    <3> QED
      BY <3>0, <3>1
  <2>3. r \notin late => Backed(Known(r)', Stamps', q.now + rewound'[s], Full)
    <3>0. PICK h \in Int, i \in Int : h = q.now + rewound[s] /\ i = q.now + rewound'[s] /\ h <= i
      BY <1>4
    <3>1. r \notin late => Backed(Known(r)', Stamps', i, Full)
      BY <1>4, <1>5, <2>1, <3>0
    <3> QED
      BY <3>0, <3>1
  <2>4. q.read.until <= now' + 2 * Window
    BY <1>3, <1>7
  <2>5. /\ request'[r].read.until <= now' + 2 * Window /\ request'[r].read.until = 0
        /\ request'[r].read = Nothing /\ request'[r].store = s
        /\ Backed(Known(r)', Stamps', now' - Window + rewound'[request'[r].store], Full)
        /\ r \notin late' => Backed(Known(r)', Stamps', request'[r].now + rewound'[request'[r].store], Full)
    BY <1>7, <2>1, <2>2, <2>3, <2>4
  <2> QED
    BY <2>5 DEF TakenOf
<1> QED
  BY <1>6, <1>7

(* The bucket a check reads; a value that expired has been full for a window. *)
LEMMA BucketRead ==
    ASSUME ChecksInv, BucketInv, [LimiterNext]_limiterVars, strategy = "bucket",
           NEW r \in Requests, Gets(r)
    PROVE  TakenOf(r)'
<1>0. PICK s : s = request[r].store
  OBVIOUS
<1>1. PICK rec \in Request :
        /\ Advances(r, rec) /\ rec.at = "deciding" /\ rec.read = Found(r) /\ rec.knew = Spenders(s)
        /\ r \notin late' => now < request[r].now + Window
        /\ UNCHANGED <<now, kept, rewound>>
  <2>1. now \in Nat /\ request[r].now \in Nat /\ request[r].window = Window
    BY ReadTyped DEF ChecksInv
  <2>2. ~Outlived(r) => now < request[r].now + Window
    BY <2>1 DEF Outlived, Begun, Gets
  <2> QED
    BY <1>0, <2>2 DEF Gets
<1>2. request'[r] = rec /\ rec.store = s /\ rec.now = request[r].now
  BY <1>0, <1>1, TurnedTyped DEF Advances, ChecksInv
<1>3. /\ s \in Stores /\ now \in Nat /\ rec.now \in Nat /\ rec.now <= now
      /\ kept[s].until \in Nat /\ kept[s].last \in Nat /\ kept[s].tokens \in Nat
      /\ kept[s].tokens <= Full /\ rewound[s] \in Nat /\ Full \in Nat
  BY <1>0, <1>2, ReadTyped, KeptTyped, Products DEF ChecksInv, CheckInv
<1>4. Good(s)' = Good(s) /\ Spenders(s)' = Spenders(s)
  BY QuietFacts DEF Quiet
<1>5. Known(r)' = Good(s)
  BY <1>1, <1>2, <1>4, GoodFacts DEF Known
<1>6. /\ Good(s) \in SUBSET Requests
      /\ \A x \in Good(s) : Stamps'[x] = Stamps[x] /\ Stamps[x] \in Nat
  BY GoodFacts, StampsKept DEF Early
<1>7. ASSUME NEW h \in Int, NEW i \in Int, h <= i, NEW m \in Nat, NEW n \in Nat,
             n <= m + Limit * (i - h), n <= Full, Backed(Good(s), Stamps, h, m)
      PROVE  Backed(Known(r)', Stamps', i, n)
  BY <1>5, <1>6, <1>7, BackedOn
<1>8. ASSUME NEW h \in Int, NEW i \in Int, h <= i, NEW m \in Nat, m <= Full,
             Backed(Good(s), Stamps, h, m)
      PROVE  Backed(Known(r)', Stamps', i, m)
  <2>1. 0 <= Limit * (i - h) /\ Limit * (i - h) \in Int
    BY <1>8, Products
  <2>2. m <= m + Limit * (i - h)
    BY <2>1
  <2> QED
    BY <1>7, <1>8, <2>2
<1>9. BucketOf(s)
  BY <1>3, BucketParts
<1> DEFINE back == kept[s].last + rewound[s]
           full == kept[s].until - 3 * Window + rewound[s]
<1>10. back \in Int /\ full \in Int
  BY <1>3
<1>11. Backed(Good(s), Stamps, back, kept[s].tokens) \/ Backed(Good(s), Stamps, full, Full)
  BY <1>9 DEF BucketOf, Refill, FullSince
<1> HIDE DEF back, full
<1>12. CASE now < kept[s].until
  <2>1. rec.read = kept[s]
    BY <1>0, <1>1, <1>12 DEF Found
  <2>2. rec.read.until # 0 /\ rec.read.until <= now + 2 * Window
    BY <1>3, <1>9, <1>12, <2>1 DEF BucketOf
  <2>3. CASE Backed(Good(s), Stamps, back, kept[s].tokens)
    <3>1. Backed(Known(r)', Stamps', back, kept[s].tokens)
      BY <1>3, <1>8, <1>10, <2>3
    <3>2. Refill(s, rec.read)' = back
      BY <1>1, <2>1 DEF Refill, back
    <3>3. Backed(Known(r)', Stamps', Refill(s, rec.read)', rec.read.tokens)
      BY <2>1, <3>1, <3>2
    <3> QED
      BY <1>1, <1>2, <2>2, <3>3 DEF TakenOf, Refill
  <2>4. CASE Backed(Good(s), Stamps, full, Full)
    <3>1. Backed(Known(r)', Stamps', full, Full)
      BY <1>3, <1>8, <1>10, <2>4
    <3>2. FullSince(s, rec.read)' = full
      BY <1>1, <2>1 DEF FullSince, full
    <3>3. Backed(Known(r)', Stamps', FullSince(s, rec.read)', Full)
      BY <3>1, <3>2
    <3>4. r \notin late' => rec.read.until <= rec.now + 3 * Window
      BY <1>1, <1>2, <1>3, <2>1, <2>2
    <3> QED
      BY <1>1, <1>2, <2>2, <3>3, <3>4 DEF TakenOf, FullSince
  <2> QED
    BY <1>11, <2>3, <2>4
<1>13. CASE kept[s].until <= now
  <2>1. rec.read = Nothing /\ rec.read.until = 0
    BY <1>0, <1>1, <1>3, <1>13 DEF Found, Nothing
  <2>2. PICK since \in Int : since = now - Window + rewound[s]
    BY <1>3
  <2>3. \A i \in Int : since <= i => Backed(Known(r)', Stamps', i, Full)
    <3> SUFFICES ASSUME NEW i \in Int, since <= i PROVE Backed(Known(r)', Stamps', i, Full)
      OBVIOUS
    <3>1. CASE kept[s].until = 0
      <4>1. Known(r)' = {}
        BY <1>5, <1>9, <3>1 DEF BucketOf
      <4> QED
        BY <4>1, BackedNone
    <3>2. CASE kept[s].until # 0
      <4>1. kept[s].last + 2 * Window <= kept[s].until
        BY <1>9, <3>2 DEF BucketOf
      <4>2. CASE Backed(Good(s), Stamps, full, Full)
        <5>1. full <= i
          BY <1>3, <1>13, <2>2 DEF full
        <5> QED
          BY <1>3, <1>8, <1>10, <4>2, <5>1
      <4>3. CASE Backed(Good(s), Stamps, back, kept[s].tokens)
        <5>1. Window <= i - back /\ i - back \in Int /\ back <= i
          BY <1>3, <1>13, <2>2, <4>1 DEF back
        <5>2. Limit * Window <= Limit * (i - back) /\ Limit * (i - back) \in Int
          BY <5>1, Products
        <5>3. Full <= kept[s].tokens + Limit * (i - back)
          BY <1>3, <5>2 DEF Full
        <5> QED
          BY <1>3, <1>7, <1>10, <4>3, <5>1, <5>3
      <4> QED
        BY <1>11, <4>2, <4>3
    <3> QED
      BY <3>1, <3>2
  <2>4. Backed(Known(r)', Stamps', now' - Window + rewound'[s], Full)
    BY <1>1, <2>2, <2>3
  <2>5. r \notin late' => Backed(Known(r)', Stamps', rec.now + rewound'[s], Full)
    <3>1. PICK i \in Int : i = rec.now + rewound[s]
      BY <1>3
    <3>2. r \notin late' => since <= i
      BY <1>1, <1>2, <1>3, <2>2, <3>1
    <3> QED
      BY <1>1, <2>3, <3>1, <3>2
  <2>6. rec.read.until <= now' + 2 * Window
    BY <1>1, <1>3, <2>1
  <2> QED
    BY <1>2, <2>1, <2>4, <2>5, <2>6 DEF TakenOf
<1> QED
  BY <1>3, <1>12, <1>13

(* What a check that decides has behind it: its refilled bucket, or a full one of before. *)
LEMMA BucketDecides ==
    ASSUME ChecksInv, BucketInv, strategy = "bucket", NEW r \in Requests, Writes(r),
           NEW s, s = request[r].store
    PROVE  /\ rewound'[s] \in Nat /\ rewound[s] <= rewound'[s]
           /\ \A z \in Stores \ {s} : rewound'[z] = rewound[z]
           /\ \/ Backed(Known(r), Stamps, request[r].now + rewound'[s], Refilled(request[r]))
              \/ /\ r \in late
                 /\ Backed(Known(r), Stamps, now - Window + rewound'[s], Full)
<1> DEFINE q == request[r]
<1>1. /\ q.read.until \in Nat /\ q.read.last \in Nat /\ q.read.tokens \in Nat /\ q.read.tokens <= Full
      /\ q.now \in Nat /\ rewound[s] \in Nat /\ now \in Nat /\ Full \in Nat /\ s \in Stores
      /\ q.limit \in 1..Limit
  BY ReadTyped, Products DEF ChecksInv
<1>2. q.at = "deciding" /\ q.now <= now
  BY DEF Writes, ChecksInv, CheckInv
<1>3. /\ rewound' = IF q.read.last > q.now THEN [rewound EXCEPT ![s] = @ + q.read.last - q.now]
                                           ELSE rewound
      /\ rewound \in [Stores -> Nat]
  BY WritesFacts DEF ChecksInv, LimiterTypeOK
<1>4. /\ rewound'[s] = IF q.read.last > q.now THEN rewound[s] + q.read.last - q.now ELSE rewound[s]
      /\ \A z \in Stores \ {s} : rewound'[z] = rewound[z]
  BY <1>1, <1>3
<1>5. rewound'[s] \in Nat /\ rewound[s] <= rewound'[s]
  BY <1>1, <1>4
<1>6. TakenOf(r)
  BY BucketParts
<1>7. /\ Known(r) \in SUBSET Requests
      /\ \A x \in Known(r) : Stamps[x] \in Nat
  BY GoodFacts, CheckTyped DEF Known, Stamps, Stamp, Times, ChecksInv
<1>8. ASSUME NEW h \in Int, NEW i \in Int, h <= i, NEW m \in Nat, NEW n \in Nat,
             n <= m + Limit * (i - h), n <= Full, Backed(Known(r), Stamps, h, m)
      PROVE  Backed(Known(r), Stamps, i, n)
  BY <1>7, <1>8, BackedOn
<1>9. ASSUME NEW h \in Int, NEW i \in Int, h <= i, NEW n \in Nat, n <= Full,
             Backed(Known(r), Stamps, h, Full)
      PROVE  Backed(Known(r), Stamps, i, n)
  <2>1. 0 <= Limit * (i - h) /\ Limit * (i - h) \in Int
    BY <1>9, Products
  <2>2. n <= Full + Limit * (i - h)
    BY <1>1, <1>9, <2>1
  <2> QED
    BY <1>1, <1>8, <1>9, <2>2
<1>10. Refilled(q) \in Nat /\ Refilled(q) <= Full
  BY <1>1, RefilledTyped DEF ChecksInv
<1> DEFINE elapsed == IF q.now > q.read.last THEN q.now - q.read.last ELSE 0
<1>11. elapsed \in Nat
  BY <1>1
<1>12. q.read.until # 0 => Refilled(q) <= q.read.tokens + Limit * elapsed
  <2>0. q.limit \in Nat /\ q.limit <= Limit
    BY <1>1
  <2> HIDE DEF elapsed, q
  <2>1. q.limit * elapsed <= Limit * elapsed /\ q.limit * elapsed \in Nat /\ Limit * elapsed \in Nat
    BY <2>0, <1>11, Arithmetic
  <2>2. q.read.until # 0 => Refilled(q) <= q.read.tokens + q.limit * elapsed
    <3>1. q.limit * Window \in Nat
      BY <2>0, Arithmetic
    <3>2. Refilled(q) = IF q.read.until = 0 \/ q.read.tokens + q.limit * elapsed > q.limit * Window
                          THEN q.limit * Window ELSE q.read.tokens + q.limit * elapsed
      BY DEF Refilled, elapsed, q
    <3> QED
      BY <1>1, <1>11, <2>1, <3>1, <3>2
  <2> QED
    BY <1>1, <1>10, <2>1, <2>2
<1>13. PICK i \in Int : i = q.now + rewound'[s]
  BY <1>1, <1>5
<1>14. Backed(Known(r), Stamps, i, Refilled(q))
       \/ (r \in late /\ Backed(Known(r), Stamps, now - Window + rewound'[s], Full))
  <2>1. CASE q.read.until # 0 /\ Backed(Known(r), Stamps, q.read.last + rewound[s], q.read.tokens)
    <3>1. PICK h \in Int : h = q.read.last + rewound[s]
      BY <1>1
    <3>2. h <= i /\ i - h = elapsed
      BY <1>1, <1>4, <1>13, <3>1
    <3>3. Refilled(q) <= q.read.tokens + Limit * (i - h)
      BY <1>12, <2>1, <3>2
    <3> QED
      BY <1>1, <1>8, <1>10, <2>1, <3>1, <3>2, <3>3
  <2>2. CASE /\ q.read.until # 0 /\ q.read.until <= now + 2 * Window
             /\ Backed(Known(r), Stamps, q.read.until - 3 * Window + rewound[s], Full)
             /\ r \notin late => q.read.until <= q.now + 3 * Window
    <3>1. PICK h \in Int : h = q.read.until - 3 * Window + rewound[s]
      BY <1>1
    <3>2. CASE r \notin late
      <4>1. h <= i
        BY <1>1, <1>5, <1>13, <2>2, <3>1, <3>2
      <4> QED
        BY <1>9, <1>10, <2>2, <3>1, <4>1
    <3>3. CASE r \in late
      <4>1. PICK j \in Int : j = now - Window + rewound'[s] /\ h <= j
        BY <1>1, <1>5, <2>2, <3>1
      <4> QED
        BY <1>1, <1>9, <2>2, <3>1, <3>3, <4>1
    <3> QED
      BY <3>2, <3>3
  <2>3. CASE q.read.until = 0
    <3>1. /\ Backed(Known(r), Stamps, now - Window + rewound[s], Full)
          /\ r \notin late => Backed(Known(r), Stamps, q.now + rewound[s], Full)
      BY <1>2, <1>6, <2>3 DEF TakenOf
    <3>2. PICK h \in Int, j \in Int, k \in Int :
            /\ h = now - Window + rewound[s] /\ j = now - Window + rewound'[s] /\ h <= j
            /\ k = q.now + rewound[s] /\ k <= i
      BY <1>1, <1>5, <1>13
    <3>3. Backed(Known(r), Stamps, j, Full)
      BY <1>1, <1>9, <3>1, <3>2
    <3>4. r \notin late => Backed(Known(r), Stamps, i, Refilled(q))
      BY <1>9, <1>10, <3>1, <3>2
    <3> QED
      BY <3>2, <3>3, <3>4
  <2> QED
    BY <1>2, <1>6, <2>1, <2>2, <2>3 DEF TakenOf, Refill, FullSince
<1> QED
  BY <1>4, <1>5, <1>13, <1>14

(* What it writes. *)
LEMMA BucketWritten ==
    ASSUME ChecksInv, BucketInv, [LimiterNext]_limiterVars, strategy = "bucket",
           NEW r \in Requests, Writes(r), NEW s, s = request[r].store
    PROVE  BucketOf(s)'
<1> DEFINE q == request[r]
<1>1. /\ s \in Stores /\ now' = now /\ late' = late
      /\ Good(s)' \subseteq (Good(s) \cap q.knew) \cup {r}
      /\ r \in Good(s)' => Verdict(r).ok /\ r \notin late
      /\ kept'[s] = Verdict(r).value
      /\ Stamp(r)' = Stamp(r)
  BY WritesFacts
<1>2. Verdict(r) = Take(r)
  BY DEF Verdict
<1>3. /\ Take(r).ok \in BOOLEAN
      /\ Take(r).ok <=> Refilled(q) >= Window
      /\ kept'[s].last = q.now /\ kept'[s].until = now + 2 * Window
      /\ kept'[s].tokens = IF Take(r).ok THEN Refilled(q) - Window ELSE Refilled(q)
  <2>1. kept'[s] = Take(r).value
    BY <1>1, <1>2
  <2> QED
    BY <2>1, TakeFacts, Zenon
<1>4. /\ q.now \in Nat /\ now \in Nat /\ Full \in Nat /\ rewound'[s] \in Nat /\ q.now <= now
      /\ Refilled(q) \in Nat /\ Refilled(q) <= Full
  <2>1. q.now \in Nat /\ now \in Nat /\ Full \in Nat /\ q.now <= now
    BY ReadTyped, Products DEF ChecksInv, CheckInv
  <2>2. rewound'[s] \in Nat
    BY BucketDecides
  <2>3. Refilled(q) \in Nat /\ Refilled(q) <= Full
    BY RefilledTyped DEF ChecksInv
  <2> QED
    BY <2>1, <2>2, <2>3
<1>5. Known(r) = Good(s) \cap q.knew
  BY DEF Known
<1>6. /\ Known(r) \in SUBSET Requests /\ Good(s)' \in SUBSET Requests /\ Known(r) \cup {r} \in SUBSET Requests
      /\ \A x \in Known(r) : Stamps'[x] = Stamps[x] /\ Stamps[x] \in Nat /\ Stamps'[x] \in Nat
      /\ Stamps'[r] = q.now
  <2>1. Stamps'[r] = Stamp(r)' /\ Stamp(r) = q.now
    BY StampsKept DEF Stamp
  <2>2. Good(s)' \in SUBSET Requests
    BY DEF Good, Admitted
  <2> QED
    BY <1>1, <1>5, <2>1, <2>2, GoodFacts, StampsKept DEF Early
<1>7. ASSUME NEW h \in Int, NEW m \in Nat, NEW n \in Nat, n <= m, m <= Full,
             NEW X \in SUBSET Requests, Good(s)' \subseteq X, NEW stamps,
             \A x \in Good(s)' : Stamps'[x] = stamps[x] /\ stamps[x] \in Nat, Backed(X, stamps, h, m)
      PROVE  Backed(Good(s)', Stamps', h, n)
  <2>1. 0 <= Limit * (h - h) /\ Limit * (h - h) \in Int
    BY Products
  <2>2. n <= m + Limit * (h - h) /\ n <= Full
    BY <1>4, <1>7, <2>1
  <2> QED
    BY <1>6, <1>7, <2>2, BackedOn
<1>8. PICK i \in Int : i = q.now + rewound'[s]
  BY <1>4
<1>9. kept'[s].tokens \in Nat /\ kept'[s].tokens <= Refilled(q)
  BY <1>3, <1>4
<1>10. Backed(Good(s)', Stamps', i, kept'[s].tokens)
       \/ Backed(Good(s)', Stamps', now - Window + rewound'[s], Full)
  <2>1. CASE r \in Good(s)'
    <3>1. r \notin late /\ Take(r).ok /\ Window <= Refilled(q)
      BY <1>1, <1>2, <1>3, <1>4, <2>1
    <3>2. Backed(Known(r), Stamps, i, Refilled(q))
      BY <1>8, <3>1, BucketDecides
    <3>3. Stamps'[r] \in Nat /\ Stamps'[r] <= i
      BY <1>4, <1>6, <1>8
    <3>4. Backed(Known(r) \cup {r}, Stamps', i, Refilled(q) - Window)
      BY <1>4, <1>6, <3>1, <3>2, <3>3, BackedAdd
    <3>5. Refilled(q) - Window \in Nat /\ Refilled(q) - Window <= Full
          /\ kept'[s].tokens = Refilled(q) - Window
      BY <1>3, <1>4, <3>1
    <3>6. Good(s)' \subseteq Known(r) \cup {r} /\ \A x \in Good(s)' : Stamps'[x] \in Nat
      BY <1>1, <1>5, <1>6, <3>3
    <3> QED
      BY <1>6, <1>7, <3>4, <3>5, <3>6
  <2>2. CASE r \notin Good(s)'
    <3>1. Good(s)' \subseteq Known(r)
      BY <1>1, <1>5, <2>2
    <3>2. CASE Backed(Known(r), Stamps, i, Refilled(q))
      BY <1>4, <1>6, <1>7, <1>9, <3>1, <3>2
    <3>3. CASE Backed(Known(r), Stamps, now - Window + rewound'[s], Full)
      <4>1. PICK j \in Int : j = now - Window + rewound'[s]
        BY <1>4
      <4> QED
        BY <1>4, <1>6, <1>7, <3>1, <3>3, <4>1
    <3> QED
      BY <1>8, <3>2, <3>3, BucketDecides
  <2> QED
    BY <2>1, <2>2
<1>11. Refill(s, kept[s])' = i /\ FullSince(s, kept[s])' = now - Window + rewound'[s]
  BY <1>1, <1>3, <1>4, <1>8 DEF Refill, FullSince
<1>12. /\ kept'[s].until <= now' + 2 * Window /\ kept'[s].until # 0
       /\ kept'[s].last + 2 * Window <= kept'[s].until
  BY <1>1, <1>3, <1>4
<1>13. \/ Backed(Good(s)', Stamps', Refill(s, kept[s])', kept'[s].tokens)
       \/ Backed(Good(s)', Stamps', FullSince(s, kept[s])', Full)
  BY <1>10, <1>11
<1> QED
  BY <1>12, <1>13 DEF BucketOf

LEMMA BucketKept ==
    ASSUME ChecksInv, ChecksInv', strategy = "bucket", [LimiterNext]_limiterVars, BucketInv
    PROVE  BucketInv'
<1>1. (\A s \in Stores : BucketOf(s)) /\ (\A r \in Requests : TakenOf(r))
  BY BucketParts
<1>2. \A s \in Stores : rewound[s] \in Nat /\ rewound'[s] \in Nat
  BY DEF ChecksInv, LimiterTypeOK
<1>3. \A r \in Requests : request[r].store \in Stores
  BY CheckTyped DEF ChecksInv
<1>4. ASSUME NEW r \in Requests, Quiet(r) PROVE BucketInv'
  <2>1. /\ \A s : Good(s)' = Good(s)
        /\ \A x \in Requests \ {r} : request'[x] = request[x]
        /\ late \subseteq late' /\ UNCHANGED <<kept, rewound>>
        /\ request'[r].at = "deciding" => Gets(r)
    BY <1>4, QuietFacts
  <2>2. \A s \in Stores : BucketOf(s)'
    BY <1>1, <2>1, BucketRests
  <2>3. ASSUME NEW x \in Requests \ {r} PROVE TakenOf(x)'
    <3>0. PICK s : s = request[x].store
      OBVIOUS
    <3>1. rewound'[s] \in Nat /\ rewound[s] <= rewound'[s]
      BY <1>2, <1>3, <2>1, <3>0
    <3> QED
      BY <1>1, <2>1, <3>0, <3>1, TakenRests
  <2>4. TakenOf(r)'
    <3>1. CASE request'[r].at = "deciding"
      BY <2>1, <3>1, BucketRead
    <3>2. CASE request'[r].at # "deciding"
      BY <3>2 DEF TakenOf
    <3> QED
      BY <3>1, <3>2
  <2> QED
    BY <2>2, <2>3, <2>4, BucketPartsNext
<1>5. ASSUME NEW r \in Requests, Writes(r) PROVE BucketInv'
  <2>0. PICK s : s = request[r].store
    OBVIOUS
  <2>1. /\ \A z : z # s => Good(z)' \subseteq Good(z)
        /\ \A z \in Stores \ {s} : kept'[z] = kept[z]
        /\ Good(s)' \subseteq Good(s) \cup {r}
        /\ late' = late
        /\ \A x \in Requests \ {r} : request'[x] = request[x]
        /\ request'[r].at \in Ended
    BY <1>5, <2>0, WritesFacts
  <2>2. /\ rewound[s] <= rewound'[s]
        /\ \A z \in Stores \ {s} : rewound'[z] = rewound[z]
    BY <1>5, <2>0, BucketDecides
  <2>3. \A z \in Stores \ {s} : BucketOf(z)'
    BY <1>1, <2>1, <2>2, BucketRests
  <2>4. BucketOf(s)'
    BY <1>5, <2>0, BucketWritten
  <2>5. ASSUME NEW x \in Requests \ {r} PROVE TakenOf(x)'
    <3>0. PICK z : z = request[x].store
      OBVIOUS
    <3>1. request[x].at = "deciding" => r \notin request[x].knew
      <4>1. ~request[r].spent
        BY <1>5 DEF Writes, ChecksInv, CheckInv, Early
      <4>2. \A y : r \notin Spenders(y)
        BY <4>1 DEF Spenders
      <4> QED
        BY <4>2 DEF ChecksInv, CheckInv
    <3>2. request[x].at = "deciding" => Good(z)' \cap request[x].knew \subseteq Good(z)
      BY <2>1, <3>1
    <3>3. rewound'[z] \in Nat /\ rewound[z] <= rewound'[z]
      BY <1>2, <1>3, <2>2, <3>0
    <3> QED
      BY <1>1, <2>1, <3>0, <3>2, <3>3, TakenRests
  <2>6. TakenOf(r)'
    BY <2>1 DEF TakenOf, Ended
  <2> QED
    BY <2>3, <2>4, <2>5, <2>6, BucketPartsNext
<1>6. CASE Rests
  <2>1. \A s : Good(s)' = Good(s)
    BY <1>6 DEF Rests, Good, Admitted
  <2>2. \A s \in Stores : BucketOf(s)'
    BY <1>1, <1>6, <2>1, BucketRests DEF Rests
  <2>3. ASSUME NEW x \in Requests PROVE TakenOf(x)'
    <3>0. PICK s : s = request[x].store
      OBVIOUS
    <3>1. rewound'[s] \in Nat /\ rewound[s] <= rewound'[s] /\ late' = late /\ request' = request
      BY <1>2, <1>3, <1>6, <3>0 DEF Rests
    <3> QED
      BY <1>1, <2>1, <3>0, <3>1, TakenRests
  <2> QED
    BY <2>2, <2>3, BucketPartsNext
<1>7. ASSUME NEW r \in Requests, Counts(r) \/ Expires(r) PROVE FALSE
  BY <1>7 DEF Counts, Expires, ChecksInv, CheckInv
<1> QED
  BY <1>4, <1>5, <1>6, <1>7, LimiterSteps DEF Quiet

(* The admissions between two times. *)
Between(s, t, u) == {x \in Good(s) : Stamp(x) \in t..u}

LEMMA BetweenKept ==
    ASSUME ChecksInv, ChecksInv', strategy = "bucket", [LimiterNext]_limiterVars, BucketInv, BucketBound
    PROVE  BucketBound'
<1>1. \A s \in Stores, t \in Times : \A u \in t..MaxTime :
          Window * Cardinality(Between(s, t, u)) <= Limit * (Window + u - t + rewound[s])
  BY DEF BucketBound, Between, Good
<1>2. \A s, t, u : Between(s, t, u) \in SUBSET Requests /\ Between(s, t, u)' \in SUBSET Requests
  BY DEF Between, Good, Admitted
<1>3. \A s \in Stores : rewound[s] \in Nat /\ rewound'[s] \in Nat
  BY DEF ChecksInv, LimiterTypeOK
<1>4. \A s : \A x \in Good(s) : Stamp(x)' = Stamp(x) /\ Stamp(x) \in Nat
  BY GoodFacts, StampKept DEF Early
<1> SUFFICES ASSUME NEW s \in Stores, NEW t \in Times, NEW u \in t..MaxTime
             PROVE  Window * Cardinality(Between(s, t, u)') <= Limit * (Window + u - t + rewound'[s])
  BY DEF BucketBound, Between, Good
<1>5. t \in Nat /\ u \in Nat /\ t <= u
  BY DEF Times
<1>6. ASSUME Between(s, t, u)' \subseteq Between(s, t, u), rewound[s] <= rewound'[s]
      PROVE  Window * Cardinality(Between(s, t, u)') <= Limit * (Window + u - t + rewound'[s])
  <2>1. PICK c \in Nat, d \in Nat : c = Cardinality(Between(s, t, u)') /\ d = Cardinality(Between(s, t, u))
    BY <1>2, FiniteRequests
  <2>2. c <= d
    <3>1. Cardinality(Between(s, t, u)') <= Cardinality(Between(s, t, u))
      BY <1>2, <1>6, FiniteRequests
    <3> QED
      BY <2>1, <3>1
  <2>3. Window * c <= Window * d /\ Window * c \in Int /\ Window * d \in Int
    BY <2>2, Products
  <2>4. Window * d <= Limit * (Window + u - t + rewound[s])
    BY <1>1, <2>1
  <2>5. Window + u - t + rewound[s] \in Int /\ Window + u - t + rewound'[s] \in Int
        /\ Window + u - t + rewound[s] <= Window + u - t + rewound'[s]
    BY <1>3, <1>5, <1>6
  <2>6. /\ Limit * (Window + u - t + rewound[s]) <= Limit * (Window + u - t + rewound'[s])
        /\ Limit * (Window + u - t + rewound[s]) \in Int
        /\ Limit * (Window + u - t + rewound'[s]) \in Int
    BY <2>5, Products
  <2>7. Window * c <= Limit * (Window + u - t + rewound'[s])
    BY <2>3, <2>4, <2>6
  <2> QED
    BY <2>1, <2>7
<1>7. ASSUME Good(s)' \subseteq Good(s), rewound'[s] = rewound[s]
      PROVE  Window * Cardinality(Between(s, t, u)') <= Limit * (Window + u - t + rewound'[s])
  <2>1. Between(s, t, u)' \subseteq Between(s, t, u)
    BY <1>4, <1>7 DEF Between
  <2> QED
    BY <1>3, <1>6, <1>7, <2>1
<1>8. ASSUME NEW r \in Requests, Quiet(r) PROVE Good(s)' \subseteq Good(s) /\ rewound'[s] = rewound[s]
  BY <1>8, QuietFacts
<1>9. CASE Rests
  BY <1>7, <1>9 DEF Rests, Good, Admitted
<1>10. ASSUME NEW r \in Requests, Counts(r) \/ Expires(r) PROVE FALSE
  BY <1>10 DEF Counts, Expires, ChecksInv, CheckInv
<1>11. ASSUME NEW r \in Requests, Writes(r), s # request[r].store
       PROVE  Good(s)' \subseteq Good(s) /\ rewound'[s] = rewound[s]
  BY <1>11, WritesFacts, BucketDecides
<1>12. ASSUME NEW r \in Requests, Writes(r), s = request[r].store
       PROVE  Window * Cardinality(Between(s, t, u)') <= Limit * (Window + u - t + rewound'[s])
  <2>1. /\ Good(s)' \subseteq (Good(s) \cap request[r].knew) \cup {r}
        /\ r \in Good(s)' => Verdict(r).ok /\ r \notin late
        /\ Stamp(r)' = Stamp(r)
    BY <1>12, WritesFacts
  <2>2. /\ rewound[s] <= rewound'[s]
        /\ r \notin late => Backed(Known(r), Stamps, request[r].now + rewound'[s], Refilled(request[r]))
    BY <1>12, BucketDecides
  <2>3. CASE r \notin Between(s, t, u)'
    <3>1. Between(s, t, u)' \subseteq Between(s, t, u)
      BY <1>4, <2>1, <2>3 DEF Between
    <3> QED
      BY <1>6, <2>2, <3>1
  <2>4. CASE r \in Between(s, t, u)'
    <3>1. /\ Take(r).ok /\ r \notin late /\ t <= Stamp(r) /\ Stamp(r) <= u /\ Stamp(r) \in Nat
          /\ Stamp(r) = request[r].now
      BY <1>5, <2>1, <2>4, CheckTyped DEF Between, Verdict, Stamp, Times, ChecksInv
    <3>2. Window <= Refilled(request[r]) /\ Refilled(request[r]) \in Nat
      BY <3>1, TakeFacts, RefilledTyped DEF ChecksInv
    <3>3. PICK n \in Nat, h \in Nat : n = Refilled(request[r]) /\ h = request[r].now + rewound'[s]
      BY <1>3, <3>1, <3>2
    <3>4. PICK A, B : A = Between(s, t, u)' /\ B = Since(Known(r), Stamps, t)
      OBVIOUS
    <3>5. A \in SUBSET Requests /\ B \in SUBSET Requests /\ B \cup {r} \in SUBSET Requests
      BY <1>2, <3>4 DEF Since, Known, Good, Admitted
    <3>6. A \subseteq B \cup {r}
      <4>1. ASSUME NEW x \in A, x # r PROVE x \in B
        <5>1. x \in Known(r) /\ Stamp(x) \in t..u /\ x \in Requests
          BY <1>2, <1>4, <1>12, <2>1, <3>4, <4>1 DEF Between, Known
        <5>2. t <= Stamps[x]
          BY <1>5, <5>1, StampsKept
        <5> QED
          BY <3>4, <5>1, <5>2 DEF Since
      <4> QED
        BY <4>1
    <3>7. PICK c \in Nat, d \in Nat : c = Cardinality(A) /\ d = Cardinality(B)
      BY <3>5, FiniteRequests
    <3>8. c <= d + 1
      <4>1. Cardinality(A) <= Cardinality(B \cup {r})
        BY <3>5, <3>6, FiniteRequests
      <4>2. Cardinality(B \cup {r}) \in {d, d + 1}
        BY <3>5, <3>7, FiniteRequests
      <4> QED
        BY <3>7, <4>1, <4>2
    <3>9. n + Window * d <= Limit * (Window + h - t)
      <4>1. t \in 0..h
        BY <1>3, <1>5, <3>1, <3>3
      <4> QED
        BY <2>2, <3>1, <3>3, <3>4, <3>7, <4>1 DEF Backed, Since
    <3>10. Window * c <= Window * d + Window /\ Window * c \in Int /\ Window * d \in Int
      <4>1. Window * c <= Window * (d + 1) /\ Window * (d + 1) = Window * d + Window
        BY <3>8, Products
      <4> QED
        BY <4>1, Products
    <3>11. /\ Limit * (Window + h - t) <= Limit * (Window + u - t + rewound'[s])
           /\ Limit * (Window + h - t) \in Int /\ Limit * (Window + u - t + rewound'[s]) \in Int
      <4>1. Window + h - t <= Window + u - t + rewound'[s] /\ Window + h - t \in Int
            /\ Window + u - t + rewound'[s] \in Int
        BY <1>3, <1>5, <3>1, <3>3
      <4> QED
        BY <4>1, Products
    <3>12. Window * c <= Limit * (Window + u - t + rewound'[s])
      BY <3>2, <3>3, <3>9, <3>10, <3>11
    <3> QED
      BY <3>4, <3>7, <3>12
  <2> QED
    BY <2>3, <2>4
<1> QED
  BY <1>7, <1>8, <1>9, <1>10, <1>11, <1>12, LimiterSteps DEF Quiet

(* A check that finds no token: one was taken, and the time since refilled none. *)
LEMMA EmptyFacts ==
    ASSUME ChecksInv, strategy = "bucket", DrawnInv, NEW r \in Requests, Writes(r), ~Take(r).ok,
           NEW s, s = request[r].store
    PROVE  /\ Refilled(request[r]) \in Nat /\ Refilled(request[r]) < Window
           /\ \E x \in Spenders(s) : request[r].now <= Refilled(request[r]) + Stamp(x)
<1> DEFINE q == request[r]
<1>1. /\ q.read.until \in Nat /\ q.read.last \in Nat /\ q.read.tokens \in Nat
      /\ q.now \in Nat /\ q.limit \in 1..Limit /\ Refilled(q) \in Nat /\ q.at = "deciding"
  BY ReadTyped, RefilledTyped DEF ChecksInv, Writes
<1>2. Refilled(q) < Window
  <2>1. ~(Refilled(q) >= Window)
    BY TakeFacts, Zenon
  <2> QED
    BY <1>1, <2>1
<1>3. PICK elapsed \in Nat : elapsed = IF q.now > q.read.last THEN q.now - q.read.last ELSE 0
  BY <1>1
<1>4. Refilled(q) = IF q.read.until = 0 \/ q.read.tokens + q.limit * elapsed > q.limit * Window
                      THEN q.limit * Window ELSE q.read.tokens + q.limit * elapsed
  BY <1>3 DEF Refilled
<1>5. PICK l \in Nat \ {0} : l = q.limit
  BY <1>1
<1>6. Window <= l * Window /\ elapsed <= l * elapsed /\ l * Window \in Nat /\ l * elapsed \in Nat
  OBVIOUS
<1>7. q.read.until # 0 /\ Refilled(q) = q.read.tokens + l * elapsed
  BY <1>1, <1>2, <1>4, <1>5, <1>6
<1>8. q.read.tokens < Window
  BY <1>1, <1>2, <1>6, <1>7
<1>9. PICK x \in Spenders(s) : q.read.last <= q.read.tokens + Stamp(x)
  BY <1>1, <1>7, <1>8 DEF Drawn, DrawnInv
<1>10. Stamp(x) \in Nat
  BY GoodFacts
<1>11. q.now <= Refilled(q) + Stamp(x)
  <2>1. q.now <= q.read.last + elapsed
    BY <1>1, <1>3
  <2>2. PICK n \in Nat : n = l * elapsed
    BY <1>6
  <2> QED
    BY <1>1, <1>6, <1>7, <1>9, <1>10, <2>1, <2>2
<1> QED
  BY <1>1, <1>2, <1>11

(* The tokens of a bucket that has none for a check. *)
LEMMA DrawnKept ==
    ASSUME ChecksInv, ChecksInv', strategy = "bucket", [LimiterNext]_limiterVars, DrawnInv
    PROVE  DrawnInv'
<1>1. \A s : \A x \in Spenders(s) : x \in Requests /\ Stamp(x)' = Stamp(x) /\ Stamp(x) \in Nat
  BY GoodFacts, StampKept DEF Early
<1>2. ASSUME NEW s, NEW v, Drawn(s, v) PROVE Drawn(s, v)'
  BY <1>1, <1>2, SpentKept DEF Drawn
<1>3. ASSUME NEW s, NEW v, Drawn(s, v)
      PROVE  v.until # 0 /\ v.tokens < Window => \E x \in Spenders(s)' : v.last <= v.tokens + Stamp(x)'
  BY <1>1, <1>3, SpentKept DEF Drawn
<1>4. ASSUME NEW r \in Requests, Quiet(r) PROVE DrawnInv'
  <2>1. kept' = kept /\ \A x \in Requests \ {r} : request'[x] = request[x]
    BY <1>4, QuietFacts
  <2>2. ASSUME NEW s \in Stores PROVE Drawn(s, kept[s])'
    BY <1>3, <2>1 DEF Drawn, DrawnInv
  <2>3. ASSUME NEW x \in Requests, request'[x].at = "deciding"
        PROVE  Drawn(request[x].store, request[x].read)'
    <3>1. CASE x = r
      <4>1. Gets(r)
        BY <1>4, <2>3, <3>1, QuietFacts
      <4>2. PICK rec \in Request : Advances(r, rec) /\ rec.read = Found(r)
        BY <4>1 DEF Gets
      <4>3. request'[r] = rec /\ rec.store = request[r].store /\ request[r].store \in Stores
        BY <4>2, TurnedTyped, CheckTyped DEF Advances, ChecksInv
      <4>4. CASE rec.read = kept[request[r].store]
        BY <1>3, <3>1, <4>3, <4>4 DEF Drawn, DrawnInv
      <4>5. CASE rec.read = Nothing
        BY <3>1, <4>3, <4>5 DEF Drawn, Nothing
      <4> QED
        BY <4>2, <4>4, <4>5 DEF Found
    <3>2. CASE x # r
      BY <1>3, <2>1, <2>3, <3>2 DEF Drawn, DrawnInv
    <3> QED
      BY <3>1, <3>2
  <2> QED
    BY <2>2, <2>3 DEF DrawnInv
<1>5. ASSUME NEW r \in Requests, Writes(r) PROVE DrawnInv'
  <2>0. PICK s : s = request[r].store
    OBVIOUS
  <2>1. /\ s \in Stores
        /\ \A z \in Stores : kept'[z] = IF z = s THEN Verdict(r).value ELSE kept[z]
        /\ Verdict(r).ok => r \in Spenders(s)'
        /\ \A x \in Requests \ {r} : request'[x] = request[x]
        /\ request'[r].at \in Ended /\ Stamp(r)' = Stamp(r)
    BY <1>5, <2>0, WritesFacts
  <2>2. /\ kept'[s].last = request[r].now
        /\ kept'[s].tokens = IF Take(r).ok THEN Refilled(request[r]) - Window ELSE Refilled(request[r])
        /\ Verdict(r) = Take(r)
        /\ Take(r).ok <=> Refilled(request[r]) >= Window
    <3>1. Verdict(r) = Take(r)
      BY DEF Verdict
    <3>2. kept'[s] = Take(r).value
      BY <2>1, <3>1
    <3> QED
      BY <3>1, <3>2, TakeFacts
  <2>3. /\ request[r].now \in Nat /\ Refilled(request[r]) \in Nat /\ Stamp(r) = request[r].now
    BY ReadTyped, RefilledTyped DEF ChecksInv, Stamp
  <2>4. Drawn(s, kept[s])'
    <3>1. CASE Take(r).ok
      <4>1. kept'[s].last <= kept'[s].tokens + Stamp(r)'
        BY <2>1, <2>2, <2>3, <3>1
      <4> QED
        BY <2>1, <2>2, <3>1, <4>1 DEF Drawn
    <3>2. CASE ~Take(r).ok
      <4>1. PICK x \in Spenders(s) : request[r].now <= Refilled(request[r]) + Stamp(x)
        BY <1>5, <2>0, <3>2, EmptyFacts
      <4> QED
        BY <1>1, <2>2, <3>2, <4>1, SpentKept DEF Drawn
    <3> QED
      BY <3>1, <3>2
  <2>5. ASSUME NEW z \in Stores PROVE Drawn(z, kept[z])'
    BY <1>3, <2>1, <2>4 DEF Drawn, DrawnInv
  <2>6. ASSUME NEW x \in Requests, request'[x].at = "deciding"
        PROVE  Drawn(request[x].store, request[x].read)'
    BY <1>3, <2>1, <2>6 DEF Drawn, DrawnInv, Ended
  <2> QED
    BY <2>5, <2>6 DEF DrawnInv
<1>6. CASE Rests
  BY <1>3, <1>6 DEF Drawn, DrawnInv, Rests
<1>7. ASSUME NEW r \in Requests, Counts(r) \/ Expires(r) PROVE FALSE
  BY <1>7 DEF Counts, Expires, ChecksInv, CheckInv
<1> QED
  BY <1>4, <1>5, <1>6, <1>7, LimiterSteps DEF Quiet

(* The reason of a refusal. *)
Others(r) == Spenders(request[r].store) \ {r}
InTheWindow(r) == {x \in Others(r) : Stamp(x) \div Window = Stamp(r) \div Window}
InTheLog(r) == {x \in Others(r) : InWindow(x, r)}

Reason(r) ==
    /\ strategy = "fixed" => Cardinality(InTheWindow(r)) >= Limit
    /\ strategy = "sliding" => Cardinality(InTheLog(r)) >= request[r].limit
    /\ strategy \notin {"fixed", "sliding"} => \E x \in Others(r) : Stamp(r) < Stamp(x) + Window

LEMMA ReasonParts == RefusedForReason <=> \A r \in Requests : request[r].at = "refused" => Reason(r)
<1>1. ASSUME NEW r \in Requests
      PROVE  LET spenders == Spenders(request[r].store) \ {r}
             IN  (CASE strategy = "fixed" ->
                       Cardinality({x \in spenders :
                            Stamp(x) \div Window = Stamp(r) \div Window}) >= Limit
                    [] strategy = "sliding" ->
                       Cardinality({x \in spenders : InWindow(x, r)}) >= request[r].limit
                    [] OTHER -> \E x \in spenders : Stamp(r) < Stamp(x) + Window)
                 <=> Reason(r)
  <2>1. CASE strategy = "fixed"
    BY <2>1 DEF Reason, InTheWindow, Others
  <2>2. CASE strategy = "sliding"
    BY <2>2 DEF Reason, InTheLog, Others
  <2>3. CASE strategy # "fixed" /\ strategy # "sliding"
    BY <2>3 DEF Reason, Others
  <2> QED
    BY <2>1, <2>2, <2>3
<1> QED
  BY <1>1 DEF RefusedForReason

LEMMA ReasonStays ==
    ASSUME ChecksInv, ChecksInv', [LimiterNext]_limiterVars, NEW r \in Requests,
           request[r].at = "refused", Reason(r)
    PROVE  Reason(r)'
<1>1. request'[r] = request[r] /\ strategy' = strategy
  BY AllOnward DEF Onward
<1>2. Stamp(r)' = Stamp(r)
  BY <1>1 DEF Stamp
<1>3. \A x \in Others(r) : x \in Others(r)' /\ Stamp(x)' = Stamp(x)
  <2>1. \A s : \A x \in Spenders(s) : Stamp(x)' = Stamp(x)
    BY GoodFacts, StampKept DEF Early
  <2> QED
    BY <1>1, <2>1, SpentKept DEF Others
<1>4. InTheWindow(r) \subseteq InTheWindow(r)'
  BY <1>2, <1>3 DEF InTheWindow
<1>5. InTheLog(r) \subseteq InTheLog(r)'
  BY <1>1, <1>2, <1>3 DEF InTheLog, InWindow
<1>6. /\ InTheWindow(r) \in SUBSET Requests /\ InTheWindow(r)' \in SUBSET Requests
      /\ InTheLog(r) \in SUBSET Requests /\ InTheLog(r)' \in SUBSET Requests
  BY DEF InTheWindow, InTheLog, Others, Spenders
<1>7. /\ Cardinality(InTheWindow(r)) <= Cardinality(InTheWindow(r)')
      /\ Cardinality(InTheLog(r)) <= Cardinality(InTheLog(r)')
      /\ Cardinality(InTheWindow(r)) \in Nat /\ Cardinality(InTheWindow(r)') \in Nat
      /\ Cardinality(InTheLog(r)) \in Nat /\ Cardinality(InTheLog(r)') \in Nat
  BY <1>4, <1>5, <1>6, FiniteRequests
<1>8. request[r].limit \in Nat
  BY CheckTyped DEF ChecksInv
<1>9. strategy = "fixed" => Cardinality(InTheWindow(r)') >= Limit
  BY <1>7 DEF Reason
<1>10. strategy = "sliding" => Cardinality(InTheLog(r)') >= request'[r].limit
  BY <1>1, <1>7, <1>8 DEF Reason
<1>11. strategy \notin {"fixed", "sliding"} =>
          \E x \in Others(r)' : Stamp(r)' < Stamp(x)' + Window
  BY <1>2, <1>3 DEF Reason
<1> QED
  BY <1>1, <1>9, <1>10, <1>11 DEF Reason

LEMMA ReasonCounted ==
    ASSUME ChecksInv, ChecksInv', [LimiterNext]_limiterVars, NEW r \in Requests, Counts(r),
           request'[r].at = "refused"
    PROVE  Reason(r)'
<1>0. PICK s, w : s = request[r].store /\ w = WindowOf(request[r])
  OBVIOUS
<1>1. /\ s \in Stores /\ w \in Windows /\ w = request[r].now \div Window /\ r \notin SpentIn(s, w)
      /\ \/ Incremented(request[r]).count = counter[s][w].count + 1
         \/ Incremented(request[r]).count = 1
      /\ \A x, y : SpentIn(x, y) \subseteq SpentIn(x, y)'
  BY <1>0, CountsFacts, SpentKept
<1>2. PICK rec \in Request :
        /\ Advances(r, rec) /\ strategy = "fixed" /\ strategy' = strategy
        /\ rec.at = "refused" => Incremented(request[r]).count > Limit
  BY DEF Counts
<1>3. request'[r] = rec /\ rec.store = s /\ rec.now = request[r].now
  BY <1>0, <1>2, TurnedTyped DEF Advances, ChecksInv
<1>4. counter[s][w].count >= Limit /\ counter[s][w].count \in Nat
  BY <1>1, <1>2, <1>3, WindowFacts
<1>5. counter[s][w].count <= Cardinality(SpentIn(s, w))
  BY <1>1 DEF ChecksInv, CountInv
<1>6. SpentIn(s, w) \subseteq InTheWindow(r)'
  <2>1. Stamp(r)' = request[r].now
    BY <1>3 DEF Stamp
  <2> QED
    BY <1>1, <1>3, <2>1 DEF InTheWindow, Others, Spenders, SpentIn, Stamp
<1>7. SpentIn(s, w) \in SUBSET Requests /\ InTheWindow(r)' \in SUBSET Requests
  BY DEF SpentIn, InTheWindow, Others, Spenders
<1>8. /\ Cardinality(SpentIn(s, w)) <= Cardinality(InTheWindow(r)')
      /\ Cardinality(SpentIn(s, w)) \in Nat /\ Cardinality(InTheWindow(r)') \in Nat
  BY <1>6, <1>7, FiniteRequests
<1>9. Cardinality(InTheWindow(r)') >= Limit
  BY <1>4, <1>5, <1>8
<1> QED
  BY <1>2, <1>9 DEF Reason

LEMMA ReasonWritten ==
    ASSUME ChecksInv, ChecksInv', [LimiterNext]_limiterVars, NEW r \in Requests, Writes(r),
           request'[r].at = "refused", strategy = "sliding" => LogInv, strategy = "bucket" => DrawnInv
    PROVE  Reason(r)'
<1>0. PICK s : s = request[r].store
  OBVIOUS
<1>1. /\ strategy' = strategy /\ ~Verdict(r).ok /\ request'[r].store = s /\ Stamp(r)' = Stamp(r)
      /\ request'[r].limit = request[r].limit /\ r \notin Spenders(s)
      /\ Spenders(s) \subseteq Spenders(s)'
  BY <1>0, WritesFacts
<1>2. /\ strategy \in {"sliding", "bucket"} /\ request[r].at = "deciding" /\ Stamp(r) = request[r].now
      /\ Stamp(r) \in Nat /\ request[r].limit \in Nat
  BY CheckTyped DEF Writes, ChecksInv, LimiterTypeOK, Stamp, Times
<1>3. \A x \in Spenders(s) : x \in Others(r)' /\ Stamp(x)' = Stamp(x) /\ Stamp(x) \in Nat
  <2>1. \A x \in Spenders(s) : Stamp(x)' = Stamp(x) /\ Stamp(x) \in Nat
    BY GoodFacts, StampKept DEF Early
  <2> QED
    BY <1>1, <2>1 DEF Others
<1>4. \A x \in Spenders(s) : InWindow(x, r) => x \in InTheLog(r)'
  <2>1. request'[r].window = request[r].window
    BY <1>2, AllOnward DEF Onward
  <2> QED
    BY <1>1, <1>3, <2>1 DEF InTheLog, InWindow
<1>5. CASE strategy = "sliding"
  <2>1. ~Slide(r).ok
    BY <1>1, <1>5 DEF Verdict
  <2>2. ~(Cardinality(Lately(r)) < request[r].limit)
    BY <2>1, SlideFacts, Zenon
  <2>3. Lately(r) \subseteq Spenders(s)
    BY <1>0, <1>2, <1>5, LogParts DEF ReadOf, Lately
  <2>4. \A x \in Lately(r) : InWindow(x, r)
    BY DEF Lately
  <2>5. Lately(r) \subseteq InTheLog(r)'
    BY <1>4, <2>3, <2>4
  <2>6. Lately(r) \in SUBSET Requests /\ InTheLog(r)' \in SUBSET Requests
    BY <2>3 DEF InTheLog, Others, Spenders
  <2>7. /\ Cardinality(Lately(r)) <= Cardinality(InTheLog(r)')
        /\ Cardinality(Lately(r)) \in Nat /\ Cardinality(InTheLog(r)') \in Nat
    BY <2>5, <2>6, FiniteRequests
  <2>8. Cardinality(InTheLog(r)') >= request'[r].limit
    BY <1>1, <1>2, <2>2, <2>7
  <2> QED
    BY <1>1, <1>5, <2>8 DEF Reason
<1>6. CASE strategy = "bucket"
  <2>1. ~Take(r).ok
    BY <1>1, <1>6 DEF Verdict
  <2>2. PICK x \in Spenders(s) : /\ Refilled(request[r]) \in Nat /\ Refilled(request[r]) < Window
                                 /\ request[r].now <= Refilled(request[r]) + Stamp(x)
    BY <1>0, <1>6, <2>1, EmptyFacts
  <2>3. Stamp(r) < Stamp(x) + Window
    BY <1>2, <1>3, <2>2
  <2>4. x \in Others(r)' /\ Stamp(r)' < Stamp(x)' + Window
    BY <1>1, <1>3, <2>3
  <2> QED
    BY <1>1, <1>6, <2>4 DEF Reason
<1> QED
  BY <1>2, <1>5, <1>6

LEMMA ReasonKept ==
    ASSUME ChecksInv, ChecksInv', [LimiterNext]_limiterVars, RefusedForReason,
           strategy = "sliding" => LogInv, strategy = "bucket" => DrawnInv
    PROVE  RefusedForReason'
<1>1. ASSUME NEW r \in Requests, request'[r].at = "refused" PROVE Reason(r)'
  <2>1. CASE request[r].at = "refused"
    BY <2>1, ReasonParts, ReasonStays
  <2>2. CASE request[r].at # "refused"
    <3>1. ASSUME NEW x \in Requests, NEW rec \in Request, Turns(x, rec), rec.at # "refused" PROVE FALSE
      BY <1>1, <2>2, <3>1, TurnedTyped DEF ChecksInv
    <3>2. ASSUME NEW x \in Requests, Begins(x) \/ Gets(x) \/ Expires(x) \/ Drops(x) PROVE FALSE
      BY <3>1, <3>2 DEF Begins, Gets, Expires, Drops, Advances
    <3>3. ASSUME NEW x \in Requests, NEW rec \in Request, Advances(x, rec) PROVE x = r
      BY <1>1, <2>2, <3>3, TurnedTyped DEF ChecksInv, Advances
    <3>4. ASSUME NEW x \in Requests, Counts(x) PROVE Reason(r)'
      <4>1. x = r
        BY <3>3, <3>4 DEF Counts
      <4> QED
        BY <1>1, <3>4, <4>1, ReasonCounted
    <3>5. ASSUME NEW x \in Requests, Writes(x) PROVE Reason(r)'
      <4>1. x = r
        BY <3>3, <3>5 DEF Writes
      <4> QED
        BY <1>1, <3>5, <4>1, ReasonWritten
    <3>6. CASE Rests
      BY <1>1, <2>2, <3>6 DEF Rests
    <3> QED
      BY <3>2, <3>4, <3>5, <3>6, LimiterSteps
  <2> QED
    BY <2>1, <2>2
<1>2. (\A r \in Requests : request[r].at = "refused" => Reason(r))' => RefusedForReason'
  BY ReasonParts, PTL
<1> QED
  BY <1>1, <1>2

-----------------------------------------------------------------------------
(* All of it holds always. *)
LimiterInv ==
    /\ ChecksInv
    /\ strategy = "fixed" => WindowsInv
    /\ strategy = "sliding" => LogInv /\ SpanInv
    /\ strategy = "bucket" => BucketInv /\ DrawnInv /\ BucketBound
    /\ RefusedForReason

LEMMA LimiterBegins ==
    ASSUME LimiterInit
    PROVE  LimiterInv
<1>1. ChecksInv
  BY ChecksBegin
<1>2. \A r \in Requests : request[r].at = "new" /\ ~request[r].spent
  BY DEF LimiterInit
<1>3. \A s : Spenders(s) = {} /\ Good(s) = {}
  BY <1>2 DEF Spenders, Good, Admitted
<1>4. Cardinality({}) = 0
  BY FS_EmptySet
<1>5. WindowsInv
  <2>1. \A s, w : PromptIn(s, w) = {} /\ LetIn(s, w) = {}
    BY <1>2 DEF PromptIn, LetIn, SpentIn
  <2>2. \A s \in Stores, w \in Windows : counter[s][w].count = 0 /\ counter[s][w].until = 0
    BY DEF LimiterInit
  <2>3. ASSUME NEW s \in Stores, NEW w \in Windows PROVE WindowInv(s, w)
    <3>1. Cardinality(LetIn(s, w)) = 0 /\ Cardinality(PromptIn(s, w)) = 0
      BY <1>4, <2>1
    <3> QED
      BY <2>1, <2>2, <3>1 DEF WindowInv
  <2> QED
    BY <2>3 DEF WindowsInv, WindowInv
<1>6. \A s \in Stores : kept[s] = Nothing
  BY DEF LimiterInit
<1>7. LogInv
  BY <1>2, <1>3, <1>6 DEF LogInv, Nothing
<1>8. SpanInv
  <2>1. \A s, t, l : InSpan(s, t, l) = {}
    BY <1>3 DEF InSpan
  <2> QED
    BY <1>4, <2>1 DEF SpanInv
<1>9. BucketInv
  <2>1. ASSUME NEW s \in Stores PROVE BucketOf(s)
    <3>1. kept[s].until = 0 /\ now = 0 /\ Good(s) = {}
      BY <1>3, <1>6 DEF LimiterInit, Nothing
    <3>2. FullSince(s, kept[s]) \in Int
      BY <1>1, KeptTyped DEF ChecksInv
    <3>3. Backed(Good(s), Stamps, FullSince(s, kept[s]), Full)
      BY <3>1, <3>2, BackedNone
    <3> QED
      BY <3>1, <3>3 DEF BucketOf
  <2>2. \A r \in Requests : TakenOf(r)
    BY <1>2 DEF TakenOf
  <2> QED
    BY <2>1, <2>2, BucketParts
<1>10. DrawnInv
  BY <1>2, <1>6 DEF DrawnInv, Drawn, Nothing
<1>11. BucketBound
  <2>1. ASSUME NEW s \in Stores, NEW t \in Times, NEW u \in t..MaxTime
        PROVE  Window * Cardinality(Between(s, t, u)) <= Limit * (Window + u - t + rewound[s])
    <3>1. Between(s, t, u) = {}
      BY <1>3 DEF Between
    <3>2. rewound[s] \in Nat /\ t \in Nat /\ u \in Nat /\ t <= u
      BY <1>1 DEF ChecksInv, LimiterTypeOK, Times
    <3>3. 0 <= Window + u - t + rewound[s] /\ Window + u - t + rewound[s] \in Nat
      BY <3>2
    <3>4. 0 <= Limit * (Window + u - t + rewound[s])
      BY <3>3, Arithmetic
    <3> QED
      BY <1>4, <3>1, <3>4
  <2> QED
    BY <2>1 DEF BucketBound, Between, Good
<1>12. RefusedForReason
  BY <1>2 DEF RefusedForReason
<1> QED
  BY <1>1, <1>5, <1>7, <1>8, <1>9, <1>10, <1>11, <1>12 DEF LimiterInv

LEMMA LimiterInvKept ==
    ASSUME LimiterInv, [LimiterNext]_limiterVars
    PROVE  LimiterInv'
<1>1. ChecksInv /\ ChecksInv' /\ strategy' = strategy
  BY ChecksKept, AllOnward DEF LimiterInv
<1>2. strategy = "fixed" => WindowsInv'
  BY <1>1, WindowsKept DEF LimiterInv
<1>3. strategy = "sliding" => LogInv' /\ SpanInv'
  BY <1>1, LogKept, SpanKept DEF LimiterInv
<1>4. strategy = "bucket" => BucketInv' /\ DrawnInv' /\ BucketBound'
  BY <1>1, BucketKept, DrawnKept, BetweenKept DEF LimiterInv
<1>5. RefusedForReason'
  BY <1>1, ReasonKept DEF LimiterInv
<1> QED
  BY <1>1, <1>2, <1>3, <1>4, <1>5 DEF LimiterInv

LEMMA LimiterAlways == LimiterSpec => []LimiterInv
<1>1. LimiterInit => LimiterInv
  BY LimiterBegins
<1>2. LimiterInv /\ [LimiterNext]_limiterVars => LimiterInv'
  BY LimiterInvKept
<1> QED
  BY <1>1, <1>2, PTL DEF LimiterSpec

LEMMA LimiterImplies ==
    ASSUME LimiterInv
    PROVE  LimiterTypeOK /\ SlidingBound /\ BucketBound /\ FixedBound /\ RefusedForReason
<1>1. BucketBound
  BY DEF LimiterInv, BucketBound
<1>s. SlidingBound
  <2> SUFFICES ASSUME strategy = "sliding", NEW s \in Stores, NEW t \in Times, NEW r \in Begun(s)
               PROVE  Cardinality(InSpan(s, t, request[r].limit)) <= request[r].limit
    BY DEF SlidingBound, InSpan, Good
  <2>1. request[r].limit \in Nat
    BY CheckTyped DEF LimiterInv, ChecksInv, Begun
  <2> QED
    BY <2>1 DEF LimiterInv, SpanInv
<1>2. FixedBound
  <2> SUFFICES ASSUME strategy = "fixed", NEW s \in Stores, NEW w \in Windows
               PROVE  Cardinality({r \in Admitted(s) \ late : request[r].now \div Window = w}) <= Limit
    BY DEF FixedBound
  <2>1. PICK A : A = {r \in Admitted(s) \ late : request[r].now \div Window = w}
    OBVIOUS
  <2>2. A \subseteq LetIn(s, w)
    BY <2>1 DEF Admitted, LetIn, PromptIn, SpentIn, LimiterInv, ChecksInv, CheckInv
  <2>3. A \in SUBSET Requests /\ LetIn(s, w) \in SUBSET Requests
    BY <2>2 DEF LetIn, PromptIn, SpentIn
  <2>4. /\ Cardinality(A) <= Cardinality(LetIn(s, w))
        /\ Cardinality(A) \in Nat /\ Cardinality(LetIn(s, w)) \in Nat
    BY <2>2, <2>3, FiniteRequests
  <2>5. Cardinality(LetIn(s, w)) <= Limit
    BY DEF LimiterInv, WindowsInv
  <2>6. Cardinality(A) <= Limit
    BY <2>4, <2>5
  <2> QED
    BY <2>1, <2>6
<1> QED
  BY <1>1, <1>s, <1>2 DEF LimiterInv, ChecksInv

(***************************************************************************)
(* The types of the limiter, for any number of checks and portals.         *)
(***************************************************************************)
THEOREM LimiterTypeCorrect == LimiterSpec => []LimiterTypeOK
<1>1. LimiterInv => LimiterTypeOK
  BY LimiterImplies
<1> QED
  BY <1>1, LimiterAlways, PTL

(***************************************************************************)
(* Paths with limits and windows of their own share the log of a client.   *)
(* Within the shortest of those windows, wherever it begins and however    *)
(* the checks of several portals interleave, no more than a path's limit   *)
(* are admitted on it and on those as strict, apart from the checks        *)
(* SlidingBound names.                                                     *)
(***************************************************************************)
THEOREM SlidingIsBounded == LimiterSpec => []SlidingBound
<1>1. LimiterInv => SlidingBound
  BY LimiterImplies
<1> QED
  BY <1>1, LimiterAlways, PTL

(***************************************************************************)
(* The token bucket admits between any two times no more than it holds and *)
(* the time refills, the ticks refilled twice included, apart from the     *)
(* checks BucketBound names.                                               *)
(***************************************************************************)
THEOREM BucketIsBounded == LimiterSpec => []BucketBound
<1>1. LimiterInv => BucketBound
  BY LimiterImplies
<1> QED
  BY <1>1, LimiterAlways, PTL

(***************************************************************************)
(* The counters of fixed windows admit no more than the limit of a window, *)
(* whoever dies between INCR and EXPIRE, late increments apart.            *)
(***************************************************************************)
THEOREM FixedIsBounded == LimiterSpec => []FixedBound
<1>1. LimiterInv => FixedBound
  BY LimiterImplies
<1> QED
  BY <1>1, LimiterAlways, PTL

(***************************************************************************)
(* Under none of the strategies is a request refused unless others spent   *)
(* the limit, of a bucket a token, within the last window.                 *)
(***************************************************************************)
THEOREM RefusedWithReason == LimiterSpec => []RefusedForReason
<1>1. LimiterInv => RefusedForReason
  BY LimiterImplies
<1> QED
  BY <1>1, LimiterAlways, PTL

-----------------------------------------------------------------------------
(***************************************************************************)
(* Side by side each part behaves as it does alone, so that all the above  *)
(* holds of a behaviour of RoutesSpec too.                                 *)
(***************************************************************************)
THEOREM PartsBehave == RoutesSpec => PlaybackSpec /\ LimiterSpec /\ SqliteSpec
<1>1. RoutesInit => PlaybackInit /\ LimiterInit /\ SqliteInit
  BY DEF RoutesInit
<1>2. [RoutesNext]_<<part, playbackVars, limiterVars, storeVars>> =>
         /\ [PlaybackNext]_playbackVars
         /\ [LimiterNext]_limiterVars
         /\ [SqliteNext]_storeVars
  BY DEF RoutesNext
<1> QED
  BY <1>1, <1>2, PTL DEF RoutesSpec, PlaybackSpec, LimiterSpec, SqliteSpec

(* The types of the limiter and of the store, wherever they step. *)
THEOREM RoutesTypeCorrect == RoutesSpec => []RoutesTypeOK
<1>1. LimiterTypeOK /\ SqliteTypeOK => RoutesTypeOK
  BY DEF RoutesTypeOK
<1> QED
  BY <1>1, PartsBehave, LimiterTypeCorrect, StoreTypeCorrect, PTL
================================================================================
