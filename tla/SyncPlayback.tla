---------------------------- MODULE SyncPlayback -----------------------------
(***************************************************************************)
(* The replay of mutations made offline: POST /api/sync/playback           *)
(* (apps/portal/src/app/api/sync/playback/route.ts) queues an event, and   *)
(* the job sync-playback (lib/jobs/sync-playback.ts) carries it out, as    *)
(* often as its retries allow.  A client that heard of no success posts    *)
(* again, so a mutation may have several events, whose attempts interleave.*)
(*                                                                         *)
(* An insertion looks for its idempotency key and inserts, in two          *)
(* statements; the table may refuse the second.  RESOLVE_BREAKDOWN is an   *)
(* update by the row's id, without a key: it may match no row, and every   *)
(* attempt that does writes the time of the resolution again.              *)
(***************************************************************************)
EXTENDS Naturals, FiniteSets

CONSTANTS
    Mutations,    \* the mutations made offline
    Kind,         \* Kind[m]: "keyed" (a breakdown, an incident), "log", "resolve"
    Target,       \* Target[m]: the breakdown a "resolve" is about, m for others
    MaxPosts,     \* bound on the times a mutation is posted
    MaxAttempts,  \* the attempts of an event (Inngest's)
    MaxErrors,    \* bound on the statements of the database that fail
    MaxRemovals   \* bound on the mutations whose rows are deleted by hand

Resolves == {m \in Mutations : Kind[m] = "resolve"}
Logs == {m \in Mutations : Kind[m] = "log"}
Inserts == Mutations \ Resolves

ASSUME SyncPlaybackAssumption ==
    /\ Kind \in [Mutations -> {"keyed", "log", "resolve"}]
    /\ Target \in [Mutations -> Mutations]
    /\ \A m \in Mutations : IF Kind[m] = "resolve" THEN Kind[Target[m]] = "keyed" ELSE Target[m] = m
    /\ MaxPosts \in Nat /\ MaxAttempts \in Nat \ {0} /\ MaxErrors \in Nat
    /\ MaxRemovals \in Nat

VARIABLES
    event,   \* event[m][e]: where the e-th event of m stands
    rows,    \* rows[m]: the rows that carry the key of m
    updates, \* updates[m]: how often "resolve" m has updated its row
    removed, \* history: the mutations of which an administrator deleted a row
    errors   \* statements that failed so far

playbackVars == <<event, rows, updates, removed, errors>>

(* The events of a mutation, in the order they are posted. *)
Events == 1..MaxPosts

(* hit: history, whether a statement of the event failed. *)
Event == [at : {"none", "queued", "missing", "done", "dead"},
          attempts : 0..MaxAttempts, hit : BOOLEAN]

NoEvent == [at |-> "none", attempts |-> 0, hit |-> FALSE]

PlaybackTypeOK ==
    /\ event \in [Mutations -> [Events -> Event]]
    /\ rows \in [Inserts -> Nat]
    /\ updates \in [Resolves -> Nat]
    /\ removed \subseteq Inserts
    /\ errors \in 0..MaxErrors

PlaybackInit ==
    /\ event = [m \in Mutations |-> [e \in Events |-> NoEvent]]
    /\ rows = [m \in Inserts |-> 0]
    /\ updates = [m \in Resolves |-> 0]
    /\ removed = {}
    /\ errors = 0

-----------------------------------------------------------------------------
Put(m, e, rec) == event' = [event EXCEPT ![m][e] = rec]

Done(m, e) == Put(m, e, [NoEvent EXCEPT !.at = "done"])

(* Faulty variants: given up at once, or after one attempt too many. *)
ThrownForGood(m, e, hit) ==
    Put(m, e, [at |-> "dead", attempts |-> event[m][e].attempts + 1,
               hit |-> event[m][e].hit \/ hit])

ThrownOnceMore(m, e, hit) ==
    LET n == event[m][e].attempts + 1
    IN  Put(m, e, [at |-> IF n > MaxAttempts THEN "dead" ELSE "queued",
                   attempts |-> n, hit |-> event[m][e].hit \/ hit])

(* An attempt throws: the event is tried again, or given up. *)
Thrown(m, e, hit) ==
    LET n == event[m][e].attempts + 1
    IN  Put(m, e, [at |-> IF n = MaxAttempts THEN "dead" ELSE "queued",
                   attempts |-> n, hit |-> event[m][e].hit \/ hit])

Error == errors < MaxErrors /\ errors' = errors + 1

(* Whether the row of m has been there, even if it was deleted since. *)
Brought(m) == rows[m] > 0 \/ m \in removed

(***************************************************************************)
(* POST queues an event.  The client may not hear of it and post again; a  *)
(* "resolve" names the id of a row, which its client has seen.             *)
(***************************************************************************)
Post(m, e) ==
    /\ event[m][e].at = "none" /\ \A d \in 1..(e - 1) : event[m][d].at # "none"
    /\ m \in Resolves => Brought(Target[m])
    /\ Put(m, e, [NoEvent EXCEPT !.at = "queued"])
    /\ UNCHANGED <<rows, updates, removed, errors>>

(* An attempt begins with SELECT id ... WHERE idempotency_key = ... *)
Look(m, e) ==
    /\ m \in Inserts /\ event[m][e].at = "queued"
    /\ \/ /\ rows[m] > 0
          /\ Done(m, e)
          /\ UNCHANGED errors
       \/ /\ rows[m] = 0
          /\ Put(m, e, [event[m][e] EXCEPT !.at = "missing"])
          /\ UNCHANGED errors
    /\ UNCHANGED <<rows, updates, removed>>

(* Faulty variant: what cannot be read is taken to be there. *)
LookFailsDone(m, e) ==
    /\ m \in Inserts /\ event[m][e].at = "queued"
    /\ Error
    /\ Done(m, e)
    /\ UNCHANGED <<rows, updates, removed>>

(* Its error is not looked at: no data, or none that may be seen, is no row. *)
LookFails(m, e) ==
    /\ m \in Inserts /\ event[m][e].at = "queued"
    /\ Error
    /\ Put(m, e, [event[m][e] EXCEPT !.at = "missing", !.hit = TRUE])
    /\ UNCHANGED <<rows, updates, removed>>

(* Faulty variant: the partitioned table without its unique constraint. *)
RefusedByKeyOnly(m) == m \notin Logs /\ rows[m] > 0

(***************************************************************************)
(* What the table refuses: a second row with the key, or, daily_logs being *)
(* partitioned, a second row of a department's shift (migrations 019, 020).*)
(* All logs of the model are of one shift.                                 *)
(***************************************************************************)
Refused(m) ==
    IF m \in Logs THEN \E n \in Logs : rows[n] > 0 ELSE rows[m] > 0

Insert(m, e) ==
    /\ event[m][e].at = "missing"
    /\ IF Refused(m)
         THEN /\ Thrown(m, e, FALSE)
              /\ UNCHANGED rows
         ELSE /\ Done(m, e)
              /\ rows' = [rows EXCEPT ![m] = @ + 1]
    /\ UNCHANGED <<updates, removed, errors>>

(* The statement fails (the table may also refuse the values or the user), *)
(* or it took effect and the job did not hear of it.                       *)
InsertFails(m, e) ==
    /\ event[m][e].at = "missing"
    /\ Error
    /\ Thrown(m, e, TRUE)
    /\ \/ UNCHANGED rows
       \/ ~Refused(m) /\ rows' = [rows EXCEPT ![m] = @ + 1]
    /\ UNCHANGED <<updates, removed>>

(***************************************************************************)
(* UPDATE ... WHERE id = ..., with the time of now, whether or not the     *)
(* breakdown is resolved already.  A row that is gone, or that the policy  *)
(* hides from who updates (043:148-152), is not matched, which is no error.*)
(***************************************************************************)
Update(m) ==
    \/ rows[Target[m]] > 0 /\ updates' = [updates EXCEPT ![m] = @ + 1]
    \/ UNCHANGED updates

Resolve(m, e) ==
    /\ m \in Resolves /\ event[m][e].at = "queued"
    /\ Done(m, e)
    /\ Update(m)
    /\ UNCHANGED <<rows, removed, errors>>

ResolveFails(m, e) ==
    /\ m \in Resolves /\ event[m][e].at = "queued"
    /\ Error
    /\ Thrown(m, e, TRUE)
    /\ Update(m)
    /\ UNCHANGED <<rows, removed>>

(* An administrator deletes the row (DELETE of api/admin/data/[table]). *)
Remove(m) ==
    /\ m \in Inserts /\ rows[m] > 0
    /\ Cardinality(removed \union {m}) <= MaxRemovals
    /\ rows' = [rows EXCEPT ![m] = 0]
    /\ removed' = removed \union {m}
    /\ UNCHANGED <<event, updates, errors>>

-----------------------------------------------------------------------------
EventStep(m, e) ==
    \/ Look(m, e) \/ LookFails(m, e) \/ Insert(m, e) \/ InsertFails(m, e)
    \/ Resolve(m, e) \/ ResolveFails(m, e)

(* Nothing is left to do while no event is under way. *)
AllOver ==
    /\ \A m \in Mutations, e \in Events : event[m][e].at \in {"none", "done", "dead"}
    /\ UNCHANGED playbackVars

PlaybackNext ==
    \/ \E m \in Mutations, e \in Events : Post(m, e) \/ EventStep(m, e)
    \/ \E m \in Mutations : Remove(m)
    \/ AllOver

PlaybackSpec == PlaybackInit /\ [][PlaybackNext]_playbackVars

-----------------------------------------------------------------------------
(***************************************************************************)
(* The abstract view, of the mutations that have a key or a shift of their *)
(* own: such a mutation is accepted once one of its events was queued, and *)
(* applied while its row is there.                                         *)
(***************************************************************************)
Stage(m) ==
    CASE rows[m] > 1 -> "twice"
      [] rows[m] = 1 -> "applied"
      [] OTHER -> IF \E e \in Events : event[m][e].at # "none" THEN "accepted" ELSE "offered"

View == [m \in Inserts |-> Stage(m)]

Promise == INSTANCE ExactlyOnce
             WITH effect <- View,
                  Mutations <- Inserts,
                  Exclusive <- [m \in Inserts |-> IF m \in Logs THEN Logs ELSE {}]

(***************************************************************************)
(* However often an insertion is posted, and whatever statements fail      *)
(* after or before they took effect, its row is there once at most, and of *)
(* the logs of a shift only one is: the job implements ExactlyOnce.  Only  *)
(* an administrator who deletes the row lets a late event bring it again.  *)
(***************************************************************************)
AppliedOnce == Promise!Spec

(* What the same promise would be for resolutions, and is not: every       *)
(* duplicate and every retry sets date_out and time_out to its own time.   *)
ResolvedOnce == \A m \in Resolves : updates[m] <= 1

(***************************************************************************)
(* An event is given up for a reason: statements of its own failed, its    *)
(* row was there and deleted, or the log it brings is not the first of its *)
(* shift.  Losing the race between the look and the insertion costs an     *)
(* attempt, never the mutation.                                            *)
(***************************************************************************)
GivenUpForReason ==
    \A m \in Mutations, e \in Events :
        event[m][e].at = "dead" /\ ~event[m][e].hit =>
            m \in removed \/ (m \in Logs /\ \E n \in Logs \ {m} : Brought(n))

(***************************************************************************)
(* An insertion whose event is done, or was bypassed, has brought its row. *)
(* Of a resolution nothing of the kind holds: it is done when no row was   *)
(* there to update.                                                        *)
(***************************************************************************)
DoneMeansApplied ==
    \A m \in Inserts, e \in Events : event[m][e].at = "done" => Brought(m)
=============================================================================
