---------------------------- MODULE MCApiRoutes -----------------------------
(***************************************************************************)
(* Two mechanisms of the API routes, SyncPlayback and RateLimiter, and the *)
(* fallback store of the cache, SqliteStore, side by side: they are checked    *)
(* without shared state, and in a behaviour one of them steps while the    *)
(* others stay as they begin.  Of the playback either the breakdown and    *)
(* its resolution or the logs step: they share no row.                     *)
(***************************************************************************)
EXTENDS SyncPlayback, RateLimiter, SqliteStore, TLC

VARIABLE part \* the module that steps

(* A breakdown, its resolution, and two logs of one shift. *)
CONSTANTS add, resolve, log1, log2

Kinds == add :> "keyed" @@ resolve :> "resolve" @@ log1 :> "log" @@ log2 :> "log"
Targets == add :> add @@ resolve :> add @@ log1 :> log1 @@ log2 :> log2

(* Any path, and the strict ones of authentication: fewer requests, a longer window. *)
Paths == {[maxRequests |-> 2, windowMs |-> 1], [maxRequests |-> 1, windowMs |-> 2]}

(* A response, a counter of requests, the keys of a tag and a list. *)
CONSTANTS response, visits, tag, list

StoreKinds == response :> "string" @@ visits :> "counter" @@ tag :> "set" @@ list :> "list"

(* The mutations of M are left alone. *)
Untouched(M) == \A m \in M : event'[m] = event[m]

RoutesInit ==
    /\ part \in {"breakdowns", "logs", "limiter", "store"}
    /\ PlaybackInit /\ LimiterInit /\ SqliteInit
    /\ part # "limiter" => up /\ strategy = "fixed"

RoutesNext ==
    /\ \/ part = "breakdowns" /\ PlaybackNext /\ Untouched(Logs) /\ UNCHANGED <<limiterVars, storeVars>>
       \/ part = "logs" /\ PlaybackNext /\ Untouched(Mutations \ Logs) /\ UNCHANGED <<limiterVars, storeVars>>
       \/ part = "limiter" /\ LimiterNext /\ UNCHANGED <<playbackVars, storeVars>>
       \/ part = "store" /\ SqliteNext /\ UNCHANGED <<playbackVars, limiterVars>>
    /\ UNCHANGED part

RoutesSpec == RoutesInit /\ [][RoutesNext]_<<part, playbackVars, limiterVars, storeVars>>

(* The types of the limiter, and of the store where it steps. *)
RoutesTypeOK == LimiterTypeOK /\ (part = "store" => SqliteTypeOK)
=============================================================================
