----------------------------- MODULE RateLimiter -----------------------------
(***************************************************************************)
(* Rate limiting of one identifier.  The middleware of the portal          *)
(* (lib/api/rate-limit-middleware.ts) keeps a token bucket for /api/ai/    *)
(* and a sliding log for all else, each read and written back in two       *)
(* commands; @repo/rate-limiter counts in fixed windows, with INCR and     *)
(* EXPIRE.  The checks of several requests, in several pods, interleave.   *)
(* The paths behind the sliding log have limits and windows of their own   *)
(* (rate-limit-config.ts), and one log per client for all of them.         *)
(*                                                                         *)
(* A pod's store is Redis, or its fallback when getRedisClient() finds no  *)
(* Redis.  Time is in ticks; Window ticks are the window.  Tokens are kept *)
(* in units of 1/Window.                                                   *)
(***************************************************************************)
EXTENDS Naturals, FiniteSets

CONSTANTS
    MaxRequests,
    Portals,
    Limit,      \* maxRequests of the bucket, limit of the fixed windows
    Window,     \* their window
    Configs,    \* the limits and windows of the paths behind the sliding log, halved ones too
    MaxTime,    \* bound on the time
    Strategies, \* the strategies to consider, of "sliding", "bucket", "fixed"
    Redis       \* the shared store; those of the pods are named after them

ASSUME RateLimiterAssumption ==
    /\ MaxRequests \in Nat
    /\ Limit \in Nat \ {0} /\ Window \in Nat \ {0} /\ MaxTime \in Nat
    /\ Configs \subseteq [maxRequests : Nat \ {0}, windowMs : Nat \ {0}]
    /\ Strategies \subseteq {"sliding", "bucket", "fixed"}
    /\ Redis \notin Portals

VARIABLES
    strategy,
    now,
    up,         \* whether Redis answers
    chosen,     \* chosen[p]: globalRedisStore of p, Redis or p's fallback, or none yet
    kept,       \* kept[s]: the value under the key of the bucket or of the log
    counter,    \* counter[s][w]: the counter of window w
    request,    \* request[r]: where the check of a request stands
    lost,       \* history: the admissions made while another check had read and not yet written
    late,       \* history: the checks that read after their window, or were overtaken
    rewound     \* history: rewound[s]: the ticks lastRefill went back by

limiterVars == <<strategy, now, up, chosen, kept, counter, request, lost, late, rewound>>

(* The requests, in the order their checks begin. *)
Requests == 1..MaxRequests

Stores == Portals \cup {Redis}
Times == 0..MaxTime
Windows == 0..(MaxTime \div Window)
Forever == MaxTime + 2 * Window + 1

(* A log (the requests whose stamps it has, in an order that decides nothing) or a bucket, with the time of its last write. *)
Kept == [log : {log \in SUBSET Requests :
                   log = {} \/ \E c \in Configs : Cardinality(log) <= c.maxRequests},
         tokens : 0..(Limit * Window), last : Times, until : Nat]

Nothing == [log |-> {}, tokens |-> 0, last |-> 0, until |-> 0]

Counter == [count : 0..MaxRequests, until : 0..Forever]

Request == [at : {"new", "asking", "deciding", "counted", "admitted", "refused", "waved", "failed"},
            store : Stores, now : Times,
            limit : Nat \ {0},
            window : Nat \ {0},
            read : Kept,
            knew : SUBSET Requests, \* history: the admissions that are in what it read
            spent : BOOLEAN]       \* history: it was counted against the limit

(***************************************************************************)
(* The limits and windows a check may have: getRateLimitConfig() of its    *)
(* path, or the customLimit of its route.  Under high load the middleware  *)
(* halves the limit.                                                       *)
(***************************************************************************)
Limits ==
    CASE strategy = "sliding" -> Configs
      [] strategy = "bucket" -> {[maxRequests |-> Limit, windowMs |-> Window],
                                 [maxRequests |-> IF Limit = 1 THEN 1 ELSE Limit \div 2,
                                  windowMs |-> Window]}
      [] OTHER -> {[maxRequests |-> Limit, windowMs |-> Window]}

Configured(q) == \E c \in Limits : q.limit = c.maxRequests /\ q.window = c.windowMs

LimiterTypeOK ==
    /\ strategy \in Strategies
    /\ now \in Times
    /\ up \in BOOLEAN
    /\ \A p \in Portals : chosen[p] \in {{}, {Redis}, {p}}
    /\ kept \in [Stores -> Kept]
    /\ counter \in [Stores -> [Windows -> Counter]]
    /\ request \in [Requests -> Request]
    /\ \A r \in Requests : Configured(request[r]) \/ (strategy = "sliding" /\ request[r].at = "new")
    /\ lost \subseteq Requests /\ late \subseteq Requests
    /\ rewound \in [Stores -> Nat]

LimiterInit ==
    /\ strategy \in Strategies
    /\ now = 0
    /\ up \in BOOLEAN
    /\ chosen = [p \in Portals |-> {}]
    /\ kept = [s \in Stores |-> Nothing]
    /\ counter = [s \in Stores |-> [w \in Windows |-> [count |-> 0, until |-> 0]]]
    /\ request = [r \in Requests |-> [at |-> "new", store |-> Redis, now |-> 0, limit |-> Limit,
                                      window |-> Window, read |-> Nothing, knew |-> {}, spent |-> FALSE]]
    /\ lost = {} /\ late = {}
    /\ rewound = [s \in Stores |-> 0]

-----------------------------------------------------------------------------
(* History: the requests that were counted against the limit in a store. *)
Spenders(s) == {x \in Requests : request[x].store = s /\ request[x].spent}

Reach(r, at) == request' = [request EXCEPT ![r].at = at]

Reachable(s) == s = Redis => up

(***************************************************************************)
(* A request's check begins: it has a store and takes the time.  The       *)
(* middleware keeps the store of the pod's first check for good; the       *)
(* package's limiter asks for the client each time.                        *)
(***************************************************************************)
BeginCheck(r, p) ==
    LET current == IF up THEN Redis ELSE p
        s == IF strategy # "fixed" /\ chosen[p] # {} THEN CHOOSE x \in chosen[p] : TRUE
             ELSE current
    IN  /\ request[r].at = "new" /\ \A x \in 1..(r - 1) : request[x].at # "new"
        /\ \E c \in Limits :
              request' = [request EXCEPT ![r] = [@ EXCEPT !.at = "asking", !.store = s, !.now = now,
                                                          !.limit = c.maxRequests,
                                                          !.window = c.windowMs]]
        /\ chosen' = IF strategy = "fixed" THEN chosen ELSE [chosen EXCEPT ![p] = {s}]
        /\ UNCHANGED <<strategy, now, up, kept, counter, lost, late, rewound>>

Stamp(x) == request[x].now

(* The checks that share what a store keeps. *)
Begun(s) == {x \in Requests : request[x].at # "new" /\ request[x].store = s}

(* History: a check of the log that began at a later time is over before r reads. *)
Overtaken(r) ==
    strategy = "sliding" /\ \E x \in Requests :
        /\ request[x].store = request[r].store /\ Stamp(r) < Stamp(x)
        /\ request[x].at \in {"admitted", "refused", "failed"}

(* store.get(); an expired value is none. *)
Get(r) ==
    LET q == request[r]
        value == IF now < kept[q.store].until THEN kept[q.store] ELSE Nothing
    IN  /\ strategy # "fixed" /\ q.at = "asking" /\ Reachable(q.store)
        /\ request' = [request EXCEPT ![r] = [q EXCEPT !.at = "deciding", !.read = value,
                                                       !.knew = Spenders(q.store)]]
        /\ late' = IF Overtaken(r) \/ (\E y \in Begun(q.store) : now >= q.now + request[y].window)
                     THEN late \cup {r} ELSE late
        /\ UNCHANGED <<strategy, now, up, chosen, kept, counter, lost, rewound>>

-----------------------------------------------------------------------------
(* Faulty variant: entries count for a tick less than the window. *)
InWindowShort(x, r) == Stamp(x) + request[r].window > Stamp(r) + 1

(* Whether x counts for r, by the window of r's path. *)
InWindow(x, r) == Stamp(x) + request[r].window > Stamp(r)

(* Faulty variant: <= where the log is compared with the limit. *)
SlideOneMore(r) ==
    LET q == request[r]
        log == {x \in q.read.log : InWindow(x, r)}
        ok == Cardinality(log) <= q.limit
    IN  [ok |-> ok,
         value |-> [log |-> IF ok THEN log \cup {r} ELSE log, tokens |-> 0, last |-> q.now,
                    until |-> now + 2 * q.window]]

(* SlidingWindowStrategy.check(): the stamps of the window, and its own if  *)
(* there is room; what another path's window still needs is dropped.        *)
Slide(r) ==
    LET q == request[r]
        log == {x \in q.read.log : InWindow(x, r)}
        ok == Cardinality(log) < q.limit
    IN  [ok |-> ok,
         value |-> [log |-> IF ok THEN log \cup {r} ELSE log, tokens |-> 0, last |-> q.now,
                    until |-> now + 2 * q.window]]

(* Faulty variant: the refill counts a tick too many. *)
RefilledOneMore(q) ==
    LET elapsed == IF q.now > q.read.last THEN q.now - q.read.last ELSE 0
        tokens == q.read.tokens + q.limit * (elapsed + 1)
    IN  IF q.read.until = 0 \/ tokens > q.limit * Window THEN q.limit * Window ELSE tokens

(* The tokens by now: full for a new bucket, else refilled for the time that passed, if it did. *)
Refilled(q) ==
    LET elapsed == IF q.now > q.read.last THEN q.now - q.read.last ELSE 0
        tokens == q.read.tokens + q.limit * elapsed
    IN  IF q.read.until = 0 \/ tokens > q.limit * Window THEN q.limit * Window ELSE tokens

(* TokenBucketStrategy.check(): refill, and one token if there is one; lastRefill may go back. *)
Take(r) ==
    LET q == request[r]
        tokens == Refilled(q)
        ok == tokens >= Window
    IN  [ok |-> ok,
         value |-> [log |-> {},
                    tokens |-> IF ok THEN tokens - Window ELSE tokens,
                    last |-> q.now, until |-> now + 2 * Window]]

Verdict(r) == IF strategy = "sliding" THEN Slide(r) ELSE Take(r)

Store(r) ==
    LET q == request[r]
        v == Verdict(r)
    IN  /\ kept' = [kept EXCEPT ![q.store] = v.value]
        /\ lost' = lost \cup (Spenders(q.store) \ q.knew)
        /\ rewound' = IF strategy = "bucket" /\ q.read.last > q.now
                        THEN [rewound EXCEPT ![q.store] = @ + q.read.last - q.now] ELSE rewound

(* store.set() of what it made of the value, and the answer. *)
Set(r) ==
    LET q == request[r]
        ok == Verdict(r).ok
    IN  /\ q.at = "deciding" /\ Reachable(q.store)
        /\ Store(r)
        /\ request' = [request EXCEPT ![r] = [q EXCEPT !.at = IF ok THEN "admitted" ELSE "refused",
                                                       !.read = Nothing, !.knew = {},
                                                       !.spent = ok]]
        /\ UNCHANGED <<strategy, now, up, chosen, counter, late>>

-----------------------------------------------------------------------------
(* Faulty variant: one counter for all windows, as in the middleware's increment(). *)
WindowOfAll(q) == 0 * q.now
WindowOf(q) == q.now \div Window

(* The counter of the window after INCR, which starts from 1 when there is none. *)
Incremented(q) ==
    LET c == counter[q.store][WindowOf(q)]
    IN  IF now < c.until THEN [c EXCEPT !.count = @ + 1] ELSE [count |-> 1, until |-> Forever]

Count(q) == counter' = [counter EXCEPT ![q.store][WindowOf(q)] = Incremented(q)]

(* INCR, and the answer - unless it counted 1 and has to set the expiry first. *)
Incr(r) ==
    LET q == request[r]
        count == Incremented(q).count
    IN  /\ strategy = "fixed" /\ q.at = "asking" /\ Reachable(q.store)
        /\ Count(q)
        /\ request' = [request EXCEPT ![r] =
                          [q EXCEPT !.at = IF count = 1 THEN "counted"
                                           ELSE IF count <= q.limit THEN "admitted" ELSE "refused",
                                    !.spent = TRUE]]
        /\ late' = IF now \div Window > q.now \div Window THEN late \cup {r} ELSE late
        /\ UNCHANGED <<strategy, now, up, chosen, kept, lost, rewound>>

(* Faulty variant: the counter is to live a tick less than its window. *)
ExpireTooSoon(r) ==
    LET q == request[r]
    IN  /\ q.at = "counted" /\ Reachable(q.store)
        /\ counter' = [counter EXCEPT ![q.store][WindowOf(q)].until = now + Window - 1]
        /\ Reach(r, "admitted")
        /\ UNCHANGED <<strategy, now, up, chosen, kept, lost, late, rewound>>

(* EXPIRE by who counted 1. *)
Expire(r) ==
    LET q == request[r]
    IN  /\ q.at = "counted" /\ Reachable(q.store)
        /\ counter' = [counter EXCEPT ![q.store][WindowOf(q)].until = now + Window]
        /\ Reach(r, "admitted")
        /\ UNCHANGED <<strategy, now, up, chosen, kept, lost, late, rewound>>

(***************************************************************************)
(* A command to Redis fails, with or without effect.  The package's        *)
(* limiter lets the request through; the middleware throws.                *)
(***************************************************************************)
Fail(r) ==
    LET q == request[r]
        over == [q EXCEPT !.at = IF strategy = "fixed" THEN "waved" ELSE "failed", !.read = Nothing,
                           !.knew = {}]
    IN  /\ q.at \in {"asking", "deciding", "counted"} /\ ~Reachable(q.store)
        /\ \/ /\ request' = [request EXCEPT ![r] = over]
              /\ UNCHANGED <<kept, counter, lost, rewound>>
           \/ /\ q.at = "deciding"
              /\ Store(r)
              /\ request' = [request EXCEPT ![r] = [over EXCEPT !.spent = Verdict(r).ok]]
              /\ UNCHANGED counter
           \/ /\ q.at = "asking" /\ strategy = "fixed"
              /\ Count(q)
              /\ request' = [request EXCEPT ![r] = [over EXCEPT !.spent = TRUE]]
              /\ UNCHANGED <<kept, lost, rewound>>
        /\ UNCHANGED <<strategy, now, up, chosen, late>>

(* The pod dies between INCR and EXPIRE: the counter has no end. *)
CrashDuring(r) ==
    /\ request[r].at = "counted"
    /\ Reach(r, "failed")
    /\ UNCHANGED <<strategy, now, up, chosen, kept, counter, lost, late, rewound>>

LimiterTick ==
    /\ now < MaxTime
    /\ now' = now + 1
    /\ UNCHANGED <<strategy, up, chosen, kept, counter, request, lost, late, rewound>>

RedisChanges ==
    /\ up' = ~up
    /\ UNCHANGED <<strategy, now, chosen, kept, counter, request, lost, late, rewound>>

LimiterNext ==
    \/ \E r \in Requests :
        \/ \E p \in Portals : BeginCheck(r, p)
        \/ Get(r) \/ Set(r) \/ Incr(r) \/ Expire(r) \/ Fail(r) \/ CrashDuring(r)
    \/ LimiterTick \/ RedisChanges

LimiterSpec == LimiterInit /\ [][LimiterNext]_limiterVars

-----------------------------------------------------------------------------
Admitted(s) == {r \in Requests : request[r].at = "admitted" /\ request[r].store = s}

(* Whether x is in the window that ends at t, for every path that shares the log. *)
Near(s, x, t) == \A y \in Begun(s) : t < Stamp(x) + request[y].window

(***************************************************************************)
(* The sliding log "prevents boundary bursts", within the shortest of the  *)
(* windows that share it: in no such window, wherever it begins, does a    *)
(* store admit more than a path's limit on that path and those as strict - *)
(* but for admissions made between another check's reading and writing,    *)
(* and checks that read after such a window or were overtaken by one of a  *)
(* later time.                                                             *)
(***************************************************************************)
SlidingBound ==
    strategy = "sliding" =>
        \A s \in Stores, t \in Times : \A r \in Begun(s) :
            Cardinality({x \in Admitted(s) \ (lost \cup late) :
                            /\ request[x].limit <= request[r].limit
                            /\ Stamp(x) <= t /\ Near(s, x, t)}) <= request[r].limit

(***************************************************************************)
(* What a path is configured to promise, and does not get: the limit in    *)
(* its own window.  One check of a path with a shorter window is enough to *)
(* make the log forget.                                                    *)
(***************************************************************************)
OwnWindowBound ==
    strategy = "sliding" =>
        \A s \in Stores, t \in Times : \A r \in Begun(s) :
            Cardinality({x \in Admitted(s) \ (lost \cup late) :
                            /\ request[x].limit <= request[r].limit
                            /\ request[x].window = request[r].window
                            /\ Stamp(x) <= t /\ t < Stamp(x) + request[r].window})
                <= request[r].limit

(***************************************************************************)
(* The token bucket: between any two times a store admits no more than the *)
(* bucket holds and the time refills, but for admissions made between      *)
(* another check's reading and writing, checks that read after their       *)
(* window, and the ticks refilled twice because lastRefill went back.      *)
(***************************************************************************)
BucketBound ==
    strategy = "bucket" =>
        \A s \in Stores, t \in Times : \A u \in t..MaxTime :
            Window * Cardinality({r \in Admitted(s) \ (lost \cup late) : Stamp(r) \in t..u}) <=
                Limit * (Window + u - t + rewound[s])

(***************************************************************************)
(* The fixed windows: of a window no more than the limit are admitted,     *)
(* whoever dies between INCR and EXPIRE and whenever the counter expires,  *)
(* but for those whose INCR arrives after the window.                      *)
(***************************************************************************)
FixedBound ==
    strategy = "fixed" =>
        \A s \in Stores, w \in Windows :
            Cardinality({r \in Admitted(s) \ late : request[r].now \div Window = w}) <= Limit

(***************************************************************************)
(* Nobody is refused without reason: the limit was spent, of a bucket a    *)
(* token at least, by requests of the last window, on whatever paths - so  *)
(* a counter without an end, or a value that came late, locks nobody out.  *)
(***************************************************************************)
RefusedForReason ==
    \A r \in Requests :
        request[r].at = "refused" =>
            LET spenders == Spenders(request[r].store) \ {r}
            IN  CASE strategy = "fixed" ->
                       Cardinality({x \in spenders :
                            Stamp(x) \div Window = Stamp(r) \div Window}) >= Limit
                  [] strategy = "sliding" ->
                       Cardinality({x \in spenders : InWindow(x, r)}) >= request[r].limit
                  [] OTHER -> \E x \in spenders : Stamp(r) < Stamp(x) + Window
=============================================================================
