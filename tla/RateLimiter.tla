------------------------------ MODULE RateLimiter ------------------------------
(***************************************************************************)
(* The in-memory rate limiter of the HTTP routes                           *)
(* (internal/middleware/rate_limit.go): a fixed window for each key, begun *)
(* by the first request after the last window ended.  allow holds the      *)
(* mutex from its first line to its last, so it is one step, and the       *)
(* pruning of old buckets is part of it.  The clock is read before the     *)
(* mutex is taken: a request that waited for it decides with an old time.  *)
(*                                                                         *)
(* A request's key is its route and client.  Times are kept as ages, in    *)
(* ticks: how long ago a window began or a request read the clock.         *)
(***************************************************************************)
EXTENDS Integers, FiniteSets

CONSTANTS Key,           \* routes and client addresses
          Watched,       \* the key whose allowed requests are counted
          NoKey,         \* a request that is not there
          Request,       \* requests between the clock and the mutex
          RequestLimit,  \* requests of a window
          Window,        \* its length in ticks
          MaxDelay       \* bound: ticks a request waits for the mutex

ASSUME LimiterAssumption ==
    /\ Watched \in Key /\ NoKey \notin Key
    /\ IsFiniteSet(Request)
    /\ RequestLimit \in Nat \ {0}
    /\ Window \in Nat \ {0}
    /\ MaxDelay \in Nat

\* Ages from here on are not told apart: every request finds such a window over.
Old == 2 * Window + 1 + MaxDelay

\* How many ticks back allowed requests are remembered, for the properties.
Memory == Window + MaxDelay

VARIABLES buckets,       \* the buckets in the map: [age, count] by key
          key,           \* key[r]: the key of request r
          age,           \* age[r]: how long ago it read the clock
          allowed        \* allowed[n]: requests of Watched allowed in the last n ticks

limiterVars == <<buckets, key, age, allowed>>

LimiterTypeOK ==
    /\ DOMAIN buckets \subseteq Key
    /\ \A k \in DOMAIN buckets : buckets[k] \in [age : 0..Old, count : 1..RequestLimit]
    /\ key \in [Request -> Key \cup {NoKey}]
    /\ age \in [Request -> 0..MaxDelay]
    /\ allowed \in [0..Memory -> Nat]

NoBuckets == [k \in {} |-> [age |-> 0, count |-> 1]]
NoneAllowed == [n \in 0..Memory |-> 0]

LimiterInit ==
    /\ buckets = NoBuckets
    /\ key = [r \in Request |-> NoKey]
    /\ age = [r \in Request |-> 0]
    /\ allowed = NoneAllowed

-----------------------------------------------------------------------------
\* Middleware: time.Now is evaluated, the mutex comes next.
Arrive(r, k) ==
    /\ key[r] = NoKey
    /\ key' = [key EXCEPT ![r] = k]
    /\ UNCHANGED <<buckets, age, allowed>>

Leave(r) ==
    /\ key' = [key EXCEPT ![r] = NoKey]
    /\ age' = [age EXCEPT ![r] = 0]

\* now.Sub(bucket.windowStart): negative when the window began after r's now.
Elapsed(r, b) == b.age - age[r]

\* Mutant: a window ends when its bucket may be pruned.
OverLate(r, b) == Elapsed(r, b) > 2 * Window

Over(r, b) == Elapsed(r, b) >= Window

\* Mutant: a bucket is removed as soon as the clock has moved on.
PrunedEarly(r, b) == Elapsed(r, b) > 0

\* prune: a bucket that ended a window ago is removed.
Pruned(r, b) == Elapsed(r, b) > 2 * Window

NewWindow(r) == key[r] \in DOMAIN buckets => Over(r, buckets[key[r]])

HasRoom(b) == b.count < RequestLimit

Allow(r) ==
    /\ allowed' = IF key[r] = Watched
                  THEN [n \in 0..Memory |-> IF n = 0 THEN 0 ELSE allowed[n] + 1]
                  ELSE allowed
    /\ Leave(r)

\* allow, when the key has no bucket or its window is over.
AllowFirst(r) ==
    /\ key[r] # NoKey
    /\ NewWindow(r)
    /\ LET begun == [j \in DOMAIN buckets \cup {key[r]} |->
                        IF j = key[r] THEN [age |-> age[r], count |-> 1] ELSE buckets[j]]
       IN  buckets' = [j \in {i \in DOMAIN begun : ~Pruned(r, begun[i])} |-> begun[j]]
    /\ Allow(r)

\* allow, within a window.
AllowNext(r) ==
    /\ key[r] # NoKey
    /\ ~NewWindow(r)
    /\ HasRoom(buckets[key[r]])
    /\ buckets' = [buckets EXCEPT ![key[r]].count = @ + 1]
    /\ Allow(r)

\* 429: the map is left as it is.
Refuse(r) ==
    /\ key[r] # NoKey
    /\ ~NewWindow(r)
    /\ ~HasRoom(buckets[key[r]])
    /\ Leave(r)
    /\ UNCHANGED <<buckets, allowed>>

\* The process restarts: the map is empty, the past forgotten.
Restart ==
    /\ buckets' = NoBuckets
    /\ key' = [r \in Request |-> NoKey]
    /\ age' = [r \in Request |-> 0]
    /\ allowed' = NoneAllowed

Waiting == {r \in Request : key[r] # NoKey}

Tick ==
    /\ \A r \in Waiting : age[r] < MaxDelay
    /\ age' = [r \in Request |-> IF r \in Waiting THEN age[r] + 1 ELSE 0]
    /\ buckets' = [k \in DOMAIN buckets |->
                      [buckets[k] EXCEPT !.age = IF @ = Old THEN Old ELSE @ + 1]]
    /\ allowed' = [n \in 0..Memory |-> IF n = 0 THEN 0 ELSE allowed[n - 1]]
    /\ UNCHANGED key

LimiterNext ==
    \/ \E r \in Request :
          \/ \E k \in Key : Arrive(r, k)
          \/ AllowFirst(r) \/ AllowNext(r) \/ Refuse(r)
    \/ Restart
    \/ Tick

LimiterSpec == LimiterInit /\ [][LimiterNext]_limiterVars

-----------------------------------------------------------------------------
(* Properties.                                                             *)

\* Between two restarts no key has more than twice the limit in any stretch of
\* time as long as a window, wherever it begins and whatever prune removes: a
\* burst can straddle two fixed windows but not three.  Requests that waited with
\* an old time come on top, one less than can wait at once.
BurstBounded == allowed[Window] < 2 * RequestLimit + Cardinality(Request)

\* A refused client has had its limit since a window before it read the clock,
\* whatever the other clients and the late ones did to the map.
RefusalIsDeserved ==
    \A r \in Waiting :
        key[r] = Watched /\ ~NewWindow(r) /\ ~HasRoom(buckets[Watched]) =>
            allowed[Window + age[r]] >= RequestLimit
===============================================================================
