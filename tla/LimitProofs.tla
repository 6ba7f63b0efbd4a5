------------------------------ MODULE LimitProofs ------------------------------
(***************************************************************************)
(* Proofs about the two limits on what a client may do: RateLimiter, for   *)
(* any number of keys, requests and ticks, and EmployerJobs, for any       *)
(* number of jobs and requests; each for any limit.                        *)
(***************************************************************************)
EXTENDS MCRateLimiter, EmployerJobs, FiniteSetTheorems, TLAPS

-----------------------------------------------------------------------------
(* The rate limiter.                                                       *)

\* A slot without a request has no age.
IdleIsFresh == \A r \in Request : key[r] = NoKey => age[r] = 0

\* More ticks back, no fewer requests.
Cumulative ==
    /\ allowed[0] = 0
    /\ \A m, n \in 0..Memory : m <= n => allowed[m] <= allowed[n]

\* The requests that wait and read the clock n ticks ago or earlier.
Late(n) == {r \in Request : key[r] # NoKey /\ age[r] >= n}

Open == Watched \in DOMAIN buckets
Begun == buckets[Watched].age
Count == buckets[Watched].count

\* How many of the requests that read the clock in the last n ticks can have been
\* allowed: none if the window was over before; those after the first of a window
\* that began before; and if it began since, also those of the window it replaced,
\* whose first request read the clock before.
Timely(n) ==
    IF ~Open \/ Begun >= Window + n - 1 THEN 0
    ELSE IF Begun >= n THEN Count - 1
    ELSE RequestLimit + Count - 1

\* What was allowed in the last n ticks are timely requests and late ones, and the
\* late ones that were allowed no longer wait.
BurstsFit ==
    \A n \in 0..Window :
        allowed[n] + Cardinality(Late(n)) <= Cardinality(Request) + Timely(n)

\* The requests a window has counted were allowed since it began.
WindowFits == Open /\ Begun < Memory => allowed[Begun + 1] >= Count

\* The inductive invariant of the rate limiter.
LimiterInv ==
    /\ LimiterTypeOK
    /\ IdleIsFresh
    /\ Cumulative
    /\ BurstsFit
    /\ WindowFits

\* What the constants are, one by one.
LEMMA Constants ==
    /\ Watched \in Key /\ NoKey \notin Key /\ IsFiniteSet(Request)
    /\ RequestLimit \in Nat /\ RequestLimit > 0
    /\ Window \in Nat /\ Window > 0
    /\ MaxDelay \in Nat
    /\ Cardinality(Request) \in Nat
    /\ Memory \in Nat /\ Memory = Window + MaxDelay
    /\ Old \in Nat /\ Old = 2 * Window + 1 + MaxDelay
  BY LimiterAssumption, FS_CardinalityType DEF LimiterAssumption, Memory, Old

\* The sets of late requests are finite and no larger than Request.
LEMMA LateIsFinite ==
    ASSUME NEW n
    PROVE  /\ IsFiniteSet(Late(n)) /\ Cardinality(Late(n)) \in Nat
           /\ Cardinality(Late(n)) <= Cardinality(Request)
  <1>1. Late(n) \subseteq Request
    BY DEF Late
  <1> QED
    BY <1>1, Constants, FS_Subset, FS_CardinalityType

\* What the watched bucket and the counts can be.
LEMMA Values ==
    ASSUME LimiterTypeOK
    PROVE  /\ Open => Begun \in 0..Old /\ Count \in 1..RequestLimit
           /\ \A n \in 0..Memory : allowed[n] \in Nat
           /\ \A r \in Request : age[r] \in 0..MaxDelay
           /\ \A n \in 0..Window : Timely(n) \in Nat
  <1>1. Open => Begun \in 0..Old /\ Count \in 1..RequestLimit
    BY DEF LimiterTypeOK, Open, Begun, Count
  <1>2. \A n \in 0..Window : Timely(n) \in Nat
    BY <1>1, Constants DEF Timely
  <1> QED
    BY <1>1, <1>2 DEF LimiterTypeOK

-----------------------------------------------------------------------------
\* Initially nothing was allowed.
LEMMA LimiterBegins == LimiterInit => LimiterInv
  <1> SUFFICES ASSUME LimiterInit PROVE LimiterInv
    OBVIOUS
  <1>1. /\ DOMAIN buckets = {} /\ \A r \in Request : key[r] = NoKey /\ age[r] = 0
        /\ allowed \in [0..Memory -> Nat] /\ \A n \in 0..Memory : allowed[n] = 0
    BY Constants DEF LimiterInit, NoBuckets, NoneAllowed
  <1>2. LimiterTypeOK
    BY <1>1, Constants DEF LimiterInit, LimiterTypeOK
  <1>3. IdleIsFresh /\ Cumulative /\ WindowFits
    BY <1>1, Constants DEF IdleIsFresh, Cumulative, WindowFits, Open
  <1>4. ASSUME NEW n \in 0..Window
        PROVE  allowed[n] + Cardinality(Late(n)) <= Cardinality(Request) + Timely(n)
    <2>1. allowed[n] = 0 /\ Timely(n) = 0
      BY <1>1, Constants DEF Timely, Open
    <2> QED
      BY <2>1, Constants, LateIsFinite
  <1> QED
    BY <1>2, <1>3, <1>4 DEF LimiterInv, BurstsFit

\* A request that leaves is late no more.
LEMMA Leaves ==
    ASSUME LimiterTypeOK, NEW r \in Request, key[r] # NoKey, Leave(r),
           NEW n \in 0..Window
    PROVE  /\ Cardinality(Late(n)') \in Nat
           /\ Cardinality(Late(n)') <= Cardinality(Late(n))
           /\ n <= age[r] => Cardinality(Late(n)') = Cardinality(Late(n)) - 1
  <1>1. \A q \in Request : /\ key'[q] = IF q = r THEN NoKey ELSE key[q]
                           /\ age'[q] = IF q = r THEN 0 ELSE age[q]
    BY DEF LimiterTypeOK, Leave
  <1>2. Late(n)' = Late(n) \ {r}
    BY <1>1 DEF Late
  <1>3. n <= age[r] => r \in Late(n)
    BY DEF Late
  <1>4. IsFiniteSet(Late(n)) /\ Cardinality(Late(n)) \in Nat
    BY LateIsFinite
  <1>5. /\ IsFiniteSet(Late(n) \ {r})
        /\ Cardinality(Late(n) \ {r})
              = IF r \in Late(n) THEN Cardinality(Late(n)) - 1 ELSE Cardinality(Late(n))
    BY <1>4, FS_RemoveElement
  <1>6. Cardinality(Late(n) \ {r}) \in Nat
    BY <1>5, FS_CardinalityType
  <1> QED
    BY <1>2, <1>3, <1>4, <1>5, <1>6

\* Without an allowed request of the watched key, and with its window as it is or gone
\* when it was over for all timely requests, only the late ones change.
LEMMA NothingAllowed ==
    ASSUME LimiterInv, LimiterTypeOK', IdleIsFresh', allowed' = allowed,
           \/ Open' /\ Open /\ Begun' = Begun /\ Count' = Count
           \/ ~Open' /\ (Open => Begun > 2 * Window),
           \A n \in 1..Window : Cardinality(Late(n)') <= Cardinality(Late(n))
    PROVE  LimiterInv'
  <1> USE DEF LimiterInv
  <1>1. Cumulative' /\ WindowFits'
    BY DEF Cumulative, WindowFits
  <1>2. ASSUME NEW n \in 0..Window
        PROVE  allowed'[n] + Cardinality(Late(n)') <= Cardinality(Request) + Timely(n)'
    <2>1. /\ Cardinality(Late(n)') \in Nat
          /\ Cardinality(Late(n)') <= Cardinality(Request)
      BY Late(n)' \subseteq Request, Constants, FS_Subset, FS_CardinalityType DEF Late
    <2>2. /\ Cardinality(Late(n)) \in Nat /\ Timely(n) \in Nat /\ allowed[n] \in Nat
      BY LateIsFinite, Values, Constants
    <2>3. Timely(n)' = Timely(n)
      <3>1. Open => Begun \in 0..Old
        BY Values
      <3> QED
        BY <3>1, Constants DEF Timely
    <2>4. CASE n = 0
      BY <2>1, <2>2, <2>3, <2>4, Constants DEF Cumulative
    <2>5. CASE n # 0
      <3>1. Cardinality(Late(n)') <= Cardinality(Late(n))
        BY <2>5
      <3>2. allowed[n] + Cardinality(Late(n)) <= Cardinality(Request) + Timely(n)
        BY DEF BurstsFit
      <3> QED
        BY <2>1, <2>2, <2>3, <3>1, <3>2, Constants
    <2> QED
      BY <2>4, <2>5
  <1> QED
    BY <1>1, <1>2 DEF BurstsFit

\* A request that is allowed within the window counts as a timely one, or was late.
LEMMA NextAllowed ==
    ASSUME LimiterInv, LimiterTypeOK', IdleIsFresh', NEW r \in Request,
           key[r] = Watched, Allow(r),
           Open, Open', Begun' = Begun, Count' = Count + 1, Begun - age[r] < Window
    PROVE  LimiterInv'
  <1> USE DEF LimiterInv
  <1>1. \A n \in 0..Memory : allowed'[n] = IF n = 0 THEN 0 ELSE allowed[n] + 1
    BY DEF Allow
  <1>2. Cumulative'
    BY <1>1, Values, Constants DEF Cumulative
  <1>3. Begun \in 0..Old /\ Count \in 1..RequestLimit /\ age[r] \in 0..MaxDelay
    BY Values
  <1>4. WindowFits'
    BY <1>1, <1>3, Values, Constants DEF WindowFits
  <1>5. ASSUME NEW n \in 0..Window
        PROVE  allowed'[n] + Cardinality(Late(n)') <= Cardinality(Request) + Timely(n)'
    <2>1. /\ Cardinality(Late(n)') \in Nat
          /\ Cardinality(Late(n)') <= Cardinality(Late(n))
          /\ n <= age[r] => Cardinality(Late(n)') = Cardinality(Late(n)) - 1
      BY Leaves, Constants DEF Allow
    <2>2. /\ Cardinality(Late(n)) \in Nat /\ Timely(n) \in Nat /\ allowed[n] \in Nat
          /\ Cardinality(Late(n)) <= Cardinality(Request)
      BY LateIsFinite, Values, Constants
    <2>3. allowed[n] + Cardinality(Late(n)) <= Cardinality(Request) + Timely(n)
      BY DEF BurstsFit
    <2>4. /\ Timely(n)' \in Int /\ Timely(n)' >= Timely(n)
          /\ n > age[r] => Timely(n)' = Timely(n) + 1
      BY <1>3, Constants DEF Timely
    <2>5. allowed'[n] = IF n = 0 THEN 0 ELSE allowed[n] + 1
      BY <1>1, Constants
    <2> QED
      BY <1>3, <2>1, <2>2, <2>3, <2>4, <2>5, Constants
  <1> QED
    BY <1>2, <1>4, <1>5 DEF BurstsFit

\* The first of a window is late for the old window's requests, or the old window had
\* none that are late for the new one.
LEMMA FirstAllowed ==
    ASSUME LimiterInv, LimiterTypeOK', IdleIsFresh', NEW r \in Request,
           key[r] = Watched, Allow(r),
           Open', Begun' = age[r], Count' = 1, Open => Begun - age[r] >= Window
    PROVE  LimiterInv'
  <1> USE DEF LimiterInv
  <1>1. \A n \in 0..Memory : allowed'[n] = IF n = 0 THEN 0 ELSE allowed[n] + 1
    BY DEF Allow
  <1>2. Cumulative'
    BY <1>1, Values, Constants DEF Cumulative
  <1>3. /\ Open => Begun \in 0..Old /\ Count \in 1..RequestLimit
        /\ age[r] \in 0..MaxDelay
    BY Values
  <1>4. WindowFits'
    BY <1>1, <1>3, Values, Constants DEF WindowFits
  <1>5. ASSUME NEW n \in 0..Window
        PROVE  allowed'[n] + Cardinality(Late(n)') <= Cardinality(Request) + Timely(n)'
    <2>1. /\ Cardinality(Late(n)') \in Nat
          /\ Cardinality(Late(n)') <= Cardinality(Late(n))
          /\ n <= age[r] => Cardinality(Late(n)') = Cardinality(Late(n)) - 1
      BY Leaves, Constants DEF Allow
    <2>2. /\ Cardinality(Late(n)) \in Nat /\ Timely(n) \in Nat /\ allowed[n] \in Nat
          /\ Cardinality(Late(n)) <= Cardinality(Request)
      BY LateIsFinite, Values, Constants
    <2>3. allowed[n] + Cardinality(Late(n)) <= Cardinality(Request) + Timely(n)
      BY DEF BurstsFit
    <2>4. /\ n <= age[r] => Timely(n)' = 0 /\ Timely(n) = 0
          /\ n > age[r] => Timely(n)' = RequestLimit /\ Timely(n) <= RequestLimit - 1
      BY <1>3, Constants DEF Timely
    <2>5. allowed'[n] = IF n = 0 THEN 0 ELSE allowed[n] + 1
      BY <1>1, Constants
    <2> QED
      BY <1>3, <2>1, <2>2, <2>3, <2>4, <2>5, Constants
  <1> QED
    BY <1>2, <1>4, <1>5 DEF BurstsFit

\* A tick moves everything one tick back.
LEMMA TimePasses ==
    ASSUME LimiterInv, LimiterTypeOK', IdleIsFresh',
           \A n \in 0..Memory : allowed'[n] = IF n = 0 THEN 0 ELSE allowed[n - 1],
           \A n \in 1..Window : Late(n)' = Late(n - 1),
           Open' <=> Open,
           Open => Count' = Count /\ Begun' = IF Begun = Old THEN Old ELSE Begun + 1
    PROVE  LimiterInv'
  <1> USE DEF LimiterInv
  <1>1. Cumulative'
    BY Constants, Values DEF Cumulative
  <1>2. Open => Begun \in 0..Old /\ Count \in 1..RequestLimit
    BY Values
  <1>3. WindowFits'
    BY <1>2, Constants, Values DEF WindowFits
  <1>4. ASSUME NEW n \in 0..Window
        PROVE  allowed'[n] + Cardinality(Late(n)') <= Cardinality(Request) + Timely(n)'
    <2>1. CASE n = 0
      <3>1. /\ Cardinality(Late(n)') \in Nat
            /\ Cardinality(Late(n)') <= Cardinality(Request)
        BY Late(n)' \subseteq Request, Constants, FS_Subset, FS_CardinalityType DEF Late
      <3>2. Timely(n)' >= 0 /\ Timely(n)' \in Int
        BY <1>2, Constants DEF Timely
      <3> QED
        BY <2>1, <3>1, <3>2, Constants
    <2>2. CASE n # 0
      <3>1. n - 1 \in 0..Window /\ n \in 0..Memory /\ n \in 1..Window
        BY <2>2, Constants
      <3>2. allowed'[n] = allowed[n - 1] /\ Late(n)' = Late(n - 1)
        BY <2>2, <3>1
      <3>3. allowed[n - 1] + Cardinality(Late(n - 1)) <= Cardinality(Request) + Timely(n - 1)
        BY <3>1 DEF BurstsFit
      <3>4. Timely(n)' = Timely(n - 1)
        BY <1>2, <3>1, Constants DEF Timely
      <3> QED
        BY <3>2, <3>3, <3>4
    <2> QED
      BY <2>1, <2>2
  <1> QED
    BY <1>1, <1>3, <1>4 DEF BurstsFit

\* What the first request of a window leaves of the map.
LEMMA FirstBuckets ==
    ASSUME LimiterTypeOK, NEW r \in Request, AllowFirst(r)
    PROVE  /\ key[r] \in DOMAIN buckets' /\ DOMAIN buckets' \subseteq DOMAIN buckets \cup {key[r]}
           /\ buckets'[key[r]] = [age |-> age[r], count |-> 1]
           /\ \A k \in DOMAIN buckets : k # key[r] =>
                 (k \in DOMAIN buckets' <=> ~Pruned(r, buckets[k]))
           /\ \A k \in DOMAIN buckets' : k # key[r] => buckets'[k] = buckets[k]
  <1> DEFINE begun == [j \in DOMAIN buckets \cup {key[r]} |->
                          IF j = key[r] THEN [age |-> age[r], count |-> 1] ELSE buckets[j]]
             kept == {i \in DOMAIN begun : ~Pruned(r, begun[i])}
  <1>1. buckets' = [j \in kept |-> begun[j]]
    BY DEF AllowFirst
  <1>2. DOMAIN begun = DOMAIN buckets \cup {key[r]}
    OBVIOUS
  <1>3. /\ begun[key[r]] = [age |-> age[r], count |-> 1]
        /\ \A k \in DOMAIN buckets : k # key[r] => begun[k] = buckets[k]
    OBVIOUS
  <1>4. ~Pruned(r, begun[key[r]])
    <2>1. begun[key[r]].age = age[r] /\ age[r] \in Int
      BY <1>3 DEF LimiterTypeOK
    <2> QED
      BY <2>1, Constants DEF Pruned, Elapsed
  <1> HIDE DEF begun
  <1>5. DOMAIN buckets' = kept /\ \A k \in kept : buckets'[k] = begun[k]
    BY <1>1
  <1> QED
    BY <1>2, <1>3, <1>4, <1>5

\* What a request within a window leaves of the map.
LEMMA NextBuckets ==
    ASSUME LimiterTypeOK, NEW r \in Request, AllowNext(r)
    PROVE  /\ key[r] \in DOMAIN buckets /\ ~Over(r, buckets[key[r]])
           /\ DOMAIN buckets' = DOMAIN buckets
           /\ buckets'[key[r]].age = buckets[key[r]].age
           /\ buckets'[key[r]].count = buckets[key[r]].count + 1
           /\ buckets'[key[r]] \in [age : 0..Old, count : 1..RequestLimit]
           /\ \A k \in DOMAIN buckets : k # key[r] => buckets'[k] = buckets[k]
  <1>1. key[r] \in DOMAIN buckets /\ ~Over(r, buckets[key[r]])
    BY DEF AllowNext, NewWindow
  <1>2. buckets' = [buckets EXCEPT ![key[r]].count = @ + 1]
    BY DEF AllowNext
  <1>3. /\ DOMAIN buckets' = DOMAIN buckets
        /\ buckets'[key[r]] = [buckets[key[r]] EXCEPT !.count = @ + 1]
        /\ \A k \in DOMAIN buckets : k # key[r] => buckets'[k] = buckets[k]
    BY <1>1, <1>2
  <1>4. /\ buckets[key[r]] \in [age : 0..Old, count : 1..RequestLimit]
        /\ buckets[key[r]].count < RequestLimit
    BY <1>1 DEF LimiterTypeOK, AllowNext, HasRoom
  <1> QED
    BY <1>1, <1>3, <1>4, Constants

\* What a tick leaves of the map.
LEMMA TickBuckets ==
    ASSUME LimiterTypeOK, Tick
    PROVE  /\ DOMAIN buckets' = DOMAIN buckets
           /\ \A k \in DOMAIN buckets :
                 /\ buckets'[k].age = IF buckets[k].age = Old THEN Old ELSE buckets[k].age + 1
                 /\ buckets'[k].count = buckets[k].count
                 /\ buckets'[k] \in [age : 0..Old, count : 1..RequestLimit]
  <1>1. /\ DOMAIN buckets' = DOMAIN buckets
        /\ \A k \in DOMAIN buckets :
              buckets'[k] = [buckets[k] EXCEPT !.age = IF @ = Old THEN Old ELSE @ + 1]
    BY DEF Tick
  <1>2. \A k \in DOMAIN buckets : buckets[k] \in [age : 0..Old, count : 1..RequestLimit]
    BY DEF LimiterTypeOK
  <1> QED
    BY <1>1, <1>2, Constants

\* A request that leaves keeps the types of the slots.
LEMMA LeavesFresh ==
    ASSUME LimiterTypeOK, IdleIsFresh, NEW r \in Request, Leave(r)
    PROVE  /\ key' \in [Request -> Key \cup {NoKey}] /\ age' \in [Request -> 0..MaxDelay]
           /\ IdleIsFresh'
  BY Constants DEF LimiterTypeOK, IdleIsFresh, Leave

\* Every step of the rate limiter keeps its invariant.
LEMMA LimiterKept == LimiterInv /\ [LimiterNext]_limiterVars => LimiterInv'
  <1> SUFFICES ASSUME LimiterInv, [LimiterNext]_limiterVars PROVE LimiterInv'
    OBVIOUS
  <1>0. LimiterTypeOK /\ IdleIsFresh
    BY DEF LimiterInv
  <1>1. ASSUME NEW r \in Request, NEW k \in Key, Arrive(r, k) PROVE LimiterInv'
    <2>1. LimiterTypeOK' /\ IdleIsFresh'
      BY <1>0, <1>1, Constants DEF Arrive, LimiterTypeOK, IdleIsFresh
    <2>2. age' = age /\ \A q \in Request : q # r => key'[q] = key[q]
      BY <1>0, <1>1 DEF Arrive, LimiterTypeOK
    <2>3. age[r] = 0
      BY <1>0, <1>1 DEF Arrive, IdleIsFresh
    <2>4. ASSUME NEW n \in 1..Window PROVE Cardinality(Late(n)') <= Cardinality(Late(n))
      <3>1. Late(n)' = Late(n)
        BY <1>1, <2>2, <2>3 DEF Late, Arrive
      <3> QED
        BY <3>1, LateIsFinite
    <2>5. allowed' = allowed /\ Open' = Open /\ Begun' = Begun /\ Count' = Count
      BY <1>1 DEF Arrive, Open, Begun, Count
    <2> QED
      BY <2>1, <2>4, <2>5, NothingAllowed
  <1>2. ASSUME NEW r \in Request, AllowFirst(r) PROVE LimiterInv'
    <2>1. key[r] # NoKey /\ key[r] \in Key /\ age[r] \in 0..MaxDelay /\ Allow(r) /\ Leave(r)
      BY <1>0, <1>2 DEF AllowFirst, Allow, LimiterTypeOK
    <2>2. /\ key' \in [Request -> Key \cup {NoKey}] /\ age' \in [Request -> 0..MaxDelay]
          /\ IdleIsFresh'
      BY <1>0, <2>1, LeavesFresh
    <2>3. allowed' \in [0..Memory -> Nat]
      BY <1>0, <2>1, Constants DEF Allow, LimiterTypeOK
    <2>4. LimiterTypeOK'
      <3>1. DOMAIN buckets' \subseteq Key
        BY <1>0, <1>2, <2>1, FirstBuckets DEF LimiterTypeOK
      <3>2. [age |-> age[r], count |-> 1] \in [age : 0..Old, count : 1..RequestLimit]
        BY <2>1, Constants
      <3>3. \A k \in DOMAIN buckets' : buckets'[k] \in [age : 0..Old, count : 1..RequestLimit]
        BY <1>0, <1>2, <3>2, FirstBuckets DEF LimiterTypeOK
      <3> QED
        BY <2>2, <2>3, <3>1, <3>3 DEF LimiterTypeOK
    <2>5. CASE key[r] = Watched
      <3>1. Open' /\ Begun' = age[r] /\ Count' = 1
        <4>1. Watched \in DOMAIN buckets' /\ buckets'[Watched] = [age |-> age[r], count |-> 1]
          BY <1>0, <1>2, <2>5, FirstBuckets
        <4> QED
          BY <4>1 DEF Open, Begun, Count
      <3>2. Open => Begun - age[r] >= Window
        BY <1>2, <2>5 DEF AllowFirst, NewWindow, Over, Elapsed, Open, Begun
      <3> QED
        BY <2>1, <2>2, <2>4, <2>5, <3>1, <3>2, FirstAllowed
    <2>6. CASE key[r] # Watched
      <3>1. allowed' = allowed
        BY <2>1, <2>6 DEF Allow
      <3>2. \/ Open' /\ Open /\ Begun' = Begun /\ Count' = Count
            \/ ~Open' /\ (Open => Begun > 2 * Window)
        <4>1. Open' => Open /\ buckets'[Watched] = buckets[Watched]
          BY <1>0, <1>2, <2>6, FirstBuckets DEF Open
        <4>2. Open /\ ~Open' => Pruned(r, buckets[Watched])
          BY <1>0, <1>2, <2>6, FirstBuckets DEF Open
        <4>3. Open => Begun \in 0..Old
          BY <1>0, Values
        <4>4. Open /\ ~Open' => Begun > 2 * Window
          BY <2>1, <4>2, <4>3, Constants DEF Pruned, Elapsed, Begun
        <4> QED
          BY <4>1, <4>4 DEF Begun, Count
      <3>3. \A n \in 1..Window : Cardinality(Late(n)') <= Cardinality(Late(n))
        BY <1>0, <2>1, Leaves, Constants
      <3> QED
        BY <2>2, <2>4, <3>1, <3>2, <3>3, NothingAllowed
    <2> QED
      BY <2>5, <2>6
  <1>3. ASSUME NEW r \in Request, AllowNext(r) PROVE LimiterInv'
    <2>1. key[r] # NoKey /\ key[r] \in Key /\ age[r] \in 0..MaxDelay /\ Allow(r) /\ Leave(r)
      BY <1>0, <1>3 DEF AllowNext, Allow, LimiterTypeOK
    <2>2. /\ key' \in [Request -> Key \cup {NoKey}] /\ age' \in [Request -> 0..MaxDelay]
          /\ IdleIsFresh'
      BY <1>0, <2>1, LeavesFresh
    <2>3. allowed' \in [0..Memory -> Nat]
      BY <1>0, <2>1, Constants DEF Allow, LimiterTypeOK
    <2>4. LimiterTypeOK'
      <3>1. /\ DOMAIN buckets' \subseteq Key
            /\ \A k \in DOMAIN buckets' :
                  buckets'[k] \in [age : 0..Old, count : 1..RequestLimit]
        BY <1>0, <1>3, NextBuckets DEF LimiterTypeOK
      <3> QED
        BY <2>2, <2>3, <3>1 DEF LimiterTypeOK
    <2>5. CASE key[r] = Watched
      <3>1. Open /\ Open' /\ Begun' = Begun /\ Count' = Count + 1
        BY <1>0, <1>3, <2>5, NextBuckets DEF Open, Begun, Count
      <3>2. Begun - age[r] < Window
        <4>1. ~(Begun - age[r] >= Window)
          BY <1>0, <1>3, <2>5, NextBuckets DEF Over, Elapsed, Begun
        <4>2. Begun \in 0..Old
          BY <1>0, <3>1, Values
        <4> QED
          BY <2>1, <4>1, <4>2, Constants
      <3> QED
        BY <2>1, <2>2, <2>4, <2>5, <3>1, <3>2, NextAllowed
    <2>6. CASE key[r] # Watched
      <3>1. allowed' = allowed
        BY <2>1, <2>6 DEF Allow
      <3>2. /\ Open' <=> Open
            /\ Open => buckets'[Watched] = buckets[Watched]
        BY <1>0, <1>3, <2>6, NextBuckets DEF Open
      <3>3. \A n \in 1..Window : Cardinality(Late(n)') <= Cardinality(Late(n))
        BY <1>0, <2>1, Leaves, Constants
      <3>4. CASE Open
        BY <2>2, <2>4, <3>1, <3>2, <3>3, <3>4, NothingAllowed DEF Begun, Count
      <3>5. CASE ~Open
        BY <2>2, <2>4, <3>1, <3>2, <3>3, <3>5, NothingAllowed
      <3> QED
        BY <3>4, <3>5
    <2> QED
      BY <2>5, <2>6
  <1>4. ASSUME NEW r \in Request, Refuse(r) PROVE LimiterInv'
    <2>1. key[r] # NoKey /\ Leave(r) /\ buckets' = buckets /\ allowed' = allowed
      BY <1>4 DEF Refuse
    <2>2. LimiterTypeOK' /\ IdleIsFresh'
      BY <1>0, <2>1, LeavesFresh DEF LimiterTypeOK
    <2>3. \A n \in 1..Window : Cardinality(Late(n)') <= Cardinality(Late(n))
      BY <1>0, <2>1, Leaves, Constants
    <2>4. Open' = Open /\ Begun' = Begun /\ Count' = Count
      BY <2>1 DEF Open, Begun, Count
    <2> QED
      BY <2>1, <2>2, <2>3, <2>4, NothingAllowed
  <1>5. CASE Restart
    <2>1. LimiterInit'
      BY <1>5 DEF Restart, LimiterInit, NoBuckets, NoneAllowed
    <2> QED
      BY <2>1, LimiterBegins, PTL
  <1>6. CASE Tick
    <2>1. /\ key' = key
          /\ \A q \in Request : age'[q] = IF key[q] # NoKey THEN age[q] + 1 ELSE 0
      BY <1>6 DEF Tick, Waiting
    <2>2. \A n \in 0..Memory : allowed'[n] = IF n = 0 THEN 0 ELSE allowed[n - 1]
      BY <1>6 DEF Tick
    <2>3. LimiterTypeOK' /\ IdleIsFresh'
      <3>1. /\ DOMAIN buckets' \subseteq Key
            /\ \A k \in DOMAIN buckets' :
                  buckets'[k] \in [age : 0..Old, count : 1..RequestLimit]
        BY <1>0, <1>6, TickBuckets DEF LimiterTypeOK
      <3>2. age' \in [Request -> 0..MaxDelay]
        BY <1>0, <1>6, Constants DEF Tick, Waiting, LimiterTypeOK
      <3>3. allowed' \in [0..Memory -> Nat]
        BY <1>0, <1>6, Constants DEF Tick, LimiterTypeOK
      <3> QED
        BY <1>0, <2>1, <3>1, <3>2, <3>3 DEF LimiterTypeOK, IdleIsFresh
    <2>4. ASSUME NEW n \in 1..Window PROVE Late(n)' = Late(n - 1)
      <3>1. \A q \in Request : age[q] \in Int
        BY <1>0, Values
      <3> QED
        BY <2>1, <3>1, Constants DEF Late
    <2>5. /\ Open' <=> Open
          /\ Open => Count' = Count /\ Begun' = IF Begun = Old THEN Old ELSE Begun + 1
      BY <1>0, <1>6, TickBuckets DEF Open, Begun, Count
    <2> QED
      BY <2>2, <2>3, <2>4, <2>5, TimePasses
  <1>7. CASE UNCHANGED limiterVars
    BY <1>7 DEF limiterVars, LimiterInv, LimiterTypeOK, IdleIsFresh, Cumulative, BurstsFit,
       WindowFits, Late, Timely, Open, Begun, Count
  <1> QED
    BY <1>1, <1>2, <1>3, <1>4, <1>5, <1>6, <1>7 DEF LimiterNext

\* The inductive invariant holds in every behaviour.
THEOREM LimiterInvariance == LimiterSpec => []LimiterInv
  BY LimiterBegins, LimiterKept, PTL DEF LimiterSpec

\* Whatever the length of the window, the limit, the number of clients and the time
\* their requests wait for the mutex: between two restarts no key has more than twice
\* the limit and the late requests in a stretch as long as the window (rate_limit.go:56).
THEOREM BurstsAreBounded == LimiterSpec => []BurstBounded
  <1>1. LimiterInv => BurstBounded
    <2> SUFFICES ASSUME LimiterInv PROVE BurstBounded
      OBVIOUS
    <2>1. Window \in 0..Window /\ Window \in 0..Memory
      BY Constants
    <2>2. allowed[Window] + Cardinality(Late(Window)) <= Cardinality(Request) + Timely(Window)
      BY <2>1 DEF LimiterInv, BurstsFit
    <2>3. /\ Cardinality(Late(Window)) \in Nat /\ allowed[Window] \in Nat
          /\ Open => Begun \in 0..Old /\ Count \in 1..RequestLimit
      BY <2>1, LateIsFinite, Values DEF LimiterInv
    <2>4. Timely(Window) \in Nat /\ Timely(Window) < 2 * RequestLimit
      BY <2>3, Constants DEF Timely
    <2> QED
      BY <2>2, <2>3, <2>4, Constants DEF BurstBounded
  <1> QED
    BY <1>1, LimiterInvariance, PTL

\* However other clients, late requests and prune change the map, a client that is
\* refused has had its limit since a window before its request read the clock
\* (rate_limit.go:61).
THEOREM RefusalsAreDeserved == LimiterSpec => []RefusalIsDeserved
  <1>1. LimiterInv => RefusalIsDeserved
    <2> SUFFICES ASSUME LimiterInv, NEW r \in Waiting, key[r] = Watched, ~NewWindow(r),
                        ~HasRoom(buckets[Watched])
                 PROVE  allowed[Window + age[r]] >= RequestLimit
      BY DEF RefusalIsDeserved
    <2>1. Open /\ ~(Begun - age[r] >= Window) /\ ~(Count < RequestLimit)
      BY DEF NewWindow, Over, Elapsed, HasRoom, Open, Begun, Count
    <2>2. /\ Begun \in 0..Old /\ Count \in 1..RequestLimit /\ age[r] \in 0..MaxDelay
          /\ \A n \in 0..Memory : allowed[n] \in Nat
      BY <2>1, Values DEF LimiterInv, Waiting
    <2>3. /\ Begun + 1 \in 0..Memory /\ Window + age[r] \in 0..Memory
          /\ Begun + 1 <= Window + age[r] /\ Begun < Memory
      BY <2>1, <2>2, Constants
    <2>4. allowed[Begun + 1] >= Count
      BY <2>1, <2>3 DEF LimiterInv, WindowFits
    <2>5. allowed[Begun + 1] <= allowed[Window + age[r]]
      BY <2>3 DEF LimiterInv, Cumulative
    <2> QED
      BY <2>1, <2>2, <2>3, <2>4, <2>5, Constants
  <1> QED
    BY <1>1, LimiterInvariance, PTL

-----------------------------------------------------------------------------
(* The limit of active jobs.                                               *)

\* A request that is under way has the job it activates.
RequestsHaveJobs == \A c \in Caller : pc[c] # "idle" => goal[c] \in Job

\* The inductive invariant of the jobs.
IInv ==
    /\ TypeOK
    /\ RequestsHaveJobs
    /\ OvershootBounded
-----------------------------------------------------------------------------
\* Requests add at most one job each to a set of jobs.
LEMMA Additions ==
    ASSUME NEW A \in SUBSET Job, NEW g, NEW C \in SUBSET Caller
    PROVE  LET U == A \cup {g[c] : c \in C}
           IN  /\ IsFiniteSet(U)
               /\ Cardinality(A) \in Nat /\ Cardinality(U) \in Nat
               /\ Cardinality(Caller) \in Nat
               /\ Cardinality(U) <= Cardinality(A) + Cardinality(Caller)
  <1> DEFINE G == {g[c] : c \in C}
             f == [c \in C |-> g[c]]
  <1>1. IsFiniteSet(A)
    BY JobsAssumption, FS_Interval, FS_Subset, 1 \in Int, MaxJobs \in Int DEF Job
  <1>2. IsFiniteSet(C) /\ Cardinality(C) <= Cardinality(Caller)
    BY JobsAssumption, FS_Subset
  <1>3. f \in Surjection(C, G)
    BY DEF Surjection
  <1>4. IsFiniteSet(G) /\ Cardinality(G) <= Cardinality(C)
    BY <1>2, <1>3, FS_Surjection
  <1>5. /\ IsFiniteSet(A \cup G) /\ IsFiniteSet(A \cap G)
        /\ Cardinality(A \cup G) =
              Cardinality(A) + Cardinality(G) - Cardinality(A \cap G)
    <2> HIDE DEF G
    <2> QED
      BY <1>1, <1>4, FS_Union, FS_Intersection
  <1>6. /\ Cardinality(A) \in Nat /\ Cardinality(C) \in Nat
        /\ Cardinality(G) \in Nat /\ Cardinality(A \cap G) \in Nat
        /\ Cardinality(A \cup G) \in Nat /\ Cardinality(Caller) \in Nat
    BY <1>1, <1>2, <1>4, <1>5, JobsAssumption, FS_CardinalityType
  <1> HIDE DEF G
  <1>7. Cardinality(A \cup G) <= Cardinality(A) + Cardinality(Caller)
    BY <1>2, <1>4, <1>5, <1>6
  <1> QED
    BY <1>5, <1>6, <1>7 DEF G

\* The jobs that are active or about to be, and how many they can be.
LEMMA Sizes ==
    ASSUME TypeOK
    PROVE  /\ IsFiniteSet(Active \cup Writing)
           /\ Cardinality(Active) \in Nat /\ Cardinality(Active \cup Writing) \in Nat
           /\ Cardinality(Caller) \in Nat
           /\ Cardinality(Active \cup Writing) <= Cardinality(Active) + Cardinality(Caller)
  BY Additions, Active \in SUBSET Job, {d \in Caller : pc[d] = "write"} \in SUBSET Caller
     DEF Active, Writing

\* The initial states satisfy the inductive invariant: no job is active.
LEMMA Initial == Init => IInv
  <1> SUFFICES ASSUME Init PROVE IInv
    OBVIOUS
  <1>1. TypeOK /\ RequestsHaveJobs
    BY DEF Init, TypeOK, RequestsHaveJobs
  <1>2. Active \cup Writing = {}
    BY DEF Init, Active, Writing
  <1>3. Cardinality(Active \cup Writing) = 0 /\ Cardinality(Caller) \in Nat
    BY <1>1, <1>2, Sizes, FS_EmptySet
  <1> QED
    BY <1>1, <1>3, JobsAssumption DEF IInv, OvershootBounded

\* A step under which no further job becomes active or about to be.
LEMMA Shrinking ==
    ASSUME IInv, tier' = tier,
           (Active \cup Writing)' \in SUBSET (Active \cup Writing)
    PROVE  OvershootBounded'
  <1>1. /\ Cardinality((Active \cup Writing)') \in Nat
        /\ Cardinality(Active \cup Writing) \in Nat /\ Cardinality(Caller) \in Nat
        /\ Cardinality((Active \cup Writing)') <= Cardinality(Active \cup Writing)
    BY Sizes, FS_Subset, FS_CardinalityType DEF IInv
  <1> QED
    BY <1>1, JobsAssumption DEF IInv, OvershootBounded

\* Every step preserves the inductive invariant.
LEMMA Inductive == IInv /\ [Next]_vars => IInv'
  <1> SUFFICES ASSUME IInv, [Next]_vars PROVE IInv'
    OBVIOUS
  <1> USE DEF IInv
  <1>1. ASSUME NEW c \in Caller, CreateInactiveJob(c) PROVE IInv'
    <2>1. TypeOK' /\ RequestsHaveJobs'
      BY <1>1 DEF CreateInactiveJob, Fresh, TypeOK, RequestsHaveJobs
    <2>2. (Active \cup Writing)' \in SUBSET (Active \cup Writing)
      BY <1>1 DEF CreateInactiveJob, Fresh, TypeOK, Active, Writing
    <2> QED
      BY <1>1, <2>1, <2>2, Shrinking DEF CreateInactiveJob
  <1>2. ASSUME NEW c \in Caller, CreateActiveJob(c) PROVE IInv'
    <2>1. TypeOK' /\ RequestsHaveJobs'
      BY <1>2 DEF CreateActiveJob, Begin, TypeOK, RequestsHaveJobs
    <2>2. (Active \cup Writing)' \in SUBSET (Active \cup Writing)
      BY <1>2 DEF CreateActiveJob, Begin, TypeOK, Active, Writing
    <2> QED
      BY <1>2, <2>1, <2>2, Shrinking DEF CreateActiveJob, Begin
  <1>3. ASSUME NEW c \in Caller, NEW j \in Job, Activate(c, j) PROVE IInv'
    <2>1. TypeOK' /\ RequestsHaveJobs'
      BY <1>3 DEF Activate, Begin, TypeOK, RequestsHaveJobs
    <2>2. (Active \cup Writing)' \in SUBSET (Active \cup Writing)
      <3>1. Active' = Active
        BY <1>3 DEF Activate, Begin, Active
      <3>2. Writing' \in SUBSET (Writing \cup Active)
        BY <1>3 DEF Activate, Begin, NeedsCheck, TypeOK, Active, Writing
      <3> QED
        BY <3>1, <3>2
    <2> QED
      BY <1>3, <2>1, <2>2, Shrinking DEF Activate, Begin
  <1>4. ASSUME NEW c \in Caller, NEW j \in Job, Deactivate(c, j) PROVE IInv'
    <2>1. TypeOK' /\ RequestsHaveJobs'
      BY <1>4 DEF Deactivate, TypeOK, RequestsHaveJobs
    <2>2. (Active \cup Writing)' \in SUBSET (Active \cup Writing)
      BY <1>4 DEF Deactivate, TypeOK, Active, Writing
    <2> QED
      BY <1>4, <2>1, <2>2, Shrinking DEF Deactivate
  <1>5. ASSUME NEW c \in Caller, GetActiveSubscriptionTier(c) PROVE IInv'
    <2>1. TypeOK' /\ RequestsHaveJobs'
      BY <1>5 DEF GetActiveSubscriptionTier, TypeOK, RequestsHaveJobs
    <2>2. CASE tier = "Enterprise"
      BY <1>5, <2>1, <2>2 DEF GetActiveSubscriptionTier, OvershootBounded
    <2>3. CASE tier # "Enterprise"
      <3>1. (Active \cup Writing)' \in SUBSET (Active \cup Writing)
        BY <1>5, <2>3 DEF GetActiveSubscriptionTier, TypeOK, Active, Writing
      <3> QED
        BY <1>5, <2>1, <3>1, Shrinking DEF GetActiveSubscriptionTier
    <2> QED
      BY <2>2, <2>3
  <1>6. ASSUME NEW c \in Caller, CountActiveJobs(c) PROVE IInv'
    <2>1. TypeOK' /\ RequestsHaveJobs'
      BY <1>6 DEF CountActiveJobs, End, TypeOK, RequestsHaveJobs
    <2>2. CASE BelowLimit(Cardinality(Active))
      <3>1. /\ Cardinality(Active') \in Nat /\ Cardinality((Active \cup Writing)') \in Nat
            /\ Cardinality(Caller) \in Nat
            /\ Cardinality((Active \cup Writing)') <= Cardinality(Active') + Cardinality(Caller)
        <4> DEFINE W == {d \in Caller : pc'[d] = "write"}
        <4>1. (Active \cup Writing)' = Active' \cup {goal'[b] : b \in W}
          BY DEF Writing
        <4>2. Active' \in SUBSET Job /\ W \in SUBSET Caller
          BY DEF Active
        <4> HIDE DEF W
        <4> QED
          BY <4>1, <4>2, Additions
      <3>2. Cardinality(Active') < Limit
        BY <1>6, <2>2 DEF CountActiveJobs, BelowLimit, Active
      <3> QED
        BY <2>1, <3>1, <3>2, JobsAssumption DEF OvershootBounded
    <2>3. CASE ~BelowLimit(Cardinality(Active))
      <3>1. (Active \cup Writing)' \in SUBSET (Active \cup Writing)
        BY <1>6, <2>3 DEF CountActiveJobs, End, TypeOK, Active, Writing
      <3> QED
        BY <1>6, <2>1, <3>1, Shrinking DEF CountActiveJobs
    <2> QED
      BY <2>2, <2>3
  <1>7. ASSUME NEW c \in Caller, WriteActive(c) PROVE IInv'
    <2>1. TypeOK' /\ RequestsHaveJobs'
      BY <1>7 DEF WriteActive, End, TypeOK, RequestsHaveJobs
    <2>2. (Active \cup Writing)' \in SUBSET (Active \cup Writing)
      <3>1. Active' \in SUBSET (Active \cup {goal[c]})
        BY <1>7 DEF WriteActive, TypeOK, Active
      <3>2. Writing' \in SUBSET Writing /\ goal[c] \in Writing
        BY <1>7 DEF WriteActive, End, TypeOK, Writing
      <3> QED
        BY <3>1, <3>2
    <2> QED
      BY <1>7, <2>1, <2>2, Shrinking DEF WriteActive
  <1>8. ASSUME NEW c \in Caller, RequestFails(c) PROVE IInv'
    <2>1. TypeOK' /\ RequestsHaveJobs'
      BY <1>8 DEF RequestFails, End, TypeOK, RequestsHaveJobs
    <2>2. (Active \cup Writing)' \in SUBSET (Active \cup Writing)
      BY <1>8 DEF RequestFails, End, TypeOK, Active, Writing
    <2> QED
      BY <1>8, <2>1, <2>2, Shrinking DEF RequestFails
  <1>9. CASE SubscriptionEnds
    BY <1>9 DEF SubscriptionEnds, TypeOK, RequestsHaveJobs, OvershootBounded
  <1>10. CASE UNCHANGED vars
    BY <1>10 DEF vars, TypeOK, RequestsHaveJobs, OvershootBounded, Active, Writing
  <1> QED
    BY <1>1, <1>2, <1>3, <1>4, <1>5, <1>6, <1>7, <1>8, <1>9, <1>10 DEF Next
-----------------------------------------------------------------------------
\* The inductive invariant holds in every behaviour.
THEOREM JobsInvariance == Spec => []IInv
  BY Initial, Inductive, PTL DEF Spec

\* However many requests an employer sends at a time, and however long they take
\* between the count of its active jobs and the write, a Growth employer exceeds
\* its limit by less than their number (ensureCanActivateJob, employer.go:176).
THEOREM Overshoot == Spec => []OvershootBounded
  <1>1. IInv => OvershootBounded
    BY DEF IInv
  <1> QED
    BY <1>1, JobsInvariance, PTL
===============================================================================
