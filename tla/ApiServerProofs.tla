--------------------------- MODULE ApiServerProofs ---------------------------
(***************************************************************************)
(* What is proved of the API server for every value of its constants.      *)
(*                                                                         *)
(* A behaviour is about one component, which kind names and no step        *)
(* changes, so each result is an invariant of that component under the     *)
(* hypothesis that kind is its name.  The memory cache and the remote      *)
(* cache have proofs of their own, which are carried over to the steps     *)
(* that the server makes of them.  The others have a section each: the     *)
(* limiter, the request cache, the user's middleware, the mutations on     *)
(* tasks, the profiles of a user, whose remote cache is another instance   *)
(* of the same proofs, and the limiter of all pods.  The theorems come     *)
(* last.                                                                   *)
(***************************************************************************)
EXTENDS ApiServer, TLAPS, FiniteSetTheorems

CacheProofs == INSTANCE MemoryCacheProofs
RemoteProofs == INSTANCE RemoteCacheProofs WITH NoProc <- Nobody, NoKey <- Nothing

\* In the behaviours of the others nothing happens to the memory cache.
CacheInv == IF kind = "cache" THEN CacheProofs!IInv ELSE MC!StateInit
-----------------------------------------------------------------------------
\* A step of MemoryCache here is one of the module that the proofs are about.
LEMMA CacheNext == MC!Next => CacheProofs!Next
  BY DEF MC!Next, MC!Call, MC!Locked, MC!Proceed, MC!FirstGet, MC!SecondGet,
         MC!Produce, MC!Fail, MC!Store, MC!Return, MC!Remove, MC!Change,
         MC!Goto, MC!Serve, MC!L!Request, MC!L!Acquire, MC!L!Release, MC!L!Holders,
         MC!Absent, MC!Versions,
         CacheProofs!Next, CacheProofs!Call, CacheProofs!Locked,
         CacheProofs!Proceed, CacheProofs!FirstGet, CacheProofs!SecondGet,
         CacheProofs!Produce, CacheProofs!Fail, CacheProofs!Store,
         CacheProofs!Return, CacheProofs!Remove, CacheProofs!Change,
         CacheProofs!Goto, CacheProofs!Serve, CacheProofs!L!Request,
         CacheProofs!L!Acquire, CacheProofs!L!Release, CacheProofs!L!Holders,
         CacheProofs!Absent, CacheProofs!Versions

LEMMA KindStays == [Next]_vars => kind' = kind
  BY DEF Next, vars, OfCache, OfRemoteCache, OfLimit, OfSharedLimit,
         OfRequestCache, OfUser, OfProfiles, OfTasks

LEMMA CacheSteps ==
  ASSUME [Next]_vars, kind = "cache"
  PROVE  [CacheProofs!Next]_(CacheProofs!vars)
<1>1. [MC!Next]_(CacheProofs!vars)
  BY DEF Next, vars, OfCache, OfRemoteCache, OfLimit, OfSharedLimit, OfRequestCache,
         OfUser, OfProfiles, OfTasks, mutexVars, memoryVars, CacheProofs!vars
<1> QED
  BY <1>1, CacheNext

LEMMA CacheStep == CacheInv /\ [Next]_vars => CacheInv'
<1> SUFFICES ASSUME CacheInv, [Next]_vars PROVE CacheInv'
  OBVIOUS
<1>1. kind' = kind
  BY KindStays
<1>2. CASE kind = "cache"
  <2>1. CacheProofs!BoundsAssumption
    BY ApiAssumption DEF MC!BoundsAssumption, CacheProofs!BoundsAssumption
  <2>2. [CacheProofs!Next]_(CacheProofs!vars)
    BY <1>2, CacheSteps
  <2> QED
    BY <1>1, <1>2, <2>1, <2>2, CacheProofs!NextIInv DEF CacheInv
<1>3. CASE kind # "cache"
  BY <1>1, <1>3
  DEF CacheInv, MC!StateInit, Next, vars, OfCache, OfRemoteCache, OfLimit,
      OfSharedLimit, OfRequestCache, OfUser, OfProfiles, OfTasks, memoryVars
<1> QED
  BY <1>2, <1>3
-----------------------------------------------------------------------------
LEMMA CacheInit == Init => CacheInv
<1> SUFFICES ASSUME Init PROVE CacheInv
  OBVIOUS
<1>1. CASE kind = "cache"
  <2>1. CacheProofs!Init
    BY <1>1 DEF Init, MC!Init, MC!StateInit, MC!L!Init, MC!Absent, CacheProofs!Init,
                CacheProofs!StateInit, CacheProofs!L!Init, CacheProofs!Absent
  <2>2. CacheProofs!BoundsAssumption
    BY ApiAssumption DEF MC!BoundsAssumption, CacheProofs!BoundsAssumption
  <2> QED
    BY <1>1, <2>1, <2>2, CacheProofs!InitIInv DEF CacheInv
<1> QED
  BY <1>1 DEF CacheInv, Init
-----------------------------------------------------------------------------
RemoteInv == kind = "remoteCache" => RemoteProofs!IInv

LEMMA RemoteAssumed == RemoteProofs!RemoteAssumption
<1>1. RemoteProofs!Lease!LeaseAssumption
  BY ApiAssumption DEF RC!Lease!LeaseAssumption, RemoteProofs!Lease!LeaseAssumption
<1>2. RemoteProofs!WorkersAssumption
  BY ApiAssumption DEF RC!WorkersAssumption, RC!IsFiniteSet,
                       RemoteProofs!WorkersAssumption, RemoteProofs!IsFiniteSet
<1> QED
  BY <1>1, <1>2 DEF RemoteProofs!RemoteAssumption

\* So is a step of RemoteCache.
LEMMA RemoteNext == RC!Next => RemoteProofs!Next
<1>1. RC!MaxAllowance = RemoteProofs!MaxAllowance
  BY DEF RC!MaxAllowance, RC!Cardinality, RemoteProofs!MaxAllowance, RemoteProofs!Cardinality
<1>2. ASSUME NEW k PROVE RC!Allow(k) <=> RemoteProofs!Allow(k)
  BY <1>1 DEF RC!Allow, RC!Min, RemoteProofs!Allow, RemoteProofs!Min
<1> QED
  BY <1>2
  DEF RC!Next, RC!Proceed, RC!Goto, RC!leaseVars, RC!Call, RC!FirstGet, RC!Obtain,
      RC!GiveUp, RC!SecondGet, RC!Produce, RC!Store, RC!Release, RC!Crash, RC!Restart,
      RC!Lapse, RC!Remove, RC!Lease!Obtain, RC!Lease!Refused, RC!Lease!Release,
      RC!Lease!Die, RC!Lease!Forget, RC!Lease!Lapse, RemoteProofs!Next,
      RemoteProofs!Proceed, RemoteProofs!Goto, RemoteProofs!leaseVars,
      RemoteProofs!Call, RemoteProofs!FirstGet, RemoteProofs!Obtain,
      RemoteProofs!GiveUp, RemoteProofs!SecondGet, RemoteProofs!Produce,
      RemoteProofs!Store, RemoteProofs!Release, RemoteProofs!Crash,
      RemoteProofs!Restart, RemoteProofs!Lapse, RemoteProofs!Remove,
      RemoteProofs!Lease!Obtain, RemoteProofs!Lease!Refused, RemoteProofs!Lease!Release,
      RemoteProofs!Lease!Die, RemoteProofs!Lease!Forget, RemoteProofs!Lease!Lapse

LEMMA RemoteStep == RemoteInv /\ [Next]_vars => RemoteInv'
<1> SUFFICES ASSUME RemoteInv, [Next]_vars, kind' = "remoteCache"
             PROVE  RemoteProofs!IInv'
  BY DEF RemoteInv
<1>1. kind = "remoteCache"
  BY KindStays
<1>2. RC!Next \/ UNCHANGED <<lock, held, lapsed, cached, pc, key, allowance>>
  BY <1>1 DEF Next, vars, OfCache, OfRemoteCache, OfLimit, OfSharedLimit,
              OfRequestCache, OfUser, OfProfiles, OfTasks, leaseVars, mutexVars
<1>3. [RemoteProofs!Next]_(RemoteProofs!vars)
  BY <1>2, RemoteNext DEF RemoteProofs!vars, RemoteProofs!leaseVars
<1> QED
  BY <1>1, <1>3, RemoteAssumed, RemoteProofs!NextIInv DEF RemoteInv

LEMMA RemoteInit == Init => RemoteInv
<1> SUFFICES ASSUME Init, kind = "remoteCache" PROVE RemoteProofs!IInv
  BY DEF RemoteInv
<1>1. RemoteProofs!Init
  BY DEF Init, RC!Init, RC!Lease!Init, RemoteProofs!Init, RemoteProofs!Lease!Init
<1> QED
  BY <1>1, RemoteAssumed, RemoteProofs!InitIInv
-----------------------------------------------------------------------------
\* Where a request is in the lock of its key.
LimitPhase(p) == IF pc[p] \in {"idle", "get", "hit"} THEN "idle"
                 ELSE IF pc[p] = "lock" THEN "waiting" ELSE "holding"

LimitLockInv ==
    /\ \A p \in Pair : phase[p] = LimitPhase(p)
    /\ \A p, q \in Pair :
           phase[p] = "holding" /\ phase[q] = "holding" /\ key[p] = key[q] => p = q

\* Whoever makes a counter finds none, and a request whose window has not ended
\* has the counter of that window.
CounterInv ==
    \A p \in Pair :
        /\ pc[p] = "set" => limitCache[key[p]] = Nothing
        /\ pc[p] \in {"unlock", "hit"} => c[p] \in Addresses
        /\ pc[p] \in {"unlock", "hit"} /\ p \in within => c[p] = limitCache[key[p]]

\* What has been let through was counted by the counter of the window.
PassedInv ==
    \A k \in Keys :
        /\ passed[k] <= Limit
        /\ limitCache[k] = Nothing => passed[k] = 0
        /\ limitCache[k] # Nothing => passed[k] <= hits[limitCache[k]]

LimitIInv == RL!TypeOK /\ LimitLockInv /\ CounterInv /\ PassedInv

LimitInv == IF kind = "limit" THEN LimitIInv ELSE RL!StateInit

LEMMA LesserHits ==
  ASSUME NEW a \in Int, NEW b \in Int
  PROVE  RL!Min({a, b}) = IF a <= b THEN a ELSE b
<1> DEFINE m == IF a <= b THEN a ELSE b
<1>1. m \in {a, b} /\ \A y \in {a, b} : m <= y
  OBVIOUS
<1>2. \A x \in {a, b} : (\A y \in {a, b} : x <= y) => x = m
  OBVIOUS
<1> HIDE DEF m
<1>3. (CHOOSE x \in {a, b} : \A y \in {a, b} : x <= y) = m
  BY <1>1, <1>2
<1> QED
  BY <1>3 DEF RL!Min, m

LEMMA LimitLock ==
  ASSUME LimitIInv, NEW p \in Pair,
         \/ \E k \in Keys : RL!Call(p, k)
         \/ RL!Get(p)
         \/ RL!Locked(p)
         \/ RL!GetLocked(p)
         \/ \E o \in Addresses : RL!Set(p, o)
         \/ RL!Unlock(p)
         \/ RL!Hit(p)
  PROVE  /\ pc' \in [Pair -> RL!Labels] /\ RL!L!TypeOK'
         /\ LimitLockInv'
<1> USE DEF RL!Call, RL!Get, RL!Locked, RL!GetLocked, RL!Set, RL!Unlock, RL!Hit, RL!Goto
<1>1. pc' \in [Pair -> RL!Labels] /\ RL!L!TypeOK'
  BY DEF LimitIInv, RL!TypeOK, RL!Labels, RL!L!TypeOK, RL!L!Phases, RL!L!Request,
         RL!L!Acquire, RL!L!Release
<1>2. \A q \in Pair : phase'[q] = LimitPhase(q)'
  BY DEF LimitIInv, RL!TypeOK, RL!L!TypeOK, RL!L!Request, RL!L!Acquire, RL!L!Release,
         LimitLockInv, LimitPhase
<1>3. \A q, r \in Pair :
          phase'[q] = "holding" /\ phase'[r] = "holding" /\ key'[q] = key'[r] => q = r
  <2>1. CASE RL!Locked(p)
    BY <2>1 DEF LimitIInv, RL!TypeOK, RL!L!TypeOK, RL!L!Acquire, RL!L!Holders, LimitLockInv
  <2>2. CASE ~RL!Locked(p)
    <3>1. \A q \in Pair : phase'[q] = "holding" => phase[q] = "holding" /\ key'[q] = key[q]
      BY <2>2 DEF LimitIInv, RL!TypeOK, RL!L!TypeOK, RL!L!Request, RL!L!Release
    <3> QED
      BY <3>1 DEF LimitIInv, LimitLockInv
  <2> QED
    BY <2>1, <2>2
<1> QED
  BY <1>1, <1>2, <1>3 DEF LimitLockInv

\* A step that neither makes nor drops nor hits a counter.
LEMMA LimitLooks ==
  ASSUME LimitIInv, NEW p \in Pair,
         (\E k \in Keys : RL!Call(p, k)) \/ RL!Get(p) \/ RL!Locked(p)
             \/ RL!GetLocked(p) \/ RL!Unlock(p)
  PROVE  LimitIInv'
<1> USE ApiAssumption DEF RL!LimitAssumption, RL!Call, RL!Get, RL!Locked, RL!GetLocked,
        RL!Unlock, RL!Goto, RL!limitVars
<1>1. pc' \in [Pair -> RL!Labels] /\ RL!L!TypeOK' /\ LimitLockInv'
  BY LimitLock
<1>2. RL!TypeOK'
  BY <1>1 DEF LimitIInv, RL!TypeOK, RL!L!TypeOK
<1>3. CounterInv'
  BY DEF LimitIInv, RL!TypeOK, RL!L!TypeOK, RL!L!Request, RL!L!Acquire, RL!L!Release, CounterInv
<1>4. PassedInv'
  BY DEF LimitIInv, PassedInv
<1> QED
  BY <1>1, <1>2, <1>3, <1>4 DEF LimitIInv

\* A new counter begins with nothing let through.
LEMMA LimitSet ==
  ASSUME LimitIInv, NEW p \in Pair, NEW o \in Addresses, RL!Set(p, o)
  PROVE  LimitIInv'
<1> USE ApiAssumption DEF RL!LimitAssumption, RL!Set, RL!Goto, RL!Unreferenced
<1>1. pc' \in [Pair -> RL!Labels] /\ RL!L!TypeOK' /\ LimitLockInv'
  BY LimitLock
<1>2. RL!TypeOK'
  BY <1>1 DEF LimitIInv, RL!TypeOK, RL!L!TypeOK
<1>3. limitCache[key[p]] = Nothing /\ o # Nothing /\ key[p] \in Keys
  BY DEF LimitIInv, RL!TypeOK, RL!L!TypeOK, CounterInv
<1>4. CounterInv'
  <2>1. \A q \in Pair \ {p} : pc[q] = "set" => key[q] # key[p]
    BY DEF LimitIInv, LimitLockInv, LimitPhase
  <2>2. \A q \in Pair \ {p} :
            pc[q] \in {"unlock", "hit"} /\ q \in within => key[q] # key[p]
    BY <1>3 DEF LimitIInv, CounterInv
  <2> QED
    BY <1>3, <2>1, <2>2 DEF LimitIInv, RL!TypeOK, RL!L!TypeOK, CounterInv
<1>5. PassedInv'
  BY <1>3 DEF LimitIInv, RL!TypeOK, PassedInv
<1> QED
  BY <1>1, <1>2, <1>4, <1>5 DEF LimitIInv

\* A hit that is let through is one more in the counter of its window.
LEMMA LimitHit ==
  ASSUME LimitIInv, NEW p \in Pair, RL!Hit(p)
  PROVE  LimitIInv'
<1> USE ApiAssumption DEF RL!LimitAssumption, RL!Hit, RL!Goto
<1>1. pc' \in [Pair -> RL!Labels] /\ RL!L!TypeOK' /\ LimitLockInv'
  BY LimitLock
<1> DEFINE more == IF hits[c[p]] + 1 <= Limit + 1 THEN hits[c[p]] + 1 ELSE Limit + 1
<1>2. c[p] \in Addresses /\ hits[c[p]] \in 0..Limit + 1 /\ key[p] \in Keys
  BY DEF LimitIInv, RL!TypeOK, RL!L!TypeOK, CounterInv
<1>3. hits' = [hits EXCEPT ![c[p]] = more]
  <2>1. hits' = [hits EXCEPT ![c[p]] = RL!Min({hits[c[p]] + 1, Limit + 1})]
    OBVIOUS
  <2>2. RL!Min({hits[c[p]] + 1, Limit + 1}) = more
    BY <1>2, LesserHits
  <2> QED
    BY <2>1, <2>2
<1>4. /\ more \in 0..Limit + 1 /\ more >= hits[c[p]]
      /\ more <= Limit => more = hits[c[p]] + 1
  BY <1>2
<1> HIDE DEF more
<1>5. hits'[c[p]] = more /\ \A o \in Addresses : o # c[p] => hits'[o] = hits[o]
  BY <1>2, <1>3 DEF LimitIInv, RL!TypeOK
<1>6. passed' \in [Keys -> Nat] /\ hits' \in [Addresses -> 0..Limit + 1]
  BY <1>2, <1>3, <1>4 DEF LimitIInv, RL!TypeOK
<1>7. RL!TypeOK'
  BY <1>1, <1>6 DEF LimitIInv, RL!TypeOK, RL!L!TypeOK
<1>8. CounterInv'
  BY DEF LimitIInv, RL!TypeOK, RL!L!TypeOK, CounterInv
<1>9. ASSUME NEW k \in Keys
      PROVE  /\ passed'[k] <= Limit
             /\ limitCache[k] = Nothing => passed'[k] = 0
             /\ limitCache[k] # Nothing => passed'[k] <= hits'[limitCache[k]]
  <2>1. /\ passed[k] \in Nat /\ passed[k] <= Limit
        /\ limitCache[k] = Nothing => passed[k] = 0
        /\ limitCache[k] # Nothing => limitCache[k] \in Addresses
                                      /\ hits[limitCache[k]] \in Int
                                      /\ passed[k] <= hits[limitCache[k]]
    BY DEF LimitIInv, RL!TypeOK, PassedInv
  <2>2. limitCache[k] # Nothing => /\ hits'[limitCache[k]] >= hits[limitCache[k]]
                                   /\ hits'[limitCache[k]] \in Int
    <3>1. CASE limitCache[k] = c[p]
      BY <1>2, <1>4, <1>5, <3>1
    <3>2. CASE limitCache[k] # c[p]
      BY <1>5, <2>1, <3>2
    <3> QED
      BY <3>1, <3>2
  <2>3. CASE passed'[k] = passed[k]
    BY <2>1, <2>2, <2>3
  <2>4. CASE passed'[k] # passed[k]
    <3>1. k = key[p] /\ p \in within /\ more <= Limit /\ passed'[k] = passed[k] + 1
      BY <1>5, <2>4 DEF LimitIInv, RL!TypeOK
    <3>2. c[p] = limitCache[k] /\ limitCache[k] # Nothing
      BY <1>2, <3>1 DEF LimitIInv, CounterInv
    <3> QED
      BY <1>2, <1>4, <1>5, <2>1, <3>1, <3>2
  <2> QED
    BY <2>3, <2>4
<1>10. PassedInv'
  BY <1>9 DEF PassedInv
<1> QED
  BY <1>1, <1>7, <1>8, <1>10 DEF LimitIInv

\* When a window ends its requests are no longer within it.
LEMMA LimitTick ==
  ASSUME LimitIInv, NEW k \in Keys, RL!Tick(k)
  PROVE  LimitIInv'
<1> USE ApiAssumption DEF RL!LimitAssumption, RL!Tick
<1>1. RL!TypeOK'
  <2>1. left' \in [Keys -> 0..Window]
    BY DEF LimitIInv, RL!TypeOK
  <2>2. /\ limitCache' \in [Keys -> Addresses \cup {Nothing}]
        /\ within' \in SUBSET Pair /\ passed' \in [Keys -> Nat]
    BY DEF LimitIInv, RL!TypeOK
  <2> QED
    BY <2>1, <2>2 DEF LimitIInv, RL!TypeOK, RL!L!TypeOK
<1>2. LimitLockInv'
  BY DEF LimitIInv, LimitLockInv, LimitPhase
<1>3. CounterInv'
  BY DEF LimitIInv, RL!TypeOK, RL!L!TypeOK, CounterInv
<1>4. PassedInv'
  BY DEF LimitIInv, RL!TypeOK, PassedInv
<1> QED
  BY <1>1, <1>2, <1>3, <1>4 DEF LimitIInv

LEMMA LimitActions == LimitIInv /\ RL!Next => LimitIInv'
  BY LimitLooks, LimitSet, LimitHit, LimitTick DEF RL!Next, RL!Proceed

LEMMA LimitStep == LimitInv /\ [Next]_vars => LimitInv'
<1> SUFFICES ASSUME LimitInv, [Next]_vars PROVE LimitInv'
  OBVIOUS
<1>1. kind' = kind
  BY KindStays
<1>2. CASE kind = "limit"
  <2>1. RL!Next \/ UNCHANGED <<phase, key, pc, limitVars>>
    BY <1>2 DEF Next, vars, OfCache, OfRemoteCache, OfLimit, OfSharedLimit,
                OfRequestCache, OfUser, OfProfiles, OfTasks, mutexVars
  <2>2. CASE RL!Next
    BY <1>1, <1>2, <2>2, LimitActions DEF LimitInv
  <2>3. CASE UNCHANGED <<phase, key, pc, limitVars>>
    BY <1>1, <1>2, <2>3
    DEF LimitInv, LimitIInv, RL!TypeOK, RL!L!TypeOK, LimitLockInv, LimitPhase, CounterInv,
        PassedInv, limitVars
  <2> QED
    BY <2>1, <2>2, <2>3
<1>3. CASE kind # "limit"
  BY <1>1, <1>3
  DEF LimitInv, RL!StateInit, Next, vars, OfCache, OfRemoteCache, OfLimit,
      OfSharedLimit, OfRequestCache, OfUser, OfProfiles, OfTasks, limitVars
<1> QED
  BY <1>2, <1>3

LEMMA LimitInit == Init => LimitInv
<1> SUFFICES ASSUME Init, kind = "limit" PROVE LimitInv
  BY DEF Init, LimitInv
<1> QED
  BY ApiAssumption
  DEF RL!LimitAssumption, Init, LimitInv, LimitIInv, RL!Init, RL!L!Init, RL!StateInit,
      RL!TypeOK, RL!L!TypeOK, RL!L!Phases, RL!Labels, LimitLockInv, LimitPhase, CounterInv,
      PassedInv
-----------------------------------------------------------------------------
\* Where a request is in the lock of its key.
RequestLockInv ==
    /\ \A p \in Pair : pc[p] \in {"again", "produce"} => phase[p] = "holding"
    /\ \A p, q \in Pair :
           phase[p] = "holding" /\ phase[q] = "holding" /\ key[p] = key[q] => p = q

\* Timestamps and entries are of the past, and cut to whole seconds.
RequestTimesInv ==
    /\ \A p \in Pair : ts[p] # Nothing => ts[p] \in Int /\ ts[p] <= RQ!Truncate(clock)
    /\ \A p \in Pair : began[p] <= clock
    /\ \A k \in Keys : requestCache[k] # RQ!NoEntry => requestCache[k].read <= clock

\* What is cached when a factory has begun will not do for its caller, and was
\* read earlier.
StaleInv ==
    \A p \in Pair : pc[p] = "produce" /\ requestCache[key[p]] # RQ!NoEntry =>
        /\ ts[p] # Nothing
        /\ requestCache[key[p]].Cached < ts[p]
        /\ requestCache[key[p]].read <= began[p]

RequestIInv == /\ RQ!TypeOK
               /\ RequestLockInv
               /\ RequestTimesInv
               /\ StaleInv
               /\ RQ!AnsweredAsAsked

RequestInv == IF kind = "requestCache" THEN RequestIInv ELSE RQ!StateInit

LEMMA Truncated ==
  ASSUME NEW s \in Nat, NEW t \in Nat, s <= t
  PROVE  /\ RQ!Truncate(s) \in 0..s
         /\ RQ!Truncate(s) <= RQ!Truncate(t)
  BY DEF RQ!Truncate

\* An entry has a time, nothing has none.
LEMMA EntryTimes ==
  ASSUME NEW e \in RQ!Entries, e # RQ!NoEntry
  PROVE  e.Cached \in 0..MaxClock /\ e.read \in 0..MaxClock
  BY DEF RQ!Entries, RQ!NoEntry

LEMMA RequestCall ==
  ASSUME RequestIInv, NEW p \in Pair, NEW k \in Keys, RQ!Call(p, k)
  PROVE  RequestIInv'
<1> USE DEF RQ!Call, RQ!Goto
<1>1. PICK t \in 0..MaxClock \cup {Nothing} : ts' = [ts EXCEPT ![p] = RQ!Capped(t)]
  OBVIOUS
<1>2. RQ!Capped(t) # Nothing =>
         RQ!Capped(t) \in 0..MaxClock /\ RQ!Capped(t) <= RQ!Truncate(clock)
  <2> DEFINE s == IF t > clock THEN clock ELSE t
  <2>1. clock \in 0..MaxClock /\ MaxClock \in Nat
    BY ApiAssumption DEF RequestIInv, RQ!TypeOK, RQ!ClockAssumption
  <2>2. CASE t = Nothing
    BY <2>2 DEF RQ!Capped
  <2>3. CASE t # Nothing
    <3>1. t \in 0..MaxClock /\ RQ!Capped(t) = RQ!Truncate(s)
      BY <2>3 DEF RQ!Capped
    <3>2. s \in 0..MaxClock /\ s <= clock
      BY <2>1, <3>1
    <3> HIDE DEF s
    <3> QED
      BY <2>1, <3>1, <3>2, Truncated
  <2> QED
    BY <2>2, <2>3
<1>3. RQ!TypeOK'
  BY <1>1, <1>2 DEF RequestIInv, RQ!TypeOK, RQ!L!TypeOK, RQ!Labels, RQ!Entries
<1>4. RequestLockInv'
  BY DEF RequestIInv, RQ!TypeOK, RQ!L!TypeOK, RequestLockInv
<1>5. RequestTimesInv'
  BY <1>1, <1>2 DEF RequestIInv, RQ!TypeOK, RequestTimesInv
<1>6. StaleInv' /\ RQ!AnsweredAsAsked'
  BY DEF RequestIInv, RQ!TypeOK, RQ!L!TypeOK, StaleInv, RQ!AnsweredAsAsked
<1> QED
  BY <1>3, <1>4, <1>5, <1>6 DEF RequestIInv

\* A Get leaves p with an entry that will do or lets it go on.
LEMMA RequestGets ==
  ASSUME RequestIInv, NEW p \in Pair, RQ!FirstGet(p) \/ RQ!SecondGet(p)
  PROVE  RequestIInv'
<1> USE DEF RQ!FirstGet, RQ!SecondGet, RQ!Goto, RQ!Look
<1>1. RQ!TypeOK'
  BY DEF RequestIInv, RQ!TypeOK, RQ!L!TypeOK, RQ!L!Phases, RQ!L!Request, RQ!Labels
<1>2. RequestLockInv'
  BY DEF RequestIInv, RQ!TypeOK, RQ!L!TypeOK, RQ!L!Request, RequestLockInv
<1>3. RequestTimesInv'
  BY DEF RequestIInv, RQ!TypeOK, RequestTimesInv
<1>4. StaleInv'
  <2>1. ASSUME RQ!SecondGet(p), pc'[p] = "produce", requestCache[key[p]] # RQ!NoEntry
        PROVE  /\ ts[p] # Nothing
               /\ requestCache[key[p]].Cached < ts[p]
               /\ requestCache[key[p]].read <= began'[p]
    <3>1. ~RQ!Found(p) /\ began' = [began EXCEPT ![p] = clock]
      BY <2>1 DEF RequestIInv, RQ!TypeOK
    <3>2. ts[p] # Nothing /\ ~(requestCache[key[p]].Cached >= ts[p])
      BY <2>1, <3>1 DEF RQ!Found, RQ!Fresh
    <3>3. ts[p] \in Int /\ requestCache[key[p]].Cached \in Int
      BY <2>1, <3>2, EntryTimes DEF RequestIInv, RequestTimesInv, RQ!TypeOK, RQ!L!TypeOK
    <3>4. requestCache[key[p]].read <= clock
      BY <2>1 DEF RequestIInv, RequestTimesInv, RQ!TypeOK, RQ!L!TypeOK
    <3> QED
      BY <3>1, <3>2, <3>3, <3>4 DEF RequestIInv, RQ!TypeOK
  <2>2. pc'[p] = "produce" => RQ!SecondGet(p)
    BY DEF RequestIInv, RQ!TypeOK
  <2>3. key' = key \/ (pc'[p] # "produce" /\ \A q \in Pair \ {p} : key'[q] = key[q])
    BY DEF RequestIInv, RQ!TypeOK, RQ!L!TypeOK, RQ!L!Request
  <2> QED
    BY <2>1, <2>2, <2>3 DEF RequestIInv, RQ!TypeOK, StaleInv
<1>5. RQ!AnsweredAsAsked'
  BY DEF RequestIInv, RQ!TypeOK, RQ!AnsweredAsAsked, RQ!Found, RQ!Fresh
<1> QED
  BY <1>1, <1>2, <1>3, <1>4, <1>5 DEF RequestIInv

\* The present is later than anything that p may have asked for, and nobody
\* else is about to store for its key.
LEMMA RequestStore ==
  ASSUME RequestIInv, NEW p \in Pair, RQ!Store(p)
  PROVE  RequestIInv'
<1> USE DEF RQ!Store, RQ!Goto
<1> DEFINE new == [Cached |-> RQ!Truncate(clock), read |-> began[p]]
<1>1. /\ clock \in Nat /\ RQ!Truncate(clock) \in 0..MaxClock
      /\ began[p] \in 0..MaxClock /\ began[p] <= clock
      /\ key[p] \in Keys
  <2>1. clock \in 0..MaxClock /\ MaxClock \in Nat
    BY ApiAssumption DEF RequestIInv, RQ!TypeOK, RQ!ClockAssumption
  <2> QED
    BY <2>1, Truncated DEF RequestIInv, RQ!TypeOK, RQ!L!TypeOK, RequestTimesInv
<1>2. new \in RQ!Entries /\ entry'[p] = new
  BY <1>1 DEF RequestIInv, RQ!TypeOK, RQ!Entries
<1>3. /\ requestCache' = [requestCache EXCEPT ![key[p]] = new]
      /\ entry' = [entry EXCEPT ![p] = new]
  BY <1>2
<1>4. RQ!TypeOK'
  BY <1>2, <1>3 DEF RequestIInv, RQ!TypeOK, RQ!L!TypeOK, RQ!Labels
<1>5. RequestLockInv'
  BY DEF RequestIInv, RQ!TypeOK, RequestLockInv
<1>6. RequestTimesInv'
  BY <1>1, <1>3 DEF RequestIInv, RQ!TypeOK, RequestTimesInv
<1>7. StaleInv'
  <2>1. \A q \in Pair : pc'[q] = "produce" => q # p /\ pc[q] = "produce" /\ key[q] # key[p]
    BY DEF RequestIInv, RQ!TypeOK, RequestLockInv
  <2> QED
    BY <1>3, <2>1 DEF RequestIInv, RQ!TypeOK, StaleInv
<1>8. RQ!AnsweredAsAsked'
  BY <1>1, <1>2, <1>3 DEF RequestIInv, RQ!TypeOK, RequestTimesInv, RQ!AnsweredAsAsked
<1> QED
  BY <1>4, <1>5, <1>6, <1>7, <1>8 DEF RequestIInv

LEMMA RequestOthers ==
  ASSUME RequestIInv, NEW p \in Pair, RQ!Locked(p) \/ RQ!Fail(p) \/ RQ!Return(p)
  PROVE  RequestIInv'
<1> USE DEF RQ!Locked, RQ!Fail, RQ!Return, RQ!Goto, RQ!cacheVars, RQ!L!Acquire,
            RQ!L!Release, RQ!L!Holders
<1>1. RQ!TypeOK'
  <2>1. RQ!NoEntry \in RQ!Entries /\ 0 \in 0..MaxClock
    BY ApiAssumption DEF RQ!ClockAssumption, RQ!Entries
  <2> QED
    BY <2>1 DEF RequestIInv, RQ!TypeOK, RQ!L!TypeOK, RQ!L!Phases, RQ!Labels
<1>2. RequestLockInv'
  BY DEF RequestIInv, RQ!TypeOK, RQ!L!TypeOK, RequestLockInv
<1>3. RequestTimesInv'
  BY DEF RequestIInv, RQ!TypeOK, RequestTimesInv
<1>4. StaleInv' /\ RQ!AnsweredAsAsked'
  BY DEF RequestIInv, RQ!TypeOK, StaleInv, RQ!AnsweredAsAsked
<1> QED
  BY <1>1, <1>2, <1>3, <1>4 DEF RequestIInv

LEMMA RequestTime ==
  ASSUME RequestIInv, RQ!Tick \/ \E k \in Keys : RQ!Expire(k)
  PROVE  RequestIInv'
<1>1. CASE RQ!Tick
  <2> USE <1>1 DEF RQ!Tick
  <2>1. clock \in Nat /\ clock' \in 0..MaxClock /\ clock <= clock'
    BY ApiAssumption DEF RequestIInv, RQ!TypeOK, RQ!ClockAssumption
  <2>2. RQ!Truncate(clock) \in Int /\ RQ!Truncate(clock') \in Int
        /\ RQ!Truncate(clock) <= RQ!Truncate(clock')
    BY <2>1, Truncated
  <2>3. RequestTimesInv'
    <3>1. \A k \in Keys : requestCache[k] # RQ!NoEntry => requestCache[k].read \in Int
      BY EntryTimes DEF RequestIInv, RQ!TypeOK
    <3> QED
      BY <2>1, <2>2, <3>1 DEF RequestIInv, RQ!TypeOK, RequestTimesInv
  <2> QED
    BY <2>1, <2>3 DEF RequestIInv, RQ!TypeOK, RQ!L!TypeOK, RequestLockInv, StaleInv,
                      RQ!AnsweredAsAsked
<1>2. ASSUME NEW k \in Keys, RQ!Expire(k)
      PROVE  RequestIInv'
  BY <1>2 DEF RQ!Expire, RequestIInv, RQ!TypeOK, RQ!L!TypeOK, RQ!Entries, RequestLockInv,
              RequestTimesInv, StaleInv, RQ!AnsweredAsAsked
<1> QED
  BY <1>1, <1>2

LEMMA RequestActions == RequestIInv /\ RQ!Next => RequestIInv'
  BY RequestCall, RequestGets, RequestStore, RequestOthers, RequestTime
  DEF RQ!Next, RQ!Proceed

LEMMA RequestSteps ==
  ASSUME [Next]_vars, kind = "requestCache"
  PROVE  RQ!Next \/ UNCHANGED <<phase, key, pc, requestVars>>
  BY DEF Next, vars, OfCache, OfRemoteCache, OfLimit, OfSharedLimit,
         OfRequestCache, OfUser, OfProfiles, OfTasks, mutexVars

LEMMA RequestStep == RequestInv /\ [Next]_vars => RequestInv'
<1> SUFFICES ASSUME RequestInv, [Next]_vars PROVE RequestInv'
  OBVIOUS
<1>1. kind' = kind
  BY KindStays
<1>2. CASE kind = "requestCache"
  <2>1. CASE RQ!Next
    BY <1>1, <1>2, <2>1, RequestActions DEF RequestInv
  <2>2. CASE UNCHANGED <<phase, key, pc, requestVars>>
    BY <1>1, <1>2, <2>2
    DEF RequestInv, RequestIInv, RQ!TypeOK, RQ!L!TypeOK, RequestLockInv, RequestTimesInv,
        StaleInv, RQ!AnsweredAsAsked, requestVars
  <2> QED
    BY <1>2, <2>1, <2>2, RequestSteps
<1>3. CASE kind # "requestCache"
  BY <1>1, <1>3
  DEF RequestInv, RQ!StateInit, Next, vars, OfCache, OfRemoteCache, OfLimit,
      OfSharedLimit, OfRequestCache, OfUser, OfProfiles, OfTasks, requestVars
<1> QED
  BY <1>2, <1>3

LEMMA RequestInit == Init => RequestInv
<1> SUFFICES ASSUME Init, kind = "requestCache" PROVE RequestInv
  BY DEF Init, RequestInv
<1>1. RQ!Truncate(0) = 0 /\ 0 \in 0..MaxClock
  BY ApiAssumption DEF RQ!Truncate, RQ!ClockAssumption
<1> QED
  BY <1>1
  DEF Init, RequestInv, RequestIInv, RQ!Init, RQ!L!Init, RQ!StateInit, RQ!TypeOK,
      RQ!L!TypeOK, RQ!L!Phases, RQ!Labels, RQ!Entries, RequestLockInv, RequestTimesInv,
      StaleInv, RQ!AnsweredAsAsked

\* Only Store replaces an entry.
LEMMA Replaced ==
  ASSUME RequestIInv, RQ!Next, NEW k \in Keys, requestCache[k] # RQ!NoEntry,
         requestCache'[k] \notin {RQ!NoEntry, requestCache[k]}
  PROVE  /\ requestCache'[k].Cached > requestCache[k].Cached
         /\ requestCache'[k].read >= requestCache[k].read
<1>1. PICK p \in Pair : RQ!Store(p) /\ key[p] = k
  <2>1. ASSUME NEW p \in Pair, RQ!Store(p), key[p] # k
        PROVE  requestCache'[k] = requestCache[k]
    BY <2>1 DEF RQ!Store, RequestIInv, RQ!TypeOK
  <2>2. ASSUME NEW j \in Keys, RQ!Expire(j)
        PROVE  requestCache'[k] \in {RQ!NoEntry, requestCache[k]}
    BY <2>2 DEF RQ!Expire, RequestIInv, RQ!TypeOK
  <2> QED
    BY <2>1, <2>2 DEF RQ!Next, RQ!Proceed, RQ!Call, RQ!Locked, RQ!FirstGet, RQ!SecondGet,
                      RQ!Fail, RQ!Return, RQ!Tick, RQ!cacheVars
<1>2. requestCache'[k] = [Cached |-> RQ!Truncate(clock), read |-> began[p]]
  BY <1>1 DEF RQ!Store, RequestIInv, RQ!TypeOK
<1>3. /\ pc[p] = "produce"
      /\ ts[p] \in Int /\ ts[p] <= RQ!Truncate(clock)
      /\ requestCache[k].Cached < ts[p]
      /\ requestCache[k].read <= began[p]
  BY <1>1 DEF RQ!Store, RequestIInv, StaleInv, RequestTimesInv
<1>4. /\ requestCache[k].Cached \in Int /\ requestCache[k].read \in Int
      /\ RQ!Truncate(clock) \in Int /\ began[p] \in Int
  BY EntryTimes, Truncated DEF RequestIInv, RQ!TypeOK
<1> QED
  BY <1>2, <1>3, <1>4
-----------------------------------------------------------------------------
\* The caches have the user as it is, without roles of a request's headers, and
\* so does a request that is about to put it into one.
SharedRolesInv ==
    /\ userCache \in {Nothing, {}} /\ remoteUser \in {Nothing, {}} /\ row \in {Nothing, {}}
    /\ \A p \in Pair : pc[p] \in {"store", "set"} => u[p] = {}

UserInv == IF kind = "user"
           THEN UM!TypeOK /\ SharedRolesInv /\ RolesAreOwn /\ MutexInUse
           ELSE UM!StateInit

LEMMA UserActions ==
  ASSUME UM!Next, UM!TypeOK, SharedRolesInv, RolesAreOwn, MutexInUse
  PROVE  (UM!TypeOK /\ SharedRolesInv /\ RolesAreOwn /\ MutexInUse)'
<1> USE DEF UM!TypeOK, UM!Users, UM!Labels, UM!Goto, SharedRolesInv, RolesAreOwn,
            UM!RolesAreOwn, MutexInUse, UM!MutexInUse, UM!users, UM!locks
<1>1. ASSUME NEW p \in Pair, UM!Call(p)
      PROVE  (UM!TypeOK /\ SharedRolesInv /\ RolesAreOwn /\ MutexInUse)'
  BY <1>1 DEF UM!Call
<1>2. ASSUME NEW p \in Pair, UM!Get(p)
      PROVE  (UM!TypeOK /\ SharedRolesInv /\ RolesAreOwn /\ MutexInUse)'
  BY <1>2 DEF UM!Get, UM!WithRequestRoles
<1>3. ASSUME NEW p \in Pair, NEW m \in Addresses, UM!LoadOrStore(p, m)
      PROVE  (UM!TypeOK /\ SharedRolesInv /\ RolesAreOwn /\ MutexInUse)'
  BY <1>3 DEF UM!LoadOrStore
<1>4. ASSUME NEW p \in Pair, UM!Locked(p)
      PROVE  (UM!TypeOK /\ SharedRolesInv /\ RolesAreOwn /\ MutexInUse)'
  BY <1>4 DEF UM!Locked
<1>5. ASSUME NEW p \in Pair, UM!Lookup(p)
      PROVE  (UM!TypeOK /\ SharedRolesInv /\ RolesAreOwn /\ MutexInUse)'
  BY <1>5 DEF UM!Lookup
<1>6. ASSUME NEW p \in Pair, UM!Produce(p)
      PROVE  (UM!TypeOK /\ SharedRolesInv /\ RolesAreOwn /\ MutexInUse)'
  BY <1>6 DEF UM!Produce
<1>7. ASSUME NEW p \in Pair, UM!Store(p)
      PROVE  (UM!TypeOK /\ SharedRolesInv /\ RolesAreOwn /\ MutexInUse)'
  BY <1>7 DEF UM!Store
<1>8. ASSUME NEW p \in Pair, UM!Set(p)
      PROVE  (UM!TypeOK /\ SharedRolesInv /\ RolesAreOwn /\ MutexInUse)'
  BY <1>8 DEF UM!Set
<1>9. ASSUME NEW p \in Pair, UM!Fail(p)
      PROVE  (UM!TypeOK /\ SharedRolesInv /\ RolesAreOwn /\ MutexInUse)'
  BY <1>9 DEF UM!Fail
<1>10. ASSUME NEW p \in Pair, UM!Unlock(p)
       PROVE  (UM!TypeOK /\ SharedRolesInv /\ RolesAreOwn /\ MutexInUse)'
  BY <1>10 DEF UM!Unlock
\* Whatever is in the table goes.
<1>11. ASSUME NEW p \in Pair, UM!Delete(p)
       PROVE  (UM!TypeOK /\ SharedRolesInv /\ RolesAreOwn /\ MutexInUse)'
  BY <1>11 DEF UM!Delete
<1>12. ASSUME UM!Expire
       PROVE  (UM!TypeOK /\ SharedRolesInv /\ RolesAreOwn /\ MutexInUse)'
  BY <1>12 DEF UM!Expire
<1> QED
  BY <1>1, <1>2, <1>3, <1>4, <1>5, <1>6, <1>7, <1>8, <1>9, <1>10, <1>11, <1>12
  DEF UM!Next, UM!Proceed

LEMMA UserStep == UserInv /\ [Next]_vars => UserInv'
<1> SUFFICES ASSUME UserInv, [Next]_vars PROVE UserInv'
  OBVIOUS
<1>1. kind' = kind
  BY KindStays
<1>2. CASE kind = "user"
  <2>1. UM!Next \/ UNCHANGED <<pc, userVars>>
    BY <1>2 DEF Next, vars, OfCache, OfRemoteCache, OfLimit, OfSharedLimit,
                OfRequestCache, OfUser, OfProfiles, OfTasks
  <2>2. CASE UM!Next
    BY <1>1, <1>2, <2>2, UserActions DEF UserInv
  <2>3. CASE UNCHANGED <<pc, userVars>>
    BY <1>1, <1>2, <2>3
    DEF UserInv, UM!TypeOK, UM!Users, SharedRolesInv, RolesAreOwn, UM!RolesAreOwn,
        MutexInUse, UM!MutexInUse, userVars
  <2> QED
    BY <2>1, <2>2, <2>3
<1>3. CASE kind # "user"
  BY <1>1, <1>3
  DEF UserInv, UM!StateInit, Next, vars, OfCache, OfRemoteCache, OfLimit,
      OfSharedLimit, OfRequestCache, OfUser, OfProfiles, OfTasks, userVars
<1> QED
  BY <1>2, <1>3

LEMMA UserInit == Init => UserInv
<1> SUFFICES ASSUME Init, kind = "user" PROVE UserInv
  BY DEF Init, UserInv
<1> QED
  BY DEF Init, UserInv, UM!Init, UM!StateInit, UM!TypeOK, UM!Users, UM!Labels, SharedRolesInv,
         RolesAreOwn, UM!RolesAreOwn, MutexInUse, UM!MutexInUse
-----------------------------------------------------------------------------
\* What a call has saved is in the database, and what was locked when it began
\* is not saved by it.
TaskCallsInv ==
    \A p \in Pair :
        /\ pc[p] \in {"submit", "topics", "lessons", "tasks", "clear"} => task[p] \in answered
        /\ pc[p] \in {"checkLocked", "getCompleted", "save"} => task[p] \in Tasks
        /\ pc[p] \in {"idle", "checkLocked", "getCompleted", "save", "lock"} => seen[p] = {}
        /\ pc[p] = "clearLocked" => seen[p] \subseteq locked
        /\ pc[p] = "checkLocked" => \A t \in barred[p] : <<pod[p], t>> \in sealed
        /\ pc[p] \in {"getCompleted", "save"} => task[p] \notin barred[p]

\* What has been settled or sealed on a pod is in the database, and so in what
\* its loaders cached later.
TaskCachesInv ==
    \A d \in OnePod, t \in Tasks :
        /\ <<d, t>> \in settled => t \in answered
        /\ <<d, t>> \in sealed => t \in locked
        /\ <<d, t>> \in sealed /\ loaded[d]["lockedTasks"] # TC!Absent
               => t \in loaded[d]["lockedTasks"]

TaskIInv == TC!TypeOK /\ TaskCallsInv /\ TaskCachesInv /\ SettledIsSeen

TaskInv == IF kind = "tasks" THEN TaskIInv ELSE TC!StateInit

\* What a loader answers has all that was settled or sealed on its pod.
LEMMA TaskAnswers ==
  ASSUME TaskIInv, NEW d \in OnePod, NEW l \in TC!Loaders
  PROVE  /\ TC!Answer(d, l) \in SUBSET (Tasks \cup {Nothing})
         /\ \A t \in Tasks :
               /\ <<d, t>> \in settled /\ l \in {"tasks", "lessons"} => t \in TC!Answer(d, l)
               /\ <<d, t>> \in sealed /\ l = "lockedTasks" => t \in TC!Answer(d, l)
  BY DEF TaskIInv, TC!TypeOK, TC!Loaders, TC!Collections, TaskCachesInv, SettledIsSeen,
         TC!SettledIsSeen, TC!Answer

\* A Get changes nothing of that.
LEMMA TaskGet ==
  ASSUME TaskIInv, NEW d \in OnePod, NEW l \in TC!Loaders, TC!Get(d, l),
         UNCHANGED <<settled, sealed>>, answered \subseteq answered', locked \subseteq locked'
  PROVE  /\ loaded' \in [OnePod -> [TC!Loaders -> SUBSET (Tasks \cup {Nothing})]]
         /\ TaskCachesInv' /\ SettledIsSeen'
<1>1. loaded' = [loaded EXCEPT ![d] = [loaded[d] EXCEPT ![l] = TC!Answer(d, l)]]
  BY DEF TC!Get
<1>2. loaded' \in [OnePod -> [TC!Loaders -> SUBSET (Tasks \cup {Nothing})]]
  BY <1>1, TaskAnswers DEF TaskIInv, TC!TypeOK
<1>3. /\ \A e \in OnePod, m \in TC!Loaders : e # d \/ m # l => loaded'[e][m] = loaded[e][m]
      /\ loaded'[d][l] = TC!Answer(d, l)
  BY <1>1 DEF TaskIInv, TC!TypeOK
<1>4. TaskCachesInv'
  <2>1. ASSUME NEW e \in OnePod, NEW t \in Tasks, <<e, t>> \in sealed,
               loaded'[e]["lockedTasks"] # TC!Absent
        PROVE  t \in loaded'[e]["lockedTasks"]
    <3>1. CASE e = d /\ l = "lockedTasks"
      BY <1>3, <2>1, <3>1, TaskAnswers
    <3>2. CASE ~(e = d /\ l = "lockedTasks")
      BY <1>3, <2>1, <3>2 DEF TaskIInv, TaskCachesInv, TC!Loaders
    <3> QED
      BY <3>1, <3>2
  <2> QED
    BY <2>1 DEF TaskIInv, TaskCachesInv
<1>5. SettledIsSeen'
  BY <1>3, TaskAnswers
  DEF TaskIInv, SettledIsSeen, TC!SettledIsSeen, TC!Loaders, TC!Collections, TC!Absent
<1> QED
  BY <1>2, <1>4, <1>5

\* Clearing leaves less that could be old.
LEMMA TaskClear ==
  ASSUME TaskIInv, NEW d \in OnePod, NEW ls \in SUBSET TC!Loaders, TC!Clear(d, ls)
  PROVE  /\ loaded' \in [OnePod -> [TC!Loaders -> SUBSET (Tasks \cup {Nothing})]]
         /\ \A e \in OnePod, m \in TC!Loaders :
               /\ loaded'[e][m] \in {loaded[e][m], TC!Absent}
               /\ e = d /\ m \in ls => loaded'[e][m] = TC!Absent
  BY DEF TaskIInv, TC!TypeOK, TC!Clear, TC!Absent

LEMMA TaskReturn ==
  ASSUME TaskIInv, NEW p \in Pair, TC!Return(p)
  PROVE  /\ pc' \in [Pair -> TC!Labels] /\ task' \in [Pair -> Tasks \cup {Nothing}]
         /\ completed' \in [Pair -> BOOLEAN] /\ seen' \in [Pair -> SUBSET Tasks]
         /\ barred' \in [Pair -> SUBSET Tasks] /\ pod' = pod
         /\ pc'[p] = "idle" /\ seen'[p] = {}
         /\ \A q \in Pair \ {p} : /\ pc'[q] = pc[q] /\ task'[q] = task[q]
                                  /\ seen'[q] = seen[q] /\ barred'[q] = barred[q]
  BY DEF TC!Return, TaskIInv, TC!TypeOK, TC!Labels

LEMMA TaskCall ==
  ASSUME TaskIInv, NEW p \in Pair, TC!Call(p)
  PROVE  TaskIInv'
<1> USE DEF TC!Call, TC!rows, TC!ended
<1>1. TC!TypeOK'
  <2>1. /\ pc' \in [Pair -> TC!Labels]
        /\ task' \in [Pair -> Tasks \cup {Nothing}]
    <3>1. /\ pc \in [Pair -> TC!Labels] /\ task \in [Pair -> Tasks \cup {Nothing}]
          /\ {"lock", "checkLocked"} \subseteq TC!Labels
      BY DEF TaskIInv, TC!TypeOK, TC!Labels
    <3>2. \E label \in {"lock", "checkLocked"} : pc' = [pc EXCEPT ![p] = label]
      OBVIOUS
    <3>3. (\E t \in Tasks : task' = [task EXCEPT ![p] = t]) \/ task' = task
      OBVIOUS
    <3> QED
      BY <3>1, <3>2, <3>3
  <2>2. barred' \in [Pair -> SUBSET Tasks]
    <3> DEFINE mine == {t \in Tasks : <<pod[p], t>> \in sealed}
    <3>1. barred' = [barred EXCEPT ![p] = mine] \/ barred' = barred
      OBVIOUS
    <3>2. mine \in SUBSET Tasks
      OBVIOUS
    <3> HIDE DEF mine
    <3> QED
      BY <3>1, <3>2 DEF TaskIInv, TC!TypeOK
  <2> QED
    BY <2>1, <2>2 DEF TaskIInv, TC!TypeOK
<1>2. TaskCallsInv'
  BY DEF TaskIInv, TC!TypeOK, TaskCallsInv
<1>3. TaskCachesInv' /\ SettledIsSeen'
  BY DEF TaskIInv, TaskCachesInv, SettledIsSeen, TC!SettledIsSeen, TC!Absent
<1> QED
  BY <1>1, <1>2, <1>3 DEF TaskIInv

\* What is cached as locked includes what was sealed when p began.
LEMMA TaskCheckLocked ==
  ASSUME TaskIInv, NEW p \in Pair, TC!CheckLocked(p)
  PROVE  TaskIInv'
<1>1. /\ UNCHANGED <<answered, locked, achieved, settled, sealed>> /\ pc[p] = "checkLocked"
      /\ pod[p] \in OnePod /\ "lockedTasks" \in TC!Loaders
  BY DEF TC!CheckLocked, TC!rows, TC!ended, TaskIInv, TC!TypeOK, TC!Loaders
<1>2. CASE TC!Return(p)
  <2>1. TC!Get(pod[p], "lockedTasks") \/ UNCHANGED loaded
    BY DEF TC!CheckLocked
  <2>2. /\ loaded' \in [OnePod -> [TC!Loaders -> SUBSET (Tasks \cup {Nothing})]]
        /\ TaskCachesInv' /\ SettledIsSeen'
    BY <1>1, <2>1, TaskGet
    DEF TaskIInv, TC!TypeOK, TaskCachesInv, SettledIsSeen, TC!SettledIsSeen, TC!Absent
  <2>3. TC!TypeOK' /\ TaskCallsInv'
    <3>1. TC!TypeOK'
      BY <1>1, <1>2, <2>2, TaskReturn DEF TaskIInv, TC!TypeOK
    <3>2. TaskCallsInv'
      BY <1>1, <1>2, <2>2, TaskReturn DEF TaskIInv, TaskCallsInv
    <3> QED
      BY <3>1, <3>2
  <2> QED
    BY <2>2, <2>3 DEF TaskIInv
<1>3. CASE ~TC!Return(p)
  <2>1. /\ TC!Get(pod[p], "lockedTasks") /\ TC!Goto(p, "getCompleted")
        /\ task[p] \notin TC!Answer(pod[p], "lockedTasks")
    BY <1>3 DEF TC!CheckLocked
  <2>2. /\ loaded' \in [OnePod -> [TC!Loaders -> SUBSET (Tasks \cup {Nothing})]]
        /\ TaskCachesInv' /\ SettledIsSeen'
    BY <1>1, <2>1, TaskGet
  <2>3. task[p] \notin barred[p]
    BY <1>1, <2>1, TaskAnswers DEF TaskIInv, TaskCallsInv, TC!TypeOK
  <2>4. TC!TypeOK' /\ TaskCallsInv'
    BY <1>1, <2>1, <2>2, <2>3
    DEF TC!Goto, TC!locals, TaskIInv, TC!TypeOK, TC!Labels, TaskCallsInv
  <2> QED
    BY <2>2, <2>4 DEF TaskIInv
<1> QED
  BY <1>2, <1>3

LEMMA TaskGetCompleted ==
  ASSUME TaskIInv, NEW p \in Pair, TC!GetCompleted(p)
  PROVE  TaskIInv'
<1> USE DEF TC!GetCompleted, TC!rows, TC!ended
<1>1. pod[p] \in OnePod /\ "tasks" \in TC!Loaders
  BY DEF TaskIInv, TC!TypeOK, TC!Loaders, TC!Collections
<1>2. /\ loaded' \in [OnePod -> [TC!Loaders -> SUBSET (Tasks \cup {Nothing})]]
      /\ TaskCachesInv' /\ SettledIsSeen'
  BY <1>1, TaskGet
  DEF TaskIInv, TC!TypeOK, TaskCachesInv, SettledIsSeen, TC!SettledIsSeen, TC!Absent
<1>3. pc' \in [Pair -> TC!Labels]
  BY DEF TaskIInv, TC!TypeOK, TC!Labels
<1>4. completed' \in [Pair -> BOOLEAN]
  <2> DEFINE done == task[p] \in TC!Answer(pod[p], "tasks")
  <2>1. completed' = [completed EXCEPT ![p] = done] \/ completed' = completed
    OBVIOUS
  <2>2. done \in BOOLEAN
    OBVIOUS
  <2> HIDE DEF done
  <2> QED
    BY <2>1, <2>2 DEF TaskIInv, TC!TypeOK
<1>5. TC!TypeOK'
  BY <1>2, <1>3, <1>4 DEF TaskIInv, TC!TypeOK
<1>6. TaskCallsInv'
  BY DEF TaskIInv, TC!TypeOK, TaskCallsInv
<1> QED
  BY <1>2, <1>5, <1>6 DEF TaskIInv

LEMMA TaskSave ==
  ASSUME TaskIInv, NEW p \in Pair, TC!Save(p)
  PROVE  TaskIInv'
<1>1. /\ UNCHANGED <<locked, achieved, loaded, settled, sealed>> /\ pc[p] = "save"
      /\ task[p] \in Tasks
  BY DEF TC!Save, TC!ended, TaskIInv, TaskCallsInv
<1>2. CASE TC!Return(p) /\ UNCHANGED answered
  <2>1. TC!TypeOK' /\ TaskCallsInv'
    BY <1>1, <1>2, TaskReturn DEF TaskIInv, TC!TypeOK, TaskCallsInv
  <2> QED
    BY <1>1, <1>2, <2>1
    DEF TaskIInv, TaskCachesInv, SettledIsSeen, TC!SettledIsSeen, TC!Absent
<1>3. CASE ~(TC!Return(p) /\ UNCHANGED answered)
  <2>1. /\ answered' = answered \cup {task[p]}
        /\ seen' = [seen EXCEPT ![p] = answered']
        /\ pc' = [pc EXCEPT ![p] = "submit"]
        /\ UNCHANGED <<pod, task, completed, barred>>
    BY <1>3 DEF TC!Save
  <2>2. TC!TypeOK' /\ TaskCallsInv'
    BY <1>1, <2>1 DEF TaskIInv, TC!TypeOK, TC!Labels, TaskCallsInv
  <2> QED
    BY <1>1, <2>1, <2>2
    DEF TaskIInv, TaskCachesInv, SettledIsSeen, TC!SettledIsSeen, TC!Absent
<1> QED
  BY <1>2, <1>3

LEMMA TaskSubmit ==
  ASSUME TaskIInv, NEW p \in Pair, TC!Submit(p)
  PROVE  TaskIInv'
<1>1. /\ UNCHANGED <<answered, locked, achieved, loaded, settled, sealed>> /\ pc[p] = "submit"
      /\ TC!Return(p) \/ TC!Goto(p, "clear") \/ TC!Goto(p, "topics")
  BY DEF TC!Submit, TC!rows, TC!ended
<1>2. TC!TypeOK' /\ TaskCallsInv'
  <2>1. CASE TC!Return(p)
    <3>1. TC!TypeOK'
      BY <1>1, <2>1, TaskReturn DEF TaskIInv, TC!TypeOK
    <3>2. TaskCallsInv'
      BY <1>1, <2>1, TaskReturn DEF TaskIInv, TaskCallsInv
    <3> QED
      BY <3>1, <3>2
  <2>2. CASE TC!Goto(p, "clear") \/ TC!Goto(p, "topics")
    BY <1>1, <2>2 DEF TC!Goto, TC!locals, TaskIInv, TC!TypeOK, TC!Labels, TaskCallsInv
  <2> QED
    BY <1>1, <2>1, <2>2
<1> QED
  BY <1>1, <1>2 DEF TaskIInv, TaskCachesInv, SettledIsSeen, TC!SettledIsSeen, TC!Absent

LEMMA TaskCheckNew ==
  ASSUME TaskIInv, NEW p \in Pair, NEW coll \in TC!Collections,
         NEW next \in {"lessons", "tasks", "clear"}, TC!CheckNew(p, coll, next)
  PROVE  TaskIInv'
<1>1. /\ UNCHANGED <<answered, locked, settled, sealed>> /\ pc[p] = coll
      /\ TC!Get(pod[p], coll) \/ UNCHANGED loaded
      /\ TC!Return(p) \/ TC!Goto(p, next)
  BY DEF TC!CheckNew, TC!ended
<1>2. achieved' \subseteq Achievements
  BY DEF TC!CheckNew, TC!Due, TaskIInv, TC!TypeOK
<1>3. pod[p] \in OnePod /\ coll \in TC!Loaders
  BY DEF TaskIInv, TC!TypeOK, TC!Loaders
<1>4. /\ loaded' \in [OnePod -> [TC!Loaders -> SUBSET (Tasks \cup {Nothing})]]
      /\ TaskCachesInv' /\ SettledIsSeen'
  BY <1>1, <1>3, TaskGet
  DEF TaskIInv, TC!TypeOK, TaskCachesInv, SettledIsSeen, TC!SettledIsSeen, TC!Absent
<1>5. TC!TypeOK' /\ TaskCallsInv'
  <2>1. CASE TC!Return(p)
    BY <1>1, <1>2, <1>4, <2>1, TaskReturn DEF TaskIInv, TC!TypeOK, TaskCallsInv
  <2>2. CASE TC!Goto(p, next)
    BY <1>1, <1>2, <1>4, <2>2
    DEF TC!Goto, TC!locals, TC!Collections, TaskIInv, TC!TypeOK, TC!Labels, TaskCallsInv
  <2> QED
    BY <1>1, <2>1, <2>2
<1> QED
  BY <1>4, <1>5 DEF TaskIInv

\* The loaders that SettledIsSeen is about are empty when the call ends.
LEMMA TaskClearCompleted ==
  ASSUME TaskIInv, NEW p \in Pair, TC!ClearCompleted(p)
  PROVE  TaskIInv'
<1> DEFINE ls == {"tasks", "lockedTasks", "lessons"}
<1>1. /\ UNCHANGED <<answered, locked, achieved, sealed>>
      /\ pc[p] = "clear" /\ TC!Return(p) /\ TC!Clear(pod[p], ls)
      /\ settled' = settled \cup {<<pod[p], task[p]>>}
      /\ pod[p] \in OnePod /\ ls \in SUBSET TC!Loaders /\ task[p] \in answered
      /\ answered \subseteq Tasks
  BY DEF TC!ClearCompleted, TC!rows, TaskIInv, TC!TypeOK, TC!Loaders, TC!Collections, TaskCallsInv
<1>2. /\ loaded' \in [OnePod -> [TC!Loaders -> SUBSET (Tasks \cup {Nothing})]]
      /\ \A e \in OnePod, m \in TC!Loaders :
            /\ loaded'[e][m] \in {loaded[e][m], TC!Absent}
            /\ e = pod[p] /\ m \in ls => loaded'[e][m] = TC!Absent
  BY <1>1, TaskClear
<1>3. TC!TypeOK' /\ TaskCallsInv'
  BY <1>1, <1>2, TaskReturn DEF TaskIInv, TC!TypeOK, TaskCallsInv
<1>4. TaskCachesInv' /\ SettledIsSeen'
  BY <1>1, <1>2 DEF TaskIInv, TaskCachesInv, SettledIsSeen, TC!SettledIsSeen, TC!Absent,
                    TC!Loaders, TC!Collections
<1> QED
  BY <1>3, <1>4 DEF TaskIInv

LEMMA TaskSetAnswerLock ==
  ASSUME TaskIInv, NEW p \in Pair, TC!SetAnswerLock(p)
  PROVE  TaskIInv'
<1> USE DEF TC!SetAnswerLock, TC!ended
<1>1. TC!TypeOK'
  BY DEF TaskIInv, TC!TypeOK, TC!Labels
<1>2. TaskCallsInv'
  BY DEF TaskIInv, TC!TypeOK, TaskCallsInv
<1>3. TaskCachesInv' /\ SettledIsSeen'
  BY DEF TaskIInv, TC!TypeOK, TaskCachesInv, SettledIsSeen, TC!SettledIsSeen, TC!Absent
<1> QED
  BY <1>1, <1>2, <1>3 DEF TaskIInv

LEMMA TaskClearLocked ==
  ASSUME TaskIInv, NEW p \in Pair, TC!ClearLocked(p)
  PROVE  TaskIInv'
<1>1. /\ UNCHANGED <<answered, locked, achieved, settled>>
      /\ pc[p] = "clearLocked" /\ TC!Return(p) /\ TC!Clear(pod[p], {"lockedTasks"})
      /\ sealed' = sealed \cup {<<pod[p], t>> : t \in seen[p]}
      /\ pod[p] \in OnePod /\ {"lockedTasks"} \in SUBSET TC!Loaders
      /\ seen[p] \subseteq locked /\ seen[p] \subseteq Tasks
  BY DEF TC!ClearLocked, TC!rows, TaskIInv, TC!TypeOK, TC!Loaders, TaskCallsInv
<1>2. /\ loaded' \in [OnePod -> [TC!Loaders -> SUBSET (Tasks \cup {Nothing})]]
      /\ \A e \in OnePod, m \in TC!Loaders :
            /\ loaded'[e][m] \in {loaded[e][m], TC!Absent}
            /\ e = pod[p] /\ m = "lockedTasks" => loaded'[e][m] = TC!Absent
  BY <1>1, TaskClear
<1>3. sealed' \subseteq OnePod \X Tasks
  BY <1>1 DEF TaskIInv, TC!TypeOK
<1>4. TC!TypeOK' /\ TaskCallsInv'
  <2>1. TC!TypeOK'
    BY <1>1, <1>2, <1>3, TaskReturn DEF TaskIInv, TC!TypeOK
  <2>2. TaskCallsInv'
    BY <1>1, <1>2, <1>3, TaskReturn DEF TaskIInv, TaskCallsInv
  <2> QED
    BY <2>1, <2>2
<1>5. TaskCachesInv' /\ SettledIsSeen'
  BY <1>1, <1>2 DEF TaskIInv, TaskCachesInv, SettledIsSeen, TC!SettledIsSeen, TC!Absent,
                    TC!Loaders, TC!Collections
<1> QED
  BY <1>4, <1>5 DEF TaskIInv

LEMMA TaskCaches ==
  ASSUME TaskIInv, NEW d \in OnePod, TC!View(d) \/ TC!Expire(d)
  PROVE  TaskIInv'
<1>1. UNCHANGED <<pc, pod, task, completed, seen, barred, answered, locked, achieved,
                  settled, sealed>>
  BY DEF TC!View, TC!Expire, TC!locals, TC!rows, TC!ended
<1>2. /\ loaded' \in [OnePod -> [TC!Loaders -> SUBSET (Tasks \cup {Nothing})]]
      /\ TaskCachesInv' /\ SettledIsSeen'
  <2>1. CASE TC!View(d)
    <3>1. PICK l \in TC!Loaders : TC!Get(d, l)
      BY <2>1 DEF TC!View, TC!Loaders, TC!Collections
    <3> QED
      BY <1>1, <3>1, TaskGet
  <2>2. CASE TC!Expire(d)
    <3>1. PICK l \in TC!Loaders : TC!Clear(d, {l})
      BY <2>2 DEF TC!Expire
    <3>2. /\ loaded' \in [OnePod -> [TC!Loaders -> SUBSET (Tasks \cup {Nothing})]]
          /\ \A e \in OnePod, m \in TC!Loaders : loaded'[e][m] \in {loaded[e][m], TC!Absent}
      BY <3>1, TaskClear
    <3> QED
      BY <1>1, <3>2 DEF TaskIInv, TaskCachesInv, SettledIsSeen, TC!SettledIsSeen, TC!Absent,
                        TC!Loaders, TC!Collections
  <2> QED
    BY <2>1, <2>2
<1> QED
  BY <1>1, <1>2 DEF TaskIInv, TC!TypeOK, TaskCallsInv

LEMMA TaskActions == TaskIInv /\ TC!Next => TaskIInv'
  BY TaskCall, TaskCheckLocked, TaskGetCompleted, TaskSave, TaskSubmit, TaskCheckNew,
     TaskClearCompleted, TaskSetAnswerLock, TaskClearLocked, TaskCaches
  DEF TC!Next, TC!Proceed, TC!Collections

LEMMA TaskStep == TaskInv /\ [Next]_vars => TaskInv'
<1> SUFFICES ASSUME TaskInv, [Next]_vars PROVE TaskInv'
  OBVIOUS
<1>1. kind' = kind
  BY KindStays
<1>2. CASE kind = "tasks"
  <2>1. TC!Next \/ UNCHANGED <<pc, pod, taskVars>>
    BY <1>2 DEF Next, vars, OfCache, OfRemoteCache, OfLimit, OfSharedLimit,
                OfRequestCache, OfUser, OfProfiles, OfTasks
  <2>2. CASE TC!Next
    BY <1>1, <1>2, <2>2, TaskActions DEF TaskInv
  <2>3. CASE UNCHANGED <<pc, pod, taskVars>>
    BY <1>1, <1>2, <2>3
    DEF TaskInv, TaskIInv, TC!TypeOK, TC!Absent, TaskCallsInv, TaskCachesInv, SettledIsSeen,
        TC!SettledIsSeen, taskVars
  <2> QED
    BY <2>1, <2>2, <2>3
<1>3. CASE kind # "tasks"
  BY <1>1, <1>3
  DEF TaskInv, TC!StateInit, TC!Absent, Next, vars, OfCache, OfRemoteCache, OfLimit,
      OfSharedLimit, OfRequestCache, OfUser, OfProfiles, OfTasks, taskVars
<1> QED
  BY <1>2, <1>3

LEMMA TaskInit == Init => TaskInv
<1> SUFFICES ASSUME Init, kind = "tasks" PROVE TaskInv
  BY DEF Init, TaskInv
<1> QED
  BY DEF Init, TaskInv, TaskIInv, TC!Init, TC!StateInit, TC!TypeOK, TC!Labels, TC!Absent,
         TaskCallsInv, TaskCachesInv, SettledIsSeen, TC!SettledIsSeen
-----------------------------------------------------------------------------
\* In the behaviours about profiles the remote cache has the one key of the
\* user's profiles.
ProfilesRemote == INSTANCE RemoteCacheProofs
                  WITH Procs <- Pair, Keys <- OneKey, NoProc <- Nobody, NoKey <- Nothing

\* GetOrCreate runs inside the second half of getProfiles, and the insertion
\* inside its factory.
ProfilesPlaceInv ==
    \A p \in Pair : /\ pc[p] # "idle" => at[p] \in {"remote", "insert"}
                    /\ at[p] = "insert" => pc[p] = "factory"

\* Those who may find no profile, though another is about to insert one.
Unsafe == {p \in Pair : pc[p] \in {"second", "factory"} /\ ~ProfilesRemote!HasLease(p)}
Inserting == {p \in Pair : at[p] = "insert"}

\* Each of the former cost a mishap; all but one of those who found no profile
\* are among them.
UnsafeInv == Cardinality(Unsafe) <= mishaps
InsertedInv == Cardinality(profiles) + Cardinality(Inserting) <= 1 + mishaps

ProfilesTypes ==
    /\ PR!L!TypeOK
    /\ at \in [Pair -> PR!Steps]
    /\ profileCache \in [Pods -> SUBSET (1..MaxProfiles)]
    /\ remoteProfiles \in SUBSET (1..MaxProfiles)
    /\ profiles \in SUBSET (1..MaxProfiles)
    /\ found \in [Pair -> SUBSET (1..MaxProfiles)]
    /\ mishaps \in 0..MaxMishaps

ProfilesIInv == /\ ProfilesRemote!IInv
                /\ ProfilesTypes
                /\ ProfilesPlaceInv /\ UnsafeInv /\ InsertedInv

\* The limiter of all pods counts its mishaps as well.
ProfilesInv == IF kind = "profiles" THEN ProfilesIInv
               ELSE profiles = {} /\ mishaps \in 0..MaxMishaps

LEMMA ProfilesCounts ==
  ASSUME NEW S
  PROVE  PR!Cardinality(S) = Cardinality(S)
  BY DEF PR!Cardinality, Cardinality

LEMMA PairCounts ==
  ASSUME NEW S \in SUBSET Pair
  PROVE  /\ IsFiniteSet(S)
         /\ Cardinality(S) \in Nat
         /\ \A T \in SUBSET S : Cardinality(T) <= Cardinality(S)
<1>1. IsFiniteSet(Pair)
  <2>1. IsFiniteSet(Procs)
    BY ApiAssumption DEF RC!WorkersAssumption, RC!IsFiniteSet, IsFiniteSet
  <2> QED
    BY <2>1, ApiAssumption, FS_Subset
<1> QED
  BY <1>1, FS_Subset, FS_CardinalityType

LEMMA OneMoreOfPair ==
  ASSUME NEW S \in SUBSET Pair, NEW T \in SUBSET Pair, NEW x, T \subseteq S \cup {x}
  PROVE  Cardinality(T) <= Cardinality(S) + 1
<1>1. IsFiniteSet(S \cup {x}) /\ IsFiniteSet(S) /\ Cardinality(S) \in Nat
  BY PairCounts, FS_AddElement
<1>2. Cardinality(S \cup {x}) = IF x \in S THEN Cardinality(S) ELSE Cardinality(S) + 1
  BY <1>1, FS_AddElement
<1>3. Cardinality(T) <= Cardinality(S \cup {x}) /\ Cardinality(S \cup {x}) \in Nat
  BY <1>1, FS_Subset, FS_CardinalityType
<1>4. Cardinality(T) \in Nat
  BY PairCounts
<1> QED
  BY <1>1, <1>2, <1>3, <1>4

LEMMA OneLessOfPair ==
  ASSUME NEW S \in SUBSET Pair, NEW x \in S, NEW T \in SUBSET (S \ {x})
  PROVE  Cardinality(T) <= Cardinality(S) - 1
<1>1. IsFiniteSet(S) /\ Cardinality(S) \in Nat
  BY PairCounts
<1>2. Cardinality(S \ {x}) = Cardinality(S) - 1
  BY <1>1, FS_RemoveElement
<1>3. S \ {x} \in SUBSET Pair
  OBVIOUS
<1> QED
  BY <1>2, <1>3, PairCounts

LEMMA ProfileRows ==
  ASSUME NEW S \in SUBSET (1..MaxProfiles)
  PROVE  /\ IsFiniteSet(S) /\ Cardinality(S) \in Nat
         /\ \A x : Cardinality(S \cup {x}) \in Nat /\ Cardinality(S \cup {x}) <= Cardinality(S) + 1
<1>1. IsFiniteSet(S)
  <2>1. IsFiniteSet(1..MaxProfiles)
    BY ApiAssumption, FS_Interval
  <2> QED
    BY <2>1, FS_Subset
<1>2. Cardinality(S) \in Nat
  BY <1>1, FS_CardinalityType
<1>3. ASSUME NEW x
      PROVE  Cardinality(S \cup {x}) \in Nat /\ Cardinality(S \cup {x}) <= Cardinality(S) + 1
  <2>1. IsFiniteSet(S \cup {x})
        /\ Cardinality(S \cup {x}) = IF x \in S THEN Cardinality(S) ELSE Cardinality(S) + 1
    BY <1>1, FS_AddElement
  <2> QED
    BY <1>2, <2>1
<1> QED
  BY <1>1, <1>2, <1>3

\* With the lease of the key there is only one.
LEMMA OneSafe ==
  ASSUME ProfilesRemote!IInv, NEW p \in Pair, NEW q \in Pair,
         ProfilesRemote!HasLease(p), ProfilesRemote!HasLease(q)
  PROVE  p = q
<1>1. held[p] \in OneKey /\ held[q] \in OneKey
  BY DEF ProfilesRemote!IInv, ProfilesRemote!LeaseInv, ProfilesRemote!HasLease,
         ProfilesRemote!Lease!TypeOK
<1>2. lock[held[p]] = p /\ lock[held[q]] = q
  BY DEF ProfilesRemote!IInv, ProfilesRemote!LeaseInv, ProfilesRemote!HasLease,
         ProfilesRemote!Lease!KeptUntilLapse
<1>3. held[p] = held[q]
  BY <1>1 DEF OneKey
<1> QED
  BY <1>2, <1>3

\* Nobody goes on without the lock, nor to insert a profile.
LEMMA NobodyUnsafe ==
  ASSUME ProfilesIInv, Unsafe' \subseteq Unsafe, Inserting' \subseteq Inserting,
         profiles' = profiles, mishaps' \in Nat, mishaps' >= mishaps
  PROVE  UnsafeInv' /\ InsertedInv'
<1>1. /\ Unsafe \in SUBSET Pair /\ Unsafe' \in SUBSET Pair
      /\ Inserting \in SUBSET Pair /\ Inserting' \in SUBSET Pair
  BY DEF Unsafe, Inserting
<1>2. /\ Cardinality(Unsafe) \in Nat /\ Cardinality(Unsafe') \in Nat
      /\ Cardinality(Inserting) \in Nat /\ Cardinality(Inserting') \in Nat
      /\ Cardinality(Unsafe') <= Cardinality(Unsafe)
      /\ Cardinality(Inserting') <= Cardinality(Inserting)
  BY <1>1, PairCounts
<1>3. Cardinality(profiles) \in Nat /\ mishaps \in Nat
  BY ProfileRows DEF ProfilesIInv, ProfilesTypes
<1> QED
  BY <1>2, <1>3 DEF ProfilesIInv, UnsafeInv, InsertedInv

\* One does without the lock, for a mishap.
LEMMA OneUnsafe ==
  ASSUME ProfilesIInv, NEW x, Unsafe' \subseteq Unsafe \cup {x},
         Inserting' \subseteq Inserting, profiles' = profiles, PR!Mishap
  PROVE  UnsafeInv' /\ InsertedInv'
<1>1. /\ Unsafe \in SUBSET Pair /\ Unsafe' \in SUBSET Pair
      /\ Inserting \in SUBSET Pair /\ Inserting' \in SUBSET Pair
  BY DEF Unsafe, Inserting
<1>2. /\ Cardinality(Unsafe) \in Nat /\ Cardinality(Unsafe') \in Nat
      /\ Cardinality(Inserting) \in Nat /\ Cardinality(Inserting') \in Nat
      /\ Cardinality(Inserting') <= Cardinality(Inserting)
  BY <1>1, PairCounts
<1>3. Cardinality(Unsafe') <= Cardinality(Unsafe) + 1
  BY <1>1, OneMoreOfPair
<1>4. Cardinality(profiles) \in Nat /\ mishaps \in Nat /\ mishaps' = mishaps + 1
  BY ProfileRows DEF ProfilesIInv, ProfilesTypes, PR!Mishap
<1> QED
  BY <1>2, <1>3, <1>4 DEF ProfilesIInv, UnsafeInv, InsertedInv
\* The types that the steps below rest on.
LEMMA ProfilesShape ==
  ASSUME ProfilesIInv
  PROVE  /\ pc \in [Pair -> ProfilesRemote!Labels] /\ key \in [Pair -> OneKey]
         /\ held \in [Pair -> OneKey \cup {Nothing}]
         /\ lapsed \in SUBSET {p \in Pair : held[p] # Nothing}
         /\ phase \in [Pair -> PR!L!Phases] /\ pod \in [Pair -> Pods]
         /\ at \in [Pair -> PR!Steps]
         /\ found \in [Pair -> SUBSET (1..MaxProfiles)]
         /\ profileCache \in [Pods -> SUBSET (1..MaxProfiles)]
         /\ remoteProfiles \in SUBSET (1..MaxProfiles)
         /\ profiles \in SUBSET (1..MaxProfiles)
         /\ mishaps \in Nat /\ mishaps \in 0..MaxMishaps
         /\ ProfilesPlaceInv
  BY DEF ProfilesIInv, ProfilesTypes, ProfilesRemote!IInv, ProfilesRemote!TypeOK,
         ProfilesRemote!Lease!TypeOK, PR!L!TypeOK

\* What the other requests see of a step of p: nothing.
OthersAsTheyWere(p) ==
    \A q \in Pair \ {p} : /\ pc'[q] = pc[q] /\ at'[q] = at[q]
                          /\ held'[q] = held[q] /\ (q \in lapsed' <=> q \in lapsed)

\* What is left of the step of p to look at.
LEMMA OnlyOne ==
  ASSUME ProfilesIInv, NEW p \in Pair, OthersAsTheyWere(p),
         pc'[p] # "idle" => at'[p] \in {"remote", "insert"},
         at'[p] = "insert" => pc'[p] = "factory",
         profiles' = profiles, mishaps' = mishaps,
         p \in Unsafe' => p \in Unsafe,
         p \in Inserting' => p \in Inserting
  PROVE  ProfilesPlaceInv' /\ UnsafeInv' /\ InsertedInv'
<1>1. ProfilesPlaceInv'
  BY ProfilesShape DEF ProfilesPlaceInv, OthersAsTheyWere
<1>2. Unsafe' \subseteq Unsafe
  BY DEF OthersAsTheyWere, Unsafe, ProfilesRemote!HasLease
<1>3. Inserting' \subseteq Inserting
  BY DEF OthersAsTheyWere, Inserting
<1>4. mishaps' \in Nat /\ mishaps' >= mishaps
  BY ProfilesShape
<1> QED
  BY <1>1, <1>2, <1>3, <1>4, NobodyUnsafe

\* getProfiles outside GetOrCreate.
LEMMA ProfilesOutside ==
  ASSUME ProfilesIInv, NEW p \in Pair,
         \/ PR!Call(p) \/ PR!Get(p) \/ PR!Locked(p) \/ PR!GetLocked(p)
         \/ PR!Set(p) \/ PR!Unlock(p)
  PROVE  ProfilesTypes' /\ ProfilesPlaceInv' /\ UnsafeInv' /\ InsertedInv'
<1> USE ProfilesShape
<1>1. OthersAsTheyWere(p)
  BY DEF PR!Call, PR!Get, PR!Locked, PR!GetLocked, PR!Set, PR!Unlock, PR!To,
         PR!remoteVars, PR!RC!Call, PR!RC!Goto, PR!RC!leaseVars, OthersAsTheyWere
<1>2. /\ at[p] # "remote" /\ at[p] # "insert" /\ pc[p] = "idle"
      /\ profiles' = profiles /\ mishaps' = mishaps
  BY DEF PR!Call, PR!Get, PR!Locked, PR!GetLocked, PR!Set, PR!Unlock, PR!profileVars,
         PR!L!Acquire, ProfilesPlaceInv
<1>3. /\ pc'[p] \in {"idle", "get"} /\ at'[p] # "insert"
      /\ pc'[p] # "idle" => at'[p] = "remote"
  BY <1>2 DEF PR!Call, PR!Get, PR!Locked, PR!GetLocked, PR!Set, PR!Unlock, PR!To,
         PR!remoteVars, PR!RC!Call, PR!RC!Goto
<1>4. ProfilesTypes'
  BY <1>2 DEF PR!Call, PR!Get, PR!Locked, PR!GetLocked, PR!Set, PR!Unlock, PR!To, PR!Keep,
         PR!profileVars, PR!mutexVars, PR!L!Request, PR!L!Acquire, PR!L!Release,
         PR!L!TypeOK, PR!L!Phases, PR!Steps, ProfilesTypes
<1>5. p \notin Unsafe' /\ p \notin Inserting'
  BY <1>3 DEF Unsafe, Inserting
<1> QED
  BY <1>1, <1>2, <1>3, <1>4, <1>5, OnlyOne
-----------------------------------------------------------------------------
\* GetOrCreate up to its factory.
LEMMA ProfilesLookup ==
  ASSUME ProfilesIInv, NEW p \in Pair, PR!Lookup(p)
  PROVE  ProfilesTypes' /\ ProfilesPlaceInv' /\ UnsafeInv' /\ InsertedInv'
<1> USE ProfilesShape
<1>1. at[p] = "remote" /\ profiles' = profiles /\ profileCache' = profileCache
      /\ remoteProfiles' = remoteProfiles /\ UNCHANGED <<phase, pod>>
  BY DEF PR!Lookup, PR!profileVars, PR!mutexVars
<1> DEFINE First == /\ PR!RC!FirstGet(p) /\ mishaps' = mishaps
                    /\ \/ pc'[p] = "lock" /\ PR!To(p, "remote") /\ UNCHANGED found
                       \/ pc'[p] = "idle" /\ PR!To(p, "set") /\ PR!Keep(p, remoteProfiles)
                       \/ pc'[p] = "idle" /\ PR!To(p, "unlock") /\ UNCHANGED found
           Second == /\ PR!RC!SecondGet(p) /\ UNCHANGED at
                     /\ PR!Keep(p, remoteProfiles) \/ UNCHANGED found
                     /\ PR!Mishap \/ UNCHANGED mishaps
<1>2. \/ First
      \/ PR!RC!Obtain(p) /\ UNCHANGED <<at, found, mishaps>>
      \/ PR!RC!GiveUp(p) /\ PR!Mishap /\ UNCHANGED <<at, found>>
      \/ Second
  BY DEF PR!Lookup
<1>3. ProfilesTypes'
  <2>1. mishaps' \in 0..MaxMishaps
    BY <1>2, ApiAssumption DEF PR!Mishap
  <2>2. at' \in [Pair -> PR!Steps] /\ found' \in [Pair -> SUBSET (1..MaxProfiles)]
    BY <1>2 DEF PR!To, PR!Keep, PR!Steps
  <2> QED
    BY <1>1, <2>1, <2>2 DEF ProfilesTypes, PR!L!TypeOK
<1> USE DEF PR!RC!Goto, PR!RC!leaseVars
<1>4. CASE First
  <2>1. OthersAsTheyWere(p)
    BY <1>4 DEF PR!RC!FirstGet, PR!To, OthersAsTheyWere
  <2>2. /\ pc'[p] \in {"idle", "lock"} /\ at'[p] # "insert"
        /\ pc'[p] # "idle" => at'[p] = "remote"
    BY <1>4 DEF PR!RC!FirstGet, PR!To
  <2>3. p \notin Unsafe' /\ p \notin Inserting'
    BY <2>2 DEF Unsafe, Inserting
  <2> QED
    BY <1>1, <1>3, <1>4, <2>1, <2>2, <2>3, OnlyOne
\* With the lock nobody is unsafe.
<1>5. CASE PR!RC!Obtain(p) /\ UNCHANGED <<at, found, mishaps>>
  <2>1. OthersAsTheyWere(p)
    BY <1>5 DEF PR!RC!Obtain, PR!RC!Lease!Obtain, OthersAsTheyWere
  <2>2. pc'[p] = "second" /\ held'[p] = key[p] /\ p \notin lapsed'
    BY <1>5 DEF PR!RC!Obtain, PR!RC!Lease!Obtain
  <2>3. key[p] # Nothing
    BY ApiAssumption DEF RC!Lease!LeaseAssumption, OneKey
  <2>4. p \notin Unsafe' /\ p \notin Inserting'
    BY <1>1, <1>5, <2>2, <2>3 DEF Unsafe, Inserting, ProfilesRemote!HasLease
  <2> QED
    BY <1>1, <1>3, <1>5, <2>1, <2>2, <2>4, OnlyOne
<1>6. CASE PR!RC!GiveUp(p) /\ PR!Mishap /\ UNCHANGED <<at, found>>
  <2>1. OthersAsTheyWere(p) /\ pc'[p] = "second"
    BY <1>6 DEF PR!RC!GiveUp, PR!RC!Lease!Refused, OthersAsTheyWere
  <2>2. Unsafe' \subseteq Unsafe \cup {p}
    BY <2>1 DEF OthersAsTheyWere, Unsafe, ProfilesRemote!HasLease
  <2>3. Inserting' = Inserting
    BY <1>6 DEF Inserting
  <2>4. ProfilesPlaceInv'
    BY <1>1, <1>6, <2>1 DEF ProfilesPlaceInv, OthersAsTheyWere
  <2> QED
    BY <1>1, <1>3, <1>6, <2>2, <2>3, <2>4, OneUnsafe
<1>7. CASE Second
  <2>1. /\ OthersAsTheyWere(p) /\ pc[p] = "second" /\ pc'[p] \in {"release", "factory"}
        /\ UNCHANGED <<held, lapsed>>
    BY <1>7 DEF PR!RC!SecondGet, OthersAsTheyWere
  <2>2. Unsafe' \subseteq Unsafe /\ Unsafe' \subseteq Unsafe \cup {p}
    BY <2>1 DEF OthersAsTheyWere, Unsafe, ProfilesRemote!HasLease
  <2>3. Inserting' = Inserting
    BY <1>7 DEF Inserting
  <2>4. ProfilesPlaceInv'
    BY <1>1, <1>7, <2>1 DEF ProfilesPlaceInv, OthersAsTheyWere
  <2>5. CASE PR!Mishap
    BY <1>1, <1>3, <2>2, <2>3, <2>4, <2>5, OneUnsafe
  <2>6. CASE mishaps' = mishaps
    BY <1>1, <1>3, <2>2, <2>3, <2>4, <2>6, NobodyUnsafe
  <2> QED
    BY <1>7, <2>5, <2>6
<1> QED
  BY <1>2, <1>4, <1>5, <1>6, <1>7

\* The factory finds no profile, on its own or as one of those who are unsafe.
LEMMA ProfilesRead ==
  ASSUME ProfilesIInv, NEW p \in Pair, PR!ReadProfiles(p)
  PROVE  ProfilesTypes' /\ ProfilesPlaceInv' /\ UnsafeInv' /\ InsertedInv'
<1> USE ProfilesShape
<1>1. /\ at[p] = "remote" /\ pc[p] = "factory" /\ UNCHANGED <<held, lapsed, mishaps, phase, pod>>
      /\ profiles' = profiles /\ profileCache' = profileCache /\ remoteProfiles' = remoteProfiles
  BY DEF PR!ReadProfiles, PR!remoteVars, PR!RC!Produce, PR!RC!leaseVars, PR!profileVars, PR!mutexVars
<1>2. ProfilesTypes'
  <2>1. at' \in [Pair -> PR!Steps] /\ found' \in [Pair -> SUBSET (1..MaxProfiles)]
    BY DEF PR!ReadProfiles, PR!remoteVars, PR!To, PR!Keep, PR!Steps
  <2> QED
    BY <1>1, <2>1 DEF ProfilesTypes, PR!L!TypeOK
<1>3. CASE profiles = {} /\ PR!To(p, "insert") /\ pc' = pc
  <2>1. Unsafe' = Unsafe
    BY <1>1, <1>3 DEF Unsafe, ProfilesRemote!HasLease
  <2>2. ProfilesPlaceInv'
    BY <1>1, <1>3 DEF ProfilesPlaceInv, PR!To
  <2>3. \A q \in Inserting' : q \in Unsafe \/ ProfilesRemote!HasLease(q)
    BY <1>1, <1>3, <2>2 DEF Inserting, Unsafe, ProfilesPlaceInv
  <2>4. PICK x : Inserting' \subseteq Unsafe \cup {x}
    <3>1. CASE Inserting' \subseteq Unsafe
      BY <3>1
    <3>2. CASE \E q \in Inserting' : q \notin Unsafe
      BY <2>3, <3>2, OneSafe DEF ProfilesIInv, Inserting
    <3> QED
      BY <3>1, <3>2
  <2>5. Unsafe \in SUBSET Pair /\ Inserting' \in SUBSET Pair
    BY DEF Unsafe, Inserting
  <2>6. Cardinality(Inserting') <= Cardinality(Unsafe) + 1
    BY <2>4, <2>5, OneMoreOfPair
  <2>7. Cardinality(Inserting') \in Nat /\ Cardinality(Unsafe) \in Nat
    BY <2>5, PairCounts
  <2>8. Cardinality(profiles') = 0
    BY <1>1, <1>3, FS_EmptySet
  <2>9. Cardinality(Unsafe) <= mishaps
    BY DEF ProfilesIInv, UnsafeInv
  <2> QED
    BY <1>1, <1>2, <2>1, <2>2, <2>6, <2>7, <2>8, <2>9 DEF UnsafeInv, InsertedInv
<1>4. CASE PR!RC!Produce(p) /\ at' = at
  <2>1. OthersAsTheyWere(p) /\ pc'[p] \in {"store", "release"}
    BY <1>1, <1>4 DEF PR!RC!Produce, PR!RC!Goto, OthersAsTheyWere
  <2>2. p \notin Unsafe' /\ p \notin Inserting'
    BY <1>1, <1>4, <2>1 DEF Unsafe, Inserting
  <2> QED
    BY <1>1, <1>2, <1>4, <2>1, <2>2, OnlyOne
<1> QED
  BY <1>3, <1>4 DEF PR!ReadProfiles, PR!remoteVars

\* Whoever inserts a profile is one fewer to do so.
LEMMA ProfilesSave ==
  ASSUME ProfilesIInv, NEW p \in Pair, PR!SaveProfile(p)
  PROVE  ProfilesTypes' /\ ProfilesPlaceInv' /\ UnsafeInv' /\ InsertedInv'
<1> USE ProfilesShape
<1> DEFINE new == PR!Cardinality(profiles) + 1
           Inserted == new <= MaxProfiles /\ profiles' = profiles \cup {new}
<1>1. /\ at[p] = "insert" /\ PR!RC!Produce(p) /\ PR!To(p, "remote")
      /\ Inserted \/ profiles' = profiles
      /\ (Inserted /\ PR!Keep(p, {new})) \/ found' = found
      /\ UNCHANGED <<phase, pod, profileCache, remoteProfiles, mishaps>>
  BY DEF PR!SaveProfile, PR!mutexVars
<1>2. new \in Nat /\ new >= 1
  BY ProfileRows, ProfilesCounts
<1>3. ProfilesTypes'
  <2>1. profiles' \in SUBSET (1..MaxProfiles) /\ found' \in [Pair -> SUBSET (1..MaxProfiles)]
    <3> HIDE DEF new
    <3> QED
      BY <1>1, <1>2, ApiAssumption DEF PR!Keep
  <2>2. at' \in [Pair -> PR!Steps]
    BY <1>1 DEF PR!To, PR!Steps
  <2> QED
    BY <1>1, <2>1, <2>2 DEF ProfilesTypes, PR!L!TypeOK
<1>4. OthersAsTheyWere(p) /\ pc'[p] \in {"store", "release"} /\ at'[p] = "remote"
  BY <1>1 DEF PR!RC!Produce, PR!RC!Goto, PR!RC!leaseVars, PR!To, OthersAsTheyWere
<1>5. ProfilesPlaceInv'
  BY <1>4 DEF ProfilesPlaceInv, OthersAsTheyWere
<1>6. Unsafe' \in SUBSET Unsafe
  BY <1>4 DEF OthersAsTheyWere, Unsafe, ProfilesRemote!HasLease
<1>7. p \in Inserting /\ Inserting' \in SUBSET (Inserting \ {p}) /\ Inserting \in SUBSET Pair
  BY <1>1, <1>4 DEF OthersAsTheyWere, Inserting
<1>8. Cardinality(Inserting') <= Cardinality(Inserting) - 1
  BY <1>7, OneLessOfPair
<1>9. /\ Cardinality(Unsafe') <= Cardinality(Unsafe)
      /\ Cardinality(Unsafe') \in Nat /\ Cardinality(Unsafe) \in Nat
      /\ Cardinality(Inserting') \in Nat /\ Cardinality(Inserting) \in Nat
  <2>1. Unsafe \in SUBSET Pair /\ Unsafe' \in SUBSET Pair /\ Inserting' \in SUBSET Pair
    BY DEF Unsafe, Inserting
  <2> QED
    BY <1>6, <1>7, <2>1, PairCounts
<1>10. /\ Cardinality(profiles') <= Cardinality(profiles) + 1
       /\ Cardinality(profiles') \in Nat /\ Cardinality(profiles) \in Nat
  <2>1. PICK x : profiles' = profiles \/ profiles' = profiles \cup {x}
    BY <1>1
  <2>2. /\ Cardinality(profiles) \in Nat /\ Cardinality(profiles \cup {x}) \in Nat
        /\ Cardinality(profiles \cup {x}) <= Cardinality(profiles) + 1
    BY ProfileRows
  <2>3. CASE profiles' = profiles
    BY <2>2, <2>3
  <2>4. CASE profiles' = profiles \cup {x}
    BY <2>2, <2>4
  <2> QED
    BY <2>1, <2>3, <2>4
<1>11. Cardinality(Unsafe) <= mishaps /\ Cardinality(profiles) + Cardinality(Inserting) <= 1 + mishaps
  BY DEF ProfilesIInv, UnsafeInv, InsertedInv
<1>12. UnsafeInv' /\ InsertedInv'
  BY <1>1, <1>8, <1>9, <1>10, <1>11 DEF UnsafeInv, InsertedInv
<1> QED
  BY <1>3, <1>5, <1>12

\* The rest of GetOrCreate.
LEMMA ProfilesFinish ==
  ASSUME ProfilesIInv, NEW p \in Pair, PR!Store(p) \/ PR!Return(p)
  PROVE  ProfilesTypes' /\ ProfilesPlaceInv' /\ UnsafeInv' /\ InsertedInv'
<1> USE ProfilesShape
<1>1. /\ at[p] = "remote" /\ profiles' = profiles /\ mishaps' = mishaps
      /\ UNCHANGED <<phase, pod, profileCache>>
  BY DEF PR!Store, PR!Return, PR!profileVars, PR!mutexVars
<1>2. ProfilesTypes'
  <2>1. /\ remoteProfiles' \in SUBSET (1..MaxProfiles)
        /\ found' \in [Pair -> SUBSET (1..MaxProfiles)]
        /\ at' \in [Pair -> PR!Steps]
    BY DEF PR!Store, PR!Return, PR!Keep, PR!To, PR!profileVars, PR!Steps
  <2> QED
    BY <1>1, <2>1 DEF ProfilesTypes, PR!L!TypeOK
<1>3. OthersAsTheyWere(p)
  BY DEF PR!Store, PR!Return, PR!To, PR!RC!Store, PR!RC!Release, PR!RC!Goto, PR!RC!leaseVars,
         PR!RC!Lease!Release, PR!RC!Lease!Forget, OthersAsTheyWere
<1>4. \/ pc'[p] = "release" /\ at'[p] = "remote"
      \/ pc'[p] = "idle" /\ at'[p] # "insert"
  BY <1>1 DEF PR!Store, PR!Return, PR!To, PR!RC!Store, PR!RC!Release, PR!RC!Goto
<1>5. p \notin Unsafe' /\ p \notin Inserting'
  BY <1>4 DEF Unsafe, Inserting
<1> QED
  BY <1>1, <1>2, <1>3, <1>4, <1>5, OnlyOne

\* An entry of a pod, a value in redis or a lease ends.
LEMMA ProfilesExpiry ==
  ASSUME ProfilesIInv,
         (\E d \in Pods : PR!ExpireInPod(d)) \/ (\E k \in OneKey : PR!ExpireInRedis(k))
  PROVE  ProfilesTypes' /\ ProfilesPlaceInv' /\ UnsafeInv' /\ InsertedInv'
<1> USE ProfilesShape
<1>1. /\ profiles' = profiles /\ UNCHANGED <<phase, pod, at, found, pc, held>>
      /\ mishaps' = mishaps \/ PR!Mishap
  BY DEF PR!ExpireInPod, PR!ExpireInRedis, PR!mutexVars, PR!remoteVars, PR!RC!Remove,
         PR!RC!Lapse, PR!RC!Lease!Lapse, PR!RC!leaseVars
<1>2. ProfilesTypes'
  <2>1. /\ profileCache' \in [Pods -> SUBSET (1..MaxProfiles)]
        /\ remoteProfiles' \in SUBSET (1..MaxProfiles)
    BY DEF PR!ExpireInPod, PR!ExpireInRedis
  <2>2. mishaps' \in 0..MaxMishaps
    BY <1>1, ApiAssumption DEF PR!Mishap
  <2> QED
    BY <1>1, <2>1, <2>2 DEF ProfilesTypes, PR!L!TypeOK
<1>3. ProfilesPlaceInv' /\ Inserting' = Inserting
  BY <1>1 DEF ProfilesPlaceInv, Inserting
<1>4. \/ lapsed' = lapsed /\ mishaps' = mishaps
      \/ PR!Mishap /\ \E x : lapsed' \subseteq lapsed \cup {x} /\ lapsed \subseteq lapsed'
  <2>1. ASSUME NEW d \in Pods, PR!ExpireInPod(d) PROVE lapsed' = lapsed /\ mishaps' = mishaps
    BY <2>1 DEF PR!ExpireInPod, PR!remoteVars
  <2>2. ASSUME NEW k \in OneKey, PR!RC!Remove(k) PROVE lapsed' = lapsed
    BY <2>2 DEF PR!RC!Remove, PR!RC!leaseVars
  <2>3. ASSUME NEW k \in OneKey, PR!RC!Lapse(k)
        PROVE  lapsed' \subseteq lapsed \cup {lock[k]} /\ lapsed \subseteq lapsed'
    BY <2>3 DEF PR!RC!Lapse, PR!RC!Lease!Lapse
  <2> QED
    BY <2>1, <2>2, <2>3 DEF PR!ExpireInRedis
<1>5. CASE lapsed' = lapsed /\ mishaps' = mishaps
  <2>1. Unsafe' = Unsafe
    BY <1>1, <1>5 DEF Unsafe, ProfilesRemote!HasLease
  <2> QED
    BY <1>1, <1>2, <1>3, <1>5, <2>1, NobodyUnsafe
<1>6. CASE PR!Mishap /\ \E x : lapsed' \subseteq lapsed \cup {x} /\ lapsed \subseteq lapsed'
  <2>1. PICK x : lapsed' \subseteq lapsed \cup {x} /\ lapsed \subseteq lapsed'
    BY <1>6
  <2>2. Unsafe' \subseteq Unsafe \cup {x}
    BY <1>1, <2>1 DEF Unsafe, ProfilesRemote!HasLease
  <2> QED
    BY <1>1, <1>2, <1>3, <1>6, <2>2, OneUnsafe
<1> QED
  BY <1>4, <1>5, <1>6
-----------------------------------------------------------------------------
LEMMA ProfilesRemoteAssumed == ProfilesRemote!RemoteAssumption
<1>1. ProfilesRemote!Lease!LeaseAssumption
  BY ApiAssumption DEF RC!Lease!LeaseAssumption, ProfilesRemote!Lease!LeaseAssumption, OneKey
<1>2. IsFiniteSet(Pair)
  BY PairCounts
<1>3. ProfilesRemote!WorkersAssumption
  BY <1>2 DEF ProfilesRemote!WorkersAssumption, ProfilesRemote!IsFiniteSet, IsFiniteSet
<1> QED
  BY <1>1, <1>3 DEF ProfilesRemote!RemoteAssumption

LEMMA ProfilesRemoteNext == PR!RC!Next => ProfilesRemote!Next
<1>1. PR!RC!MaxAllowance = ProfilesRemote!MaxAllowance
  BY DEF PR!RC!MaxAllowance, PR!RC!Cardinality, ProfilesRemote!MaxAllowance,
         ProfilesRemote!Cardinality
<1>2. ASSUME NEW k PROVE PR!RC!Allow(k) <=> ProfilesRemote!Allow(k)
  BY <1>1 DEF PR!RC!Allow, PR!RC!Min, ProfilesRemote!Allow, ProfilesRemote!Min
<1> QED
  BY <1>2
  DEF PR!RC!Next, PR!RC!Proceed, PR!RC!Goto, PR!RC!leaseVars, PR!RC!Call,
      PR!RC!FirstGet, PR!RC!Obtain, PR!RC!GiveUp, PR!RC!SecondGet, PR!RC!Produce,
      PR!RC!Store, PR!RC!Release, PR!RC!Crash, PR!RC!Restart, PR!RC!Lapse, PR!RC!Remove,
      PR!RC!Lease!Obtain, PR!RC!Lease!Refused, PR!RC!Lease!Release, PR!RC!Lease!Die,
      PR!RC!Lease!Forget, PR!RC!Lease!Lapse, ProfilesRemote!Next,
      ProfilesRemote!Proceed, ProfilesRemote!Goto, ProfilesRemote!leaseVars,
      ProfilesRemote!Call, ProfilesRemote!FirstGet, ProfilesRemote!Obtain,
      ProfilesRemote!GiveUp, ProfilesRemote!SecondGet, ProfilesRemote!Produce,
      ProfilesRemote!Store, ProfilesRemote!Release, ProfilesRemote!Crash,
      ProfilesRemote!Restart, ProfilesRemote!Lapse, ProfilesRemote!Remove,
      ProfilesRemote!Lease!Obtain, ProfilesRemote!Lease!Refused,
      ProfilesRemote!Lease!Release, ProfilesRemote!Lease!Die,
      ProfilesRemote!Lease!Forget, ProfilesRemote!Lease!Lapse

\* A step of getProfiles takes a step of the remote cache or leaves it alone.
LEMMA ProfilesRemoteSteps ==
  ASSUME PR!Next
  PROVE  PR!RC!Next \/ UNCHANGED <<lock, held, lapsed, cached, pc, key, allowance>>
<1>1. ASSUME NEW p \in Pair,
             \/ PR!Call(p) \/ PR!Locked(p) \/ PR!Get(p) \/ PR!GetLocked(p)
             \/ PR!Set(p) \/ PR!Unlock(p)
      PROVE  PR!RC!Next \/ UNCHANGED <<lock, held, lapsed, cached, pc, key, allowance>>
  BY <1>1 DEF PR!Call, PR!Locked, PR!Get, PR!GetLocked, PR!Set, PR!Unlock, PR!remoteVars,
              PR!RC!Next
<1>2. ASSUME NEW p \in Pair,
             PR!Lookup(p) \/ PR!ReadProfiles(p) \/ PR!SaveProfile(p)
      PROVE  PR!RC!Next \/ UNCHANGED <<lock, held, lapsed, cached, pc, key, allowance>>
  BY <1>2 DEF PR!Lookup, PR!ReadProfiles, PR!SaveProfile, PR!remoteVars, PR!RC!Next, PR!RC!Proceed
<1>3. ASSUME NEW p \in Pair, PR!Store(p) \/ PR!Return(p) PROVE PR!RC!Next
  BY <1>3 DEF PR!Store, PR!Return, PR!RC!Next, PR!RC!Proceed
<1>4. ASSUME NEW d \in Pods, PR!ExpireInPod(d)
      PROVE  UNCHANGED <<lock, held, lapsed, cached, pc, key, allowance>>
  BY <1>4 DEF PR!ExpireInPod, PR!remoteVars
<1>5. ASSUME NEW k \in OneKey, PR!ExpireInRedis(k) PROVE PR!RC!Next
  BY <1>5 DEF PR!ExpireInRedis, PR!RC!Next
<1> QED
  BY <1>1, <1>2, <1>3, <1>4, <1>5 DEF PR!Next, PR!Proceed

LEMMA ProfilesActions == ProfilesIInv /\ PR!Next => ProfilesIInv'
<1> SUFFICES ASSUME ProfilesIInv, PR!Next PROVE ProfilesIInv'
  OBVIOUS
<1>1. [ProfilesRemote!Next]_(ProfilesRemote!vars)
  BY ProfilesRemoteSteps, ProfilesRemoteNext DEF ProfilesRemote!vars, ProfilesRemote!leaseVars
<1>2. ProfilesRemote!IInv'
  BY <1>1, ProfilesRemoteAssumed, ProfilesRemote!NextIInv DEF ProfilesIInv
<1>3. ProfilesTypes' /\ ProfilesPlaceInv' /\ UnsafeInv' /\ InsertedInv'
  BY ProfilesOutside, ProfilesLookup, ProfilesRead, ProfilesSave, ProfilesFinish, ProfilesExpiry
  DEF PR!Next, PR!Proceed
<1> QED
  BY <1>2, <1>3 DEF ProfilesIInv

LEMMA ProfilesStep == ProfilesInv /\ [Next]_vars => ProfilesInv'
<1> SUFFICES ASSUME ProfilesInv, [Next]_vars PROVE ProfilesInv'
  OBVIOUS
<1>1. kind' = kind
  BY KindStays
<1>2. CASE kind = "profiles"
  <2>1. \/ PR!Next
        \/ /\ UNCHANGED <<lock, held, lapsed, cached, pc, key, allowance, phase, pod>>
           /\ UNCHANGED <<at, profileCache, remoteProfiles, profiles, found, mishaps>>
    BY <1>2 DEF Next, vars, OfCache, OfRemoteCache, OfLimit, OfSharedLimit, OfRequestCache,
                OfUser, OfProfiles, OfTasks, leaseVars, mutexVars, profileVars
  <2>2. CASE PR!Next
    BY <1>1, <1>2, <2>2, ProfilesActions DEF ProfilesInv
  <2>3. CASE /\ UNCHANGED <<lock, held, lapsed, cached, pc, key, allowance, phase, pod>>
             /\ UNCHANGED <<at, profileCache, remoteProfiles, profiles, found, mishaps>>
    <3>1. [ProfilesRemote!Next]_(ProfilesRemote!vars)
      BY <2>3 DEF ProfilesRemote!vars, ProfilesRemote!leaseVars
    <3>2. ProfilesRemote!IInv'
      BY <1>2, <3>1, ProfilesRemoteAssumed, ProfilesRemote!NextIInv DEF ProfilesInv, ProfilesIInv
    <3>3. ProfilesTypes' /\ ProfilesPlaceInv' /\ Unsafe' = Unsafe /\ Inserting' = Inserting
      BY <1>2, <2>3 DEF ProfilesInv, ProfilesIInv, ProfilesTypes, PR!L!TypeOK, ProfilesPlaceInv,
                        Unsafe, Inserting, ProfilesRemote!HasLease
    <3> QED
      BY <1>1, <1>2, <2>3, <3>2, <3>3 DEF ProfilesInv, ProfilesIInv, UnsafeInv, InsertedInv
  <2> QED
    BY <2>1, <2>2, <2>3
<1>3. CASE kind # "profiles"
  <2>1. profiles' = profiles
    BY <1>3 DEF Next, vars, OfCache, OfRemoteCache, OfLimit, OfSharedLimit, OfRequestCache,
                OfUser, OfProfiles, OfTasks, profileVars
  <2>2. mishaps' = mishaps \/ (kind = "sharedLimit" /\ SRL!Next)
    BY <1>3 DEF Next, vars, OfCache, OfRemoteCache, OfLimit, OfSharedLimit, OfRequestCache,
                OfUser, OfProfiles, OfTasks
  <2>3. SRL!Next => mishaps' = mishaps \/ SRL!Mishap
    BY DEF SRL!Next, SRL!Call, SRL!Proceed, SRL!Incr, SRL!Check, SRL!Expire, SRL!Fail, SRL!Tick
  <2> QED
    BY <1>1, <1>3, <2>1, <2>2, <2>3, ApiAssumption DEF ProfilesInv, SRL!Mishap
<1> QED
  BY <1>2, <1>3

LEMMA ProfilesInit == Init => ProfilesInv
<1> SUFFICES ASSUME Init PROVE ProfilesInv
  OBVIOUS
<1>1. PR!StateInit
  BY DEF Init
<1>2. CASE kind = "profiles"
  <2>1. PR!RC!Init /\ PR!L!Init
    BY <1>2 DEF Init, PR!Init
  <2>2. ProfilesRemote!Init
    BY <2>1 DEF PR!RC!Init, PR!RC!Lease!Init, ProfilesRemote!Init, ProfilesRemote!Lease!Init
  <2>3. ProfilesRemote!IInv
    BY <2>2, ProfilesRemoteAssumed, ProfilesRemote!InitIInv
  <2>4. ProfilesTypes
    BY <1>1, <2>1, ApiAssumption
    DEF PR!StateInit, PR!L!Init, PR!L!TypeOK, PR!L!Phases, PR!Steps, ProfilesTypes
  <2>5. ProfilesPlaceInv /\ Unsafe = {} /\ Inserting = {}
    BY <1>1, <2>2 DEF PR!StateInit, ProfilesRemote!Init, ProfilesPlaceInv, Unsafe, Inserting
  <2>6. UnsafeInv /\ InsertedInv
    <3>1. profiles = {} /\ mishaps = 0
      BY <1>1 DEF PR!StateInit
    <3> QED
      BY <2>5, <3>1, FS_EmptySet DEF UnsafeInv, InsertedInv
  <2> QED
    BY <1>2, <2>3, <2>4, <2>5, <2>6 DEF ProfilesInv, ProfilesIInv
<1>3. CASE kind # "profiles"
  BY <1>1, <1>3, ApiAssumption DEF ProfilesInv, PR!StateInit
<1> QED
  BY <1>2, <1>3
-----------------------------------------------------------------------------
\* The limiter of all pods keeps its types.
SharedInv == kind = "sharedLimit" => SRL!TypeOK

LEMMA LesserCount ==
  ASSUME NEW a \in Int, NEW b \in Int
  PROVE  SRL!Min({a, b}) \in {a, b} /\ SRL!Min({a, b}) <= b
<1>1. \E x \in {a, b} : \A y \in {a, b} : x <= y
  <2>1. CASE a <= b
    BY <2>1
  <2>2. CASE b <= a
    BY <2>2
  <2> QED
    BY <2>1, <2>2
<1> QED
  BY <1>1 DEF SRL!Min

LEMMA SharedActions == SRL!TypeOK /\ SRL!Next => SRL!TypeOK'
<1> SUFFICES ASSUME SRL!TypeOK, SRL!Next PROVE SRL!TypeOK'
  OBVIOUS
<1> USE ApiAssumption DEF RL!LimitAssumption, SRL!TypeOK, SRL!Labels, SRL!Goto, SRL!Return
<1>1. ASSUME NEW p \in Pair, NEW k \in Keys, SRL!Call(p, k) PROVE SRL!TypeOK'
  BY <1>1 DEF SRL!Call
<1>2. ASSUME NEW p \in Pair, SRL!Incr(p) PROVE SRL!TypeOK'
  <2>1. count[key[p]] \in 0..Limit + 1
    OBVIOUS
  <2>2. SRL!Min({count[key[p]] + 1, Limit + 1}) \in 0..Limit + 1
    BY <2>1, LesserCount
  <2> QED
    BY <1>2, <2>2 DEF SRL!Incr
<1>3. ASSUME NEW p \in Pair, SRL!Check(p) PROVE SRL!TypeOK'
  BY <1>3 DEF SRL!Check
<1>4. ASSUME NEW p \in Pair, SRL!Expire(p) PROVE SRL!TypeOK'
  BY <1>4 DEF SRL!Expire
<1>5. ASSUME NEW p \in Pair, SRL!Fail(p) PROVE SRL!TypeOK'
  BY <1>5 DEF SRL!Fail, SRL!Mishap
<1>6. ASSUME NEW k \in Keys, SRL!Tick(k) PROVE SRL!TypeOK'
  BY <1>6 DEF SRL!Tick
<1> QED
  BY <1>1, <1>2, <1>3, <1>4, <1>5, <1>6 DEF SRL!Next, SRL!Proceed

LEMMA SharedStep == SharedInv /\ [Next]_vars => SharedInv'
<1> SUFFICES ASSUME SharedInv, [Next]_vars, kind' = "sharedLimit" PROVE SRL!TypeOK'
  BY DEF SharedInv
<1>1. kind = "sharedLimit"
  BY KindStays
<1>2. SRL!Next \/ UNCHANGED <<pc, key, count, ttl, n, mishaps>>
  BY <1>1 DEF Next, vars, OfCache, OfRemoteCache, OfLimit, OfSharedLimit, OfRequestCache,
              OfUser, OfProfiles, OfTasks, mutexVars, sharedVars
<1>3. CASE SRL!Next
  BY <1>1, <1>3, SharedActions DEF SharedInv
<1>4. CASE UNCHANGED <<pc, key, count, ttl, n, mishaps>>
  BY <1>1, <1>4 DEF SharedInv, SRL!TypeOK
<1> QED
  BY <1>2, <1>3, <1>4

LEMMA SharedInit == Init => SharedInv
  BY ApiAssumption
  DEF Init, SharedInv, SRL!Init, SRL!StateInit, SRL!TypeOK, SRL!Labels, RL!LimitAssumption

\* There are no other components.
KindInv == kind \in {"cache", "remoteCache", "limit", "sharedLimit", "requestCache",
                     "user", "profiles", "tasks"}

LEMMA KindInit == Init => KindInv
  BY DEF Init, KindInv

LEMMA KindStep == KindInv /\ [Next]_vars => KindInv'
  BY KindStays DEF KindInv
-----------------------------------------------------------------------------
LEMMA Inductive ==
    Spec => [](/\ CacheInv /\ RemoteInv /\ LimitInv /\ SharedInv /\ RequestInv
               /\ UserInv /\ ProfilesInv /\ TaskInv /\ KindInv)
  BY CacheInit, CacheStep, RemoteInit, RemoteStep, LimitInit, LimitStep, SharedInit,
     SharedStep, RequestInit, RequestStep, UserInit, UserStep, ProfilesInit, ProfilesStep,
     TaskInit, TaskStep, KindInit, KindStep, PTL DEF Spec

\* Whichever component a behaviour is about, its state keeps its types.
THEOREM TypeCorrect == Spec => []TypeOK
<1>1. (/\ CacheInv /\ RemoteInv /\ LimitInv /\ SharedInv /\ RequestInv
       /\ UserInv /\ ProfilesInv /\ TaskInv /\ KindInv) => TypeOK
  <2> SUFFICES ASSUME CacheInv, RemoteInv, LimitInv, SharedInv, RequestInv, UserInv,
                      ProfilesInv, TaskInv, KindInv
               PROVE  TypeOK
    OBVIOUS
  <2>1. kind = "cache" => MC!TypeOK
    BY DEF CacheInv, CacheProofs!IInv, CacheProofs!TypeOK, CacheProofs!L!TypeOK,
           CacheProofs!L!Phases, CacheProofs!Labels, CacheProofs!Versions, CacheProofs!Absent,
           MC!TypeOK, MC!L!TypeOK, MC!L!Phases, MC!Labels, MC!Versions, MC!Absent
  <2>2. kind = "remoteCache" => RC!TypeOK
    BY DEF RemoteInv, RemoteProofs!IInv, RemoteProofs!TypeOK, RemoteProofs!Lease!TypeOK,
           RemoteProofs!Labels, RemoteProofs!MaxAllowance, RemoteProofs!Cardinality,
           RC!TypeOK, RC!Lease!TypeOK, RC!Labels, RC!MaxAllowance, RC!Cardinality
  <2>3. kind = "profiles" => PR!TypeOK
    <3>1. kind = "profiles" => PR!RC!TypeOK
      BY DEF ProfilesInv, ProfilesIInv, ProfilesRemote!IInv, ProfilesRemote!TypeOK,
             ProfilesRemote!Lease!TypeOK, ProfilesRemote!Labels, ProfilesRemote!MaxAllowance,
             ProfilesRemote!Cardinality, PR!RC!TypeOK, PR!RC!Lease!TypeOK, PR!RC!Labels,
             PR!RC!MaxAllowance, PR!RC!Cardinality
    <3> QED
      BY <3>1 DEF ProfilesInv, ProfilesIInv, ProfilesTypes, PR!TypeOK
  <2>4. kind = "limit" => RL!TypeOK
    BY DEF LimitInv, LimitIInv
  <2>5. kind = "requestCache" => RQ!TypeOK
    BY DEF RequestInv, RequestIInv
  <2>6. kind = "user" => UM!TypeOK
    BY DEF UserInv
  <2>7. kind = "tasks" => TC!TypeOK
    BY DEF TaskInv, TaskIInv
  <2>8. kind = "sharedLimit" => SRL!TypeOK
    BY DEF SharedInv
  <2> QED
    BY <2>1, <2>2, <2>3, <2>4, <2>5, <2>6, <2>7, <2>8 DEF TypeOK, KindInv
<1> QED
  BY <1>1, Inductive, PTL

\* The first requests of a user, on all pods together, make one profile, and
\* another one only for a lock that was refused or outrun or a Get that failed.
THEOREM OneProfile == Spec => []ProfilesAccountedFor
<1>1. ProfilesInv => ProfilesAccountedFor
  <2> SUFFICES ASSUME ProfilesInv PROVE Cardinality(profiles) <= 1 + mishaps
    BY ProfilesCounts DEF ProfilesAccountedFor, PR!ProfilesAccountedFor
  <2>1. CASE kind = "profiles"
    <3>1. Inserting \in SUBSET Pair
      BY DEF Inserting
    <3>2. Cardinality(Inserting) \in Nat
      BY <3>1, PairCounts
    <3>3. Cardinality(profiles) \in Nat /\ mishaps \in Nat
      BY <2>1, ProfileRows DEF ProfilesInv, ProfilesIInv, ProfilesTypes
    <3> QED
      BY <2>1, <3>2, <3>3 DEF ProfilesInv, ProfilesIInv, InsertedInv
  <2>2. CASE kind # "profiles"
    BY <2>2, FS_EmptySet, ApiAssumption DEF ProfilesInv
  <2> QED
    BY <2>1, <2>2
<1> QED
  BY <1>1, Inductive, PTL

\* GetOrSet never stores a value over another one: there are as many fills as
\* the entry has been absent.
THEOREM FillsFollowAbsences == Spec => []OneFillPerAbsence
<1>1. CacheInv => OneFillPerAbsence
  BY DEF CacheInv, CacheProofs!IInv, CacheProofs!OneFillPerAbsence, OneFillPerAbsence,
         MC!OneFillPerAbsence, MC!StateInit, MC!Absent, CacheProofs!Absent
<1> QED
  BY <1>1, Inductive, PTL

\* GetOrSet serves no value older than one it has served before.
THEOREM NothingOlderIsServed == Spec => ServedNeverOlder
<1>1. ASSUME CacheInv, [Next]_vars, NEW k \in Keys
      PROVE  served'[k] >= served[k]
  <2>1. CASE kind = "cache"
    <3>1. CacheProofs!IInv /\ CacheProofs!BoundsAssumption
      BY <1>1, <2>1, ApiAssumption
      DEF CacheInv, MC!BoundsAssumption, CacheProofs!BoundsAssumption
    <3>2. [CacheProofs!Next]_(CacheProofs!vars)
      BY <1>1, <2>1, CacheSteps
    <3> QED
      BY <3>1, <3>2, CacheProofs!ServedStep
  <2>2. CASE kind # "cache"
    BY <1>1, <2>2
    DEF CacheInv, MC!StateInit, MC!Absent, Next, vars, OfCache, OfRemoteCache,
        OfLimit, OfSharedLimit, OfRequestCache, OfUser, OfProfiles, OfTasks, memoryVars
  <2> QED
    BY <2>1, <2>2
<1>2. CacheInv /\ [Next]_vars => [\A k \in Keys : served'[k] >= served[k]]_(MC!vars)
  BY <1>1
<1> QED
  BY <1>2, Inductive, PTL DEF Spec, ServedNeverOlder, MC!ServedNeverOlder

\* A lease that has not run out is still in redis, whatever GetOrCreate does.
THEOREM LeaseKept == Spec => []KeptUntilLapse
<1>1. RemoteInv => KeptUntilLapse
  BY DEF RemoteInv, RemoteProofs!IInv, RemoteProofs!LeaseInv, RemoteProofs!Lease!KeptUntilLapse,
         KeptUntilLapse, RC!Lease!KeptUntilLapse
<1> QED
  BY <1>1, Inductive, PTL

\* GetOrCreate does no more work than the absences of a value, the leases that
\* ran out, the locks that were refused and the failed Gets account for.
THEOREM WorkAccountedFor == Spec => []FillsAccountedFor
<1>1. RemoteInv => FillsAccountedFor
  BY RemoteAssumed, RemoteProofs!Counted
  DEF RemoteInv, FillsAccountedFor, RC!FillsAccountedFor, RC!Filling, RC!Cardinality,
      RemoteProofs!FillsAccountedFor, RemoteProofs!Filling, RemoteProofs!Cardinality
<1> QED
  BY <1>1, Inductive, PTL

\* However requests race for the counter of a key, no more than Limit of those
\* that begin and end within one window are let through.
THEOREM LimitKept == Spec => []LimitHolds
<1>1. LimitInv => LimitHolds
  BY ApiAssumption
  DEF LimitInv, LimitIInv, PassedInv, CounterInv, LimitHolds, RL!LimitHolds,
      RL!StateInit, RL!LimitAssumption, RL!TypeOK
<1> QED
  BY <1>1, Inductive, PTL

\* A value that is returned was stored in the second that its caller asked for
\* or later.
THEOREM AnswersAreFresh == Spec => []AnsweredAsAsked
<1>1. RequestInv => AnsweredAsAsked
  BY DEF RequestInv, RequestIInv, AnsweredAsAsked
<1> QED
  BY <1>1, Inductive, PTL

\* An entry of the request cache is replaced by one of a later second only,
\* which was read no earlier.
THEOREM ReplacedByLater == Spec => OncePerSecond
<1> DEFINE Later(k) == requestCache[k] # RQ!NoEntry
                          /\ requestCache'[k] \notin {RQ!NoEntry, requestCache[k]}
                          => /\ requestCache'[k].Cached > requestCache[k].Cached
                             /\ requestCache'[k].read >= requestCache[k].read
<1>1. ASSUME RequestInv, [Next]_vars, requestCache' # requestCache, NEW k \in Keys
      PROVE  Later(k)
  <2>1. kind = "requestCache"
    BY <1>1 DEF Next, vars, OfCache, OfRemoteCache, OfLimit, OfSharedLimit,
                OfRequestCache, OfUser, OfProfiles, OfTasks, requestVars
  <2>2. RequestIInv /\ RQ!Next
    BY <1>1, <2>1, RequestSteps DEF RequestInv, requestVars
  <2> QED
    BY <2>2, Replaced
<1>2. RequestInv /\ [Next]_vars => [\A k \in Keys : Later(k)]_requestCache
  BY <1>1
<1> QED
  BY <1>2, Inductive, PTL DEF Spec, OncePerSecond, RQ!OncePerSecond

\* A request goes by the roles of its own headers and by nobody else's.
THEOREM OwnRoles == Spec => []RolesAreOwn
<1>1. UserInv => RolesAreOwn
  BY DEF UserInv, RolesAreOwn, UM!RolesAreOwn, UM!StateInit
<1> QED
  BY <1>1, Inductive, PTL

\* The mutex in the table of users' locks is one that somebody is about to
\* delete, so that the table does not grow with the users seen.
THEOREM MutexOfOne == Spec => []MutexInUse
<1>1. UserInv => MutexInUse
  BY DEF UserInv, MutexInUse, UM!MutexInUse, UM!StateInit
<1> QED
  BY <1>1, Inductive, PTL

\* What CompleteTask has saved is in every loader of the pod that it clears by
\* key, whoever fills them meanwhile.
THEOREM SettledSeen == Spec => []SettledIsSeen
<1>1. TaskInv => SettledIsSeen
  BY DEF TaskInv, TaskIInv, SettledIsSeen, TC!SettledIsSeen, TC!StateInit
<1> QED
  BY <1>1, Inductive, PTL

\* No request that begins after LockLessonAnswers has returned changes an answer
\* that it locked.
THEOREM LockedAnswersStay == Spec => []LockedStaysLocked
<1>1. TaskInv => LockedStaysLocked
  BY DEF TaskInv, TaskIInv, TaskCallsInv, LockedStaysLocked, TC!LockedStaysLocked
<1> QED
  BY <1>1, Inductive, PTL
=============================================================================
