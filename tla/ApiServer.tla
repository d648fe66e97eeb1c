------------------------------ MODULE ApiServer ------------------------------
(***************************************************************************)
(* The API server: the caches, limiters and locks that its requests go     *)
(* through, each a module of its own.                                      *)
(*                                                                         *)
(* They have no state in common: what one does is nothing to another, and  *)
(* how they interleave shows nothing that each alone does not.  So a       *)
(* behaviour is about one of them, kind, with all the requests that race   *)
(* for it, while the others are as they were; the lock of utils.Lock and   *)
(* the lease of redis are those of that component.                         *)
(***************************************************************************)
EXTENDS Integers, FiniteSets

CONSTANTS Kinds,    \* the components to look at
          Procs,    \* requests, or workers
          Pair,     \* two of them
          Keys,     \* rate limit keys, cache keys
          Pods,
          Addresses,       \* of counters, and of mutexes
          Tasks, Achievements,
          Limit, Window,   \* of the rate limiters
          MaxVersion, MaxRemovals, MaxClock,
          MaxMishaps, MaxProfiles,  \* bounds, see the components
          Nobody, Nothing  \* no process; no key, counter, time, task or user

VARIABLES kind,  \* the component that the behaviour is about
          pc, key, phase, pod,
          val, cache, source, fills, removals, served,
          lock, held, lapsed, cached, allowance,
          limitCache, left, hits, c, within, passed,
          count, ttl, n, mishaps,
          clock, ts, entry, began, requestCache,
          own, userCache, remoteUser, row, u, given, userCacheLocks, userLock, owner,
          at, profileCache, remoteProfiles, profiles, found,
          task, completed, answered, locked, achieved, loaded, seen, settled, sealed, barred

mutexVars == <<key, phase>>
memoryVars == <<val, cache, source, fills, removals, served>>
leaseVars == <<lock, held, lapsed, cached, allowance>>
limitVars == <<limitCache, left, hits, c, within, passed>>
sharedVars == <<count, ttl, n>>
requestVars == <<clock, ts, entry, began, requestCache>>
userVars == <<own, userCache, remoteUser, row, u, given, userCacheLocks, userLock, owner>>
profileVars == <<at, profileCache, remoteProfiles, profiles, found>>
taskVars == <<task, completed, answered, locked, achieved, loaded, seen, settled, sealed, barred>>
vars == <<kind, pc, pod, mutexVars, memoryVars, leaseVars, limitVars, sharedVars, mishaps,
          requestVars, userVars, profileVars, taskVars>>

MC == INSTANCE MemoryCache
RC == INSTANCE RemoteCache WITH NoProc <- Nobody, NoKey <- Nothing
RL == INSTANCE RateLimit WITH Procs <- Pair, Counters <- Addresses, NoCounter <- Nothing
SRL == INSTANCE SharedRateLimit WITH Procs <- Pair
RQ == INSTANCE RequestCache WITH Procs <- Pair, NoTime <- Nothing
UM == INSTANCE UserMiddleware WITH Procs <- Pair, Mutexes <- Addresses, NoMutex <- Nothing,
                                   NoUser <- Nothing, remote <- remoteUser, lock <- userLock
\* The cache key of a user's profiles.
OneKey == {CHOOSE k \in Keys : TRUE}
PR == INSTANCE Profiles WITH Procs <- Pair, Keys <- OneKey, NoProc <- Nobody,
                             NoKey <- Nothing, remote <- remoteProfiles
\* What a mutation clears is a matter of its own pod.
OnePod == {CHOOSE d \in Pods : TRUE}
TC == INSTANCE TaskCompletion WITH Procs <- Pair, Pods <- OnePod, NoTask <- Nothing

ASSUME ApiAssumption == /\ MC!BoundsAssumption
                        /\ RC!Lease!LeaseAssumption /\ RC!WorkersAssumption
                        /\ Pair \subseteq Procs /\ Keys # {}
                        /\ RL!LimitAssumption
                        /\ RQ!ClockAssumption
                        /\ MaxMishaps \in Nat /\ MaxProfiles \in Nat

TypeOK == CASE kind = "cache" -> MC!TypeOK
            [] kind = "remoteCache" -> RC!TypeOK
            [] kind = "limit" -> RL!TypeOK
            [] kind = "sharedLimit" -> SRL!TypeOK
            [] kind = "requestCache" -> RQ!TypeOK
            [] kind = "user" -> UM!TypeOK
            [] kind = "profiles" -> PR!TypeOK
            [] kind = "tasks" -> TC!TypeOK
            [] OTHER -> FALSE

NoPods == pod = <<>>
NoLock == phase = <<>> /\ key \in [Pair -> Keys]
NoLease == lock = <<>> /\ held = <<>> /\ lapsed = {} /\ cached = {} /\ allowance = <<>>

Init == /\ MC!StateInit /\ RL!StateInit /\ SRL!StateInit /\ RQ!StateInit /\ UM!StateInit
        /\ PR!StateInit /\ TC!StateInit
        /\ kind \in Kinds
        /\ \/ kind = "cache" /\ MC!Init /\ NoPods /\ NoLease
           \/ kind = "remoteCache" /\ RC!Init /\ phase = <<>> /\ NoPods
           \/ kind = "limit" /\ RL!Init /\ NoPods /\ NoLease
           \/ kind = "sharedLimit" /\ SRL!Init /\ NoLock /\ NoPods /\ NoLease
           \/ kind = "requestCache" /\ RQ!Init /\ NoPods /\ NoLease
           \/ kind = "user" /\ UM!Init /\ NoLock /\ NoPods /\ NoLease
           \/ kind = "profiles" /\ PR!Init
           \/ kind = "tasks" /\ TC!Init /\ NoLock /\ NoLease
-----------------------------------------------------------------------------
\* A step of the component that the behaviour is about.
OfCache(Step) ==
    /\ kind = "cache" /\ Step
    /\ UNCHANGED <<kind, pod, leaseVars, limitVars, sharedVars, mishaps,
                   requestVars, userVars, profileVars, taskVars>>

OfRemoteCache(Step) ==
    /\ kind = "remoteCache" /\ Step
    /\ UNCHANGED <<kind, pod, phase, memoryVars, limitVars, sharedVars, mishaps,
                   requestVars, userVars, profileVars, taskVars>>

OfLimit(Step) ==
    /\ kind = "limit" /\ Step
    /\ UNCHANGED <<kind, pod, memoryVars, leaseVars, sharedVars, mishaps,
                   requestVars, userVars, profileVars, taskVars>>

OfSharedLimit(Step) ==
    /\ kind = "sharedLimit" /\ Step
    /\ UNCHANGED <<kind, pod, phase, memoryVars, leaseVars, limitVars, requestVars,
                   userVars, profileVars, taskVars>>

OfRequestCache(Step) ==
    /\ kind = "requestCache" /\ Step
    /\ UNCHANGED <<kind, pod, memoryVars, leaseVars, limitVars, sharedVars, mishaps,
                   userVars, profileVars, taskVars>>

OfUser(Step) ==
    /\ kind = "user" /\ Step
    /\ UNCHANGED <<kind, pod, mutexVars, memoryVars, leaseVars, limitVars,
                   sharedVars, mishaps, requestVars, profileVars, taskVars>>

OfProfiles(Step) ==
    /\ kind = "profiles" /\ Step
    /\ UNCHANGED <<kind, memoryVars, limitVars, sharedVars, requestVars, userVars,
                   taskVars>>

OfTasks(Step) ==
    /\ kind = "tasks" /\ Step
    /\ UNCHANGED <<kind, mutexVars, memoryVars, leaseVars, limitVars, sharedVars,
                   mishaps, requestVars, userVars, profileVars>>

Next == \/ OfCache(MC!Next)
        \/ OfRemoteCache(RC!Next)
        \/ OfLimit(RL!Next)
        \/ OfSharedLimit(SRL!Next)
        \/ OfRequestCache(RQ!Next)
        \/ OfUser(UM!Next)
        \/ OfProfiles(PR!Next)
        \/ OfTasks(TC!Next)

Spec == Init /\ [][Next]_vars

\* p goes on with its call.
Proceed(p) == \/ OfCache(MC!Proceed(p))
              \/ OfRemoteCache(RC!Proceed(p))
              \/ p \in Pair /\ \/ OfLimit(RL!Proceed(p))
                               \/ OfSharedLimit(SRL!Proceed(p))
                               \/ OfRequestCache(RQ!Proceed(p))
                               \/ OfUser(UM!Proceed(p))
                               \/ OfProfiles(PR!Proceed(p))
                               \/ OfTasks(TC!Proceed(p))

\* p is given the mutex that it waits for.
Locked(p) == \/ OfCache(MC!Locked(p))
             \/ p \in Pair /\ \/ OfLimit(RL!Locked(p))
                              \/ OfRequestCache(RQ!Locked(p))
                              \/ OfUser(UM!Locked(p))
                              \/ OfProfiles(PR!Locked(p))

Tick(k) == OfLimit(RL!Tick(k)) \/ OfSharedLimit(SRL!Tick(k))

\* Queries and factories return, as their contexts have deadlines; a mutex goes
\* to whoever waits for it in the end (see KeyedLock!EveryRequestServed); time
\* passes.  No lease has to run out, nor does redis have to grant a lock.
FairSpec == /\ Spec
            /\ \A p \in Procs : WF_vars(Proceed(p))
            /\ \A p \in Procs : SF_vars(Locked(p))
            /\ \A k \in Keys : WF_vars(Tick(k))
-----------------------------------------------------------------------------
\* What the components promise; see there.
OneFillPerAbsence == MC!OneFillPerAbsence
ServedNeverOlder == MC!ServedNeverOlder
FillsAccountedFor == kind = "remoteCache" => RC!FillsAccountedFor
KeptUntilLapse == kind = "remoteCache" => RC!Lease!KeptUntilLapse
LimitHolds == RL!LimitHolds
WindowsEnd == RL!WindowsEnd
LimitLifts == SRL!LimitLifts
AnsweredAsAsked == kind = "requestCache" => RQ!AnsweredAsAsked
OncePerSecond == RQ!OncePerSecond
RolesAreOwn == UM!RolesAreOwn
MutexInUse == UM!MutexInUse
ProfilesAccountedFor == PR!ProfilesAccountedFor
LockedStaysLocked == kind = "tasks" => TC!LockedStaysLocked
SettledIsSeen == TC!SettledIsSeen

Pending(p) == p \in DOMAIN pc /\ pc[p] \notin {"idle", "crashed"} /\ kind # "profiles"

\* Every call returns, unless its process is killed: none is stuck behind a
\* lock, though its holder failed, was killed or lost the lock, and whether or
\* not a lease in redis ever runs out.  (Calls of Profiles are left out: they
\* may use up the bound on mishaps.)
EveryCallReturns == \A p \in Procs : Pending(p) ~> ~Pending(p)
=============================================================================
