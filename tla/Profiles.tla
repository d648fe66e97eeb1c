------------------------------ MODULE Profiles ------------------------------
(***************************************************************************)
(* The profile of a user, getProfiles in                                   *)
(* backend/user/middleware/profiles.go: the first request of a user who    *)
(* has none makes one.  Requests look in their pod's cache, then, with the *)
(* pod's lock (module Mutex), in redis (module RemoteCache), whose factory *)
(* reads the database and inserts a profile if there is none.              *)
(*                                                                         *)
(* One user.  A profile is the number of its insertion; the statements     *)
(* "select" and "insert" are separate and unrelated.                       *)
(***************************************************************************)
EXTENDS Integers, FiniteSets

CONSTANTS Procs,      \* requests of the user
          Pods,
          Keys,       \* the cache key of the user's profiles, alone
          NoProc, NoKey,
          MaxProfiles,  \* bound: profiles inserted
          MaxMishaps    \* bound: locks refused or outrun, failing commands

VARIABLES lock, held, lapsed, cached, pc, key, allowance,  \* see RemoteCache
          phase, pod,    \* the pods' locks, see Mutex: pod[p] serves p and is
                         \* the key of its lock
          at,            \* at[p]: where p is in getProfiles
          profileCache,  \* profileCache[d]: the profiles that pod d caches
          remote,        \* the profiles cached in redis, while it has them
          profiles,      \* the rows
          found,         \* found[p]: the profiles p goes on with
          mishaps        \* what went wrong so far

remoteVars == <<lock, held, lapsed, cached, pc, key, allowance>>
mutexVars == <<phase, pod>>
profileVars == <<profileCache, remote, profiles>>
vars == <<remoteVars, mutexVars, at, profileVars, found, mishaps>>

RC == INSTANCE RemoteCache
L == INSTANCE Mutex WITH Keys <- Pods, key <- pod

Steps == {"idle", "get", "lock", "getLocked", "remote", "insert", "set", "unlock"}

TypeOK == /\ RC!TypeOK
          /\ L!TypeOK
          /\ at \in [Procs -> Steps]
          /\ profileCache \in [Pods -> SUBSET (1..MaxProfiles)]
          /\ remote \in SUBSET (1..MaxProfiles)
          /\ profiles \in SUBSET (1..MaxProfiles)
          /\ found \in [Procs -> SUBSET (1..MaxProfiles)]
          /\ mishaps \in 0..MaxMishaps

StateInit == /\ at = [p \in Procs |-> "idle"]
             /\ profileCache = [d \in Pods |-> {}]
             /\ remote = {}
             /\ profiles = {}
             /\ found = [p \in Procs |-> {}]
             /\ mishaps = 0

Init == RC!Init /\ L!Init /\ StateInit

To(p, step) == at' = [at EXCEPT ![p] = step]
Keep(p, ps) == found' = [found EXCEPT ![p] = ps]
Mishap == mishaps < MaxMishaps /\ mishaps' = mishaps + 1
-----------------------------------------------------------------------------
Call(p) ==
    /\ at[p] = "idle"
    /\ To(p, "get")
    /\ Keep(p, {})
    /\ UNCHANGED <<remoteVars, mutexVars, profileVars, mishaps>>

\* profileCache.Get: the pod's profiles end the call.
Get(p) ==
    /\ at[p] = "get"
    /\ Keep(p, profileCache[pod[p]])
    /\ IF found'[p] = {} THEN L!Request(p, pod[p]) /\ To(p, "lock")
                         ELSE To(p, "idle") /\ UNCHANGED mutexVars
    /\ UNCHANGED <<remoteVars, profileVars, mishaps>>

\* utils.Lock returns.
Locked(p) ==
    /\ at[p] = "lock"
    /\ L!Acquire(p)
    /\ To(p, "getLocked")
    /\ UNCHANGED <<remoteVars, profileVars, found, mishaps>>

\* profileCache.Get again, then remotecache.GetOrCreate.
GetLocked(p) ==
    /\ at[p] = "getLocked"
    /\ Keep(p, profileCache[pod[p]])
    /\ IF found'[p] = {} THEN (\E k \in Keys : RC!Call(p, k)) /\ To(p, "remote")
                         ELSE To(p, "unlock") /\ UNCHANGED remoteVars
    /\ UNCHANGED <<mutexVars, profileVars, mishaps>>

\* GetOrCreate up to its factory: what redis has ends it.  Without the lock it
\* goes on all the same, and an error of the second Get counts as a miss.
Lookup(p) ==
    /\ at[p] = "remote"
    /\ \/ /\ RC!FirstGet(p)
          /\ \/ pc'[p] = "lock" /\ To(p, "remote") /\ UNCHANGED found
             \/ pc'[p] = "idle" /\ key[p] \in cached /\ To(p, "set") /\ Keep(p, remote)
             \/ pc'[p] = "idle" /\ To(p, "unlock") /\ UNCHANGED found
          /\ UNCHANGED mishaps
       \/ RC!Obtain(p) /\ UNCHANGED <<at, found, mishaps>>
       \/ RC!GiveUp(p) /\ Mishap /\ UNCHANGED <<at, found>>
       \/ /\ RC!SecondGet(p)
          /\ IF pc'[p] = "release" THEN Keep(p, remote) ELSE UNCHANGED found
          /\ IF pc'[p] = "factory" /\ key[p] \in cached THEN Mishap ELSE UNCHANGED mishaps
          /\ UNCHANGED at
    /\ UNCHANGED <<mutexVars, profileVars>>

\* Mutant: the factory inserts a profile without looking for one.
ReadNothing(p) ==
    /\ at[p] = "remote"
    /\ pc[p] = "factory"
    /\ To(p, "insert")
    /\ UNCHANGED <<remoteVars, mutexVars, profileVars, found, mishaps>>

\* The factory's GetProfilesForUserIDs.  Profiles, or an error, end it.
ReadProfiles(p) ==
    /\ at[p] = "remote"
    /\ pc[p] = "factory"
    /\ \/ /\ profiles = {}
          /\ To(p, "insert")
          /\ UNCHANGED <<remoteVars, found>>
       \/ /\ profiles # {}
          /\ RC!Produce(p) /\ pc'[p] = "store"
          /\ Keep(p, profiles)
          /\ UNCHANGED at
       \/ /\ RC!Produce(p) /\ pc'[p] = "release"
          /\ UNCHANGED <<at, found>>
    /\ UNCHANGED <<mutexVars, profileVars, mishaps>>

\* The factory's SaveProfile, with a fresh id.  After an error the row may be
\* there all the same.
SaveProfile(p) ==
    LET new == Cardinality(profiles) + 1
        Inserted == new <= MaxProfiles /\ profiles' = profiles \cup {new}
    IN
    /\ at[p] = "insert"
    /\ \/ /\ Inserted
          /\ RC!Produce(p) /\ pc'[p] = "store"
          /\ Keep(p, {new})
       \/ /\ Inserted \/ UNCHANGED profiles
          /\ RC!Produce(p) /\ pc'[p] = "release"
          /\ UNCHANGED found
    /\ To(p, "remote")
    /\ UNCHANGED <<mutexVars, profileCache, remote, mishaps>>

\* GetOrCreate stores what the factory returned; when it cannot, it returns
\* the error and getProfiles has no profiles.
Store(p) ==
    /\ at[p] = "remote"
    /\ RC!Store(p)
    /\ IF allowance' # allowance THEN remote' = found[p] /\ UNCHANGED found
                                 ELSE UNCHANGED remote /\ Keep(p, {})
    /\ UNCHANGED <<mutexVars, at, profileCache, profiles, mishaps>>

\* GetOrCreate returns, after its deferred Release.
Return(p) ==
    /\ at[p] = "remote"
    /\ RC!Release(p)
    /\ To(p, IF found[p] = {} THEN "unlock" ELSE "set")
    /\ UNCHANGED <<mutexVars, profileVars, found, mishaps>>

\* profileCache.Set.
Set(p) ==
    /\ at[p] = "set"
    /\ profileCache' = [profileCache EXCEPT ![pod[p]] = found[p]]
    /\ To(p, "unlock")
    /\ UNCHANGED <<remoteVars, mutexVars, remote, profiles, found, mishaps>>

\* The deferred unlock.
Unlock(p) ==
    /\ at[p] = "unlock"
    /\ L!Release(p)
    /\ To(p, "idle")
    /\ UNCHANGED <<remoteVars, profileVars, found, mishaps>>

\* A pod's entry expires, 2 s after it was set.
ExpireInPod(d) ==
    /\ profileCache[d] # {}
    /\ profileCache' = [profileCache EXCEPT ![d] = {}]
    /\ UNCHANGED <<remoteVars, mutexVars, at, remote, profiles, found, mishaps>>

\* The value in redis expires, or the lease of the lock, under its holder or
\* not.
ExpireInRedis(k) ==
    /\ \/ RC!Remove(k) /\ remote' = {} /\ UNCHANGED mishaps
       \/ /\ RC!Lapse(k)
          /\ IF lapsed' = lapsed THEN UNCHANGED mishaps ELSE Mishap
          /\ UNCHANGED remote
    /\ UNCHANGED <<mutexVars, at, profileCache, profiles, found>>

Proceed(p) == \/ Get(p)
              \/ GetLocked(p)
              \/ Lookup(p)
              \/ ReadProfiles(p)
              \/ SaveProfile(p)
              \/ Store(p)
              \/ Return(p)
              \/ Set(p)
              \/ Unlock(p)

Next == \/ \E p \in Procs : Call(p) \/ Locked(p) \/ Proceed(p)
        \/ \E d \in Pods : ExpireInPod(d)
        \/ \E k \in Keys : ExpireInRedis(k)
-----------------------------------------------------------------------------
\* A user gets one profile, and a second one only for a lock that was refused
\* or outrun or a Get that failed: the first requests of a user, on all pods
\* together, do not each make one.
ProfilesAccountedFor == Cardinality(profiles) <= 1 + mishaps
=============================================================================
