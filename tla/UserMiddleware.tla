--------------------------- MODULE UserMiddleware ---------------------------
(***************************************************************************)
(* The user of a request, NewUserMiddleware in                             *)
(* backend/user/middleware/user.go, on one pod, for one user who is logged *)
(* in.                                                                     *)
(*                                                                         *)
(* The user is cached in the pod, in redis (remotecache.GetOrCreate, whose *)
(* lock keeps nobody out for certain and is left out) and in the database, *)
(* and all requests share it; each adds the roles of its own headers.      *)
(* Users are modelled by the roles they have beyond those of their         *)
(* identity, and a request's own role by the request.                      *)
(*                                                                         *)
(* Misses are serialised by a mutex that is found in, or put into,         *)
(* userCacheLocks and deleted after its unlock: one who waits for it then  *)
(* has another mutex than one who comes later.                             *)
(***************************************************************************)
CONSTANTS Procs,    \* requests
          Mutexes,  \* addresses of mutexes
          NoMutex,
          NoUser

VARIABLES pc,              \* pc[p]: where p is in the middleware
          own,             \* own[p]: the roles of p's headers
          userCache,       \* the user in the pod's cache
          remote,          \* the user in redis
          row,             \* the user in the database
          u,               \* u[p]: p's local variable u
          given,           \* given[p]: the user in p's context
          userCacheLocks,  \* the mutex in the table
          lock,            \* lock[p]: p's local variable lock
          owner            \* owner[m]: those who have locked mutex m

users == <<userCache, remote, row>>
locks == <<userCacheLocks, lock, owner>>
vars == <<pc, own, users, u, given, locks>>

Labels == {"idle", "get", "find", "lock", "remote", "factory", "store", "set",
           "unlock", "delete"}

Users == (SUBSET Procs) \cup {NoUser}

TypeOK == /\ pc \in [Procs -> Labels]
          /\ own \in [Procs -> SUBSET Procs]
          /\ userCache \in Users /\ remote \in Users /\ row \in Users
          /\ u \in [Procs -> Users]
          /\ given \in [Procs -> Users]
          /\ userCacheLocks \in Mutexes \cup {NoMutex}
          /\ lock \in [Procs -> Mutexes \cup {NoMutex}]
          /\ owner \in [Mutexes -> {{}} \cup {{p} : p \in Procs}]

StateInit == /\ own = [p \in Procs |-> {}]
             /\ userCache = NoUser /\ remote = NoUser /\ row = NoUser
             /\ u = [p \in Procs |-> NoUser]
             /\ given = [p \in Procs |-> NoUser]
             /\ userCacheLocks = NoMutex
             /\ lock = [p \in Procs |-> NoMutex]
             /\ owner = [m \in Mutexes |-> {}]

Init == pc = [p \in Procs |-> "idle"] /\ StateInit

Goto(p, label) == pc' = [pc EXCEPT ![p] = label]

Unreferenced(m) == userCacheLocks # m /\ \A p \in Procs : lock[p] # m

\* Mutant: the roles are appended to those of the user that was found.
AppendInPlace(p, user) == /\ given' = [given EXCEPT ![p] = user \cup own[p]]
                          /\ userCache' = user \cup own[p]

\* withRequestRoles: p goes by a copy of the user with its own roles.
WithRequestRoles(p, user) == /\ given' = [given EXCEPT ![p] = user \cup own[p]]
                             /\ UNCHANGED userCache
-----------------------------------------------------------------------------
\* A request of the user comes in, with roles in its headers or not.
Call(p) ==
    /\ pc[p] = "idle"
    /\ \E roles \in {{}, {p}} : own' = [own EXCEPT ![p] = roles]
    /\ given' = [given EXCEPT ![p] = NoUser]
    /\ Goto(p, "get")
    /\ UNCHANGED <<users, u, locks>>

\* userCache.Get.
Get(p) ==
    /\ pc[p] = "get"
    /\ IF userCache # NoUser
       THEN WithRequestRoles(p, userCache) /\ Goto(p, "idle")
       ELSE Goto(p, "find") /\ UNCHANGED <<given, userCache>>
    /\ UNCHANGED <<own, remote, row, u, locks>>

\* userCacheLocks.LoadOrStore.
LoadOrStore(p, m) ==
    /\ pc[p] = "find"
    /\ IF userCacheLocks = NoMutex THEN Unreferenced(m) ELSE m = userCacheLocks
    /\ userCacheLocks' = m
    /\ lock' = [lock EXCEPT ![p] = m]
    /\ Goto(p, "lock")
    /\ UNCHANGED <<own, users, u, given, owner>>

\* lock.Lock returns.
Locked(p) ==
    /\ pc[p] = "lock"
    /\ owner[lock[p]] = {}
    /\ owner' = [owner EXCEPT ![lock[p]] = {p}]
    /\ Goto(p, "remote")
    /\ UNCHANGED <<own, users, u, given, userCacheLocks, lock>>

\* GetOrCreate finds the user in redis, or not.
Lookup(p) ==
    /\ pc[p] = "remote"
    /\ \/ /\ remote # NoUser
          /\ u' = [u EXCEPT ![p] = remote]
          /\ Goto(p, "set")
       \/ /\ Goto(p, "factory")
          /\ UNCHANGED u
    /\ UNCHANGED <<own, users, given, locks>>

\* getUserFromMembers: a user with the roles of its identity, which is saved
\* if the database lets it; without the members service the saved one, if any.
Produce(p) ==
    /\ pc[p] = "factory"
    /\ \/ u' = [u EXCEPT ![p] = {}] /\ row' \in {row, {}}
       \/ u' = [u EXCEPT ![p] = IF row = NoUser THEN {} ELSE row] /\ UNCHANGED row
    /\ Goto(p, "store")
    /\ UNCHANGED <<own, userCache, remote, given, locks>>

\* GetOrCreate returns the new user, stored in redis.
Store(p) ==
    /\ pc[p] = "store"
    /\ remote' = u[p]
    /\ Goto(p, "set")
    /\ UNCHANGED <<own, userCache, row, u, given, locks>>

\* userCache.Set, and the context.
Set(p) ==
    /\ pc[p] = "set"
    /\ given' = [given EXCEPT ![p] = u[p] \cup own[p]]
    /\ userCache' = u[p]
    /\ Goto(p, "unlock")
    /\ UNCHANGED <<own, remote, row, u, locks>>

\* GetOrCreate returns an error: the request is anonymous.
Fail(p) ==
    /\ pc[p] \in {"remote", "factory", "store"}
    /\ given' = [given EXCEPT ![p] = own[p]]
    /\ Goto(p, "unlock")
    /\ UNCHANGED <<own, users, u, locks>>

\* The deferred Unlock.
Unlock(p) ==
    /\ pc[p] = "unlock"
    /\ owner' = [owner EXCEPT ![lock[p]] = {}]
    /\ Goto(p, "delete")
    /\ UNCHANGED <<own, users, u, given, userCacheLocks, lock>>

\* Mutant: the mutex stays in the table after an error.
DeleteUnlessFailed(p) ==
    /\ pc[p] = "delete"
    /\ userCacheLocks' = IF given[p] = own[p] /\ userCache = NoUser THEN userCacheLocks
                                                                  ELSE NoMutex
    /\ lock' = [lock EXCEPT ![p] = NoMutex]
    /\ u' = [u EXCEPT ![p] = NoUser]
    /\ Goto(p, "idle")
    /\ UNCHANGED <<own, users, given, owner>>

\* userCacheLocks.Delete, whatever mutex is there by now.
Delete(p) ==
    /\ pc[p] = "delete"
    /\ userCacheLocks' = NoMutex
    /\ lock' = [lock EXCEPT ![p] = NoMutex]
    /\ u' = [u EXCEPT ![p] = NoUser]
    /\ Goto(p, "idle")
    /\ UNCHANGED <<own, users, given, owner>>

\* The entries expire: the pod's after 60 s, that in redis after 5 minutes.
Expire ==
    /\ \/ userCache # NoUser /\ userCache' = NoUser /\ UNCHANGED remote
       \/ remote # NoUser /\ remote' = NoUser /\ UNCHANGED userCache
    /\ UNCHANGED <<pc, own, row, u, given, locks>>

Proceed(p) == \/ Get(p)
              \/ \E m \in Mutexes : LoadOrStore(p, m)
              \/ Lookup(p)
              \/ Produce(p)
              \/ Store(p)
              \/ Set(p)
              \/ Fail(p)
              \/ Unlock(p)
              \/ Delete(p)

Next == \/ \E p \in Procs : Call(p) \/ Locked(p) \/ Proceed(p)
        \/ Expire
-----------------------------------------------------------------------------
\* "These come from headers on this request, so they must never be baked into
\* the cached user": a request goes by its own roles and by nobody else's,
\* however the user has gone from cache to cache before.
RolesAreOwn == \A p \in Procs : given[p] # NoUser => given[p] \subseteq own[p]

\* The table does not grow with the users that were ever seen: the mutex in it
\* is one that somebody is still about to delete.
MutexInUse == userCacheLocks # NoMutex => \E p \in Procs : lock[p] = userCacheLocks
=============================================================================
