# TLA+ models of bcc-media-platform

This directory holds TLA+ specifications of the backend of BCC Media Platform
(`src/backend`, Go): the locks, caches, limiters and middlewares that every
request goes through, the pipeline that turns an editor's save into push
notifications, the one that turns a delivered file into a published asset, and
the jobs that keep the search index, chapters and translations in step with the
database. TLC checks the models on small
instances; TLAPS proves the theorems of the `*Proofs` modules for every value
of the constants.

`PROJECT.json` lists components, runs, mutants (a plausible bug for every
property, which the property catches), the source lines of every definition,
hazards, findings and theorems.

To check everything by hand: `tlc -config X.cfg M` for the runs in the table
below, `tlapm M.tla` for the modules that end in `Proofs`.

## 1. The system

The platform is a set of stateless Go services on Cloud Run (`cmd/api`,
`cmd/jobs`, `cmd/rewriter`, `cmd/stream-proxy`), many pods of each, over one
PostgreSQL database that a Directus CMS edits, with redis, Elasticsearch, S3,
AWS MediaPackage, Cloud Tasks, Pub/Sub and Firebase around it. "Stateless" is
what makes it hard: everything that is kept between two requests is a cache in
a pod, a key in redis, a message on its way or a row somebody else may be
changing.

| Component | State it keeps | Operations | What makes it correct |
| --- | --- | --- | --- |
| keyed locks, `utils/locks.go` | table of reference counted mutexes | `Lock`, the unlock it returns | exclusion per key; no mutex leaked or lost |
| memory cache, `memorycache` | LRU with TTLs, per pod | `Get`, `Set`, `Delete`, `GetOrSet` | one factory at a time per key; served values do not go back in time |
| remote lock and cache, `remotecache` | redis keys with a time to live | `Lock`, `Release`, `GetOrCreate` | a late release takes nobody's lock; recomputation bounded by mishaps; nobody waits for ever |
| loaders by roles, `loaders` | collections of loaders with expiry and a hook that cancels their context | `Get`, `Set`, `Delete`, `DeleteExpired`, the janitor | loaders that can be found are alive; expired ones leave and are cancelled |
| notifications, `cmd/jobs/update-handler.go` and `scheduler` | a row, messages, tasks, a redis lock | `handleModelUpdate`, `Queue`, `HandleRequest` | pushed once, and in the end, at the time the row says, but for the mishaps of section 4 |
| job server, `cmd/jobs/server` | ids of handled messages, per pod | `ProcessMessage`, `ProcessAwsMessage`, `ProcessScheduledTask`, the translation webhook | deliveries are handled at least once and tolerate being handled twice |
| asset ingest, `asset` | S3 objects, asset, stream and file rows, MediaPackage assets | `Ingest`, `copyObjects`, `multiPartCopy`, `UpdateIngestStatus`, `IngestTimedMetadata` | no delivered file is lost; rows point at objects; ingested means published |
| timed metadata, `asset/timedmetadata.go` | chapter rows, person rows, a mutex per run | `IngestTimedMetadata` | after a run that succeeds the chapters are those of the file |
| search index, `search` | Elasticsearch indices, loaders per pod | `ReindexElastic`, `IndexModel`, `DeleteModel`, queries | when everything has been handled the index is what the database says |
| translations, `translations` | hashes of what was sent, Phrase jobs, a lock key per event | export under `runIfNotLocked`, import, webhook | what is recorded as sent is what the newest jobs have |
| users and profiles, `user` | the user in pod and redis, a table of mutexes, profiles | middleware | requests share a user but not each other's roles; one profile per user |
| rate limiting, `ratelimit` | counters in redis and in memory | `Key`, `allow` | no hit lost; every window ends |
| request cache, `graph/api/resolver.go` | results with the time they were made | `withCacheAndTimestamp` | entries stamped no earlier than the client's timestamp, made once a second at most |
| studies and achievements, `graph/api`, `achievements` | rows per profile, promises cached by the loaders | `CompleteTask`, `LockLessonAnswers`, `CheckNewAchievements` | what was done is seen; locked answers stay locked |
| progress, `graph/api` | rows per profile | `SetEpisodeProgress` | the last one wins |
| pagination, `utils/paginate.go`, `cursors` | none; cached lists of a collection | `Paginate`, cursors, shuffle | walking the pages visits every item once |
| stream tokens and proxy | none / cached playlists | signing, cleaning playlists | lifetimes nest |
| feature flags, `unleash` | counters | count, report | every impression is reported at most once |

The rest (GraphQL schema and resolvers, generated SQL access, clients of Auth0,
members, BMM, e-mail providers, BigQuery, RudderStack; SQLite export; command
line tools; the TypeScript clients, the CMS and the infrastructure) maps data
or calls other services and keeps no state between requests.

How they interact: a resolver of `cmd/api` finds the loaders for the user's
roles in a collection, which reads through data loaders and the memory cache;
the memory cache uses the keyed locks; the middleware and some resolvers use
the remote cache, which uses the remote lock; the limiters and the request cache
keep their values in caches of their own under keyed locks; a mutation writes
to the database and clears the loaders that it knows to be affected. A save in the CMS publishes a
message; Pub/Sub delivers it by HTTP to `cmd/jobs`, which updates the search
index, refreshes views or sends a notification, using the remote lock and the
scheduler, whose Cloud Tasks call `cmd/jobs` again. A delivery in the ingest
bucket publishes another message, which ends in `asset.Ingest`; MediaPackage
reports completion through SNS to the same server. Chapters arrive in the same
way, and events of the CMS start the sync of translations.

Hard behaviours, then: goroutines racing in the lock and cache code; pods racing
through redis leases that run out; messages and tasks delivered twice, late or
after a crash; errors that are answered with HTTP 200 and so never retried;
sequences of writes to S3, the database and MediaPackage that may stop between
any two; times truncated to seconds. `PROJECT.json` lists them line by line.

## 2. The modules

| Module | Models | Composed of |
| --- | --- | --- |
| `Mutex` | what `utils.Lock` promises: a lock per key (abstract) | |
| `KeyedLock` | `utils/locks.go` step by step | implements `Mutex` |
| `ReadThrough` | what `memorycache` promises: a read-through cache (abstract) | |
| `MemoryCache` | `memorycache.go` | uses `Mutex`, implements `ReadThrough` |
| `LeaseLock` | `remotecache/lock.go` and the redis key | |
| `RemoteCache` | `remotecache/cache.go` | uses `LeaseLock` |
| `LoaderCollection` | `loaders/collection.go`, `janitor.go`, `GetLoadersForRoles` | |
| `Notifications` | `cmd/jobs/update-handler.go`, `scheduler/client.go`, the job server, the CMS, Pub/Sub, Cloud Tasks | uses `LeaseLock` |
| `AssetIngest` | `asset/ingest.go`, `copyObjects`, the job server, SNS | |
| `MultiPartCopy` | `multiPartCopy` | the `Copy` step of `AssetIngest` |
| `RateLimit` | `allow` of `ratelimit/limit.go` | uses `Mutex` |
| `SharedRateLimit` | `Key` of `ratelimit/limit.go` and the redis counter | |
| `RequestCache` | `withCacheAndTimestamp` of `graph/api/resolver.go` | uses `Mutex` |
| `UserMiddleware` | `NewUserMiddleware` and `withRequestRoles` of `user/middleware/user.go` | |
| `Profiles` | `user/middleware/profiles.go` | uses `RemoteCache`, `Mutex` |
| `TaskCompletion` | `CompleteTask`, `LockLessonAnswers`, `CheckNewAchievements`, `loaders/cache.go` | |
| `TimedMetadata` | `asset/timedmetadata.go`, `asset/utils.go` | |
| `SearchIndex` | `search/indexing.go` over the loaders of each pod | |
| `Translations` | `translations/service.go`, `phrase/client.go`, `runIfNotLocked` | |
| `ApiServer` | the API server: any one of its components per behaviour | `MemoryCache`, `RemoteCache`, `RateLimit`, `SharedRateLimit`, `RequestCache`, `UserMiddleware`, `Profiles`, `TaskCompletion` |
| `JobServer` | the job server, in the same way | `MultiPartCopy`, `SearchIndex`, `TimedMetadata`, `Translations` |
| `KeyedLockProofs`, `MemoryCacheProofs`, `RemoteCacheProofs`, `LoaderCollectionProofs`, `NotificationsProofs`, `AssetIngestProofs`, `ApiServerProofs`, `JobServerProofs` | theorems and their proofs | the component's module; `ApiServerProofs` also uses `MemoryCacheProofs` and, for the remote cache and for that of the profiles, `RemoteCacheProofs` |
| `MC...` | the instances TLC checks | |

Conventions: an action is the code between two points where another goroutine,
pod or service can get in; its name is the function or the SQL statement. `pc`
says where a process is. A variable marked *(history)* is read by properties and
by bounds only. Definitions marked *Mutant* are the plausible bugs; nothing in
the models uses them.

### Mutex, KeyedLock

`locksMu` is the mutex of the table, `locks[k]` the entry, `mu[o]` and `refs[o]`
the fields of an entry object. `Enter`, `Find`/`Create` and `Count` are the first
critical section of `Lock`; `Acquire` is `l.Lock()`; `Release`, `ReEnter`, `Unref`
are the returned function. Entries are allocated from a finite set of objects,
any that nobody refers to (there are as many as goroutines, so allocation never
blocks). `KeyedLock` refines `Mutex` under the mapping *lookup, count, wait* ↦
waiting, *locked* ↦ holding.

### MemoryCache

`GetOrSet` over the abstract lock of `Mutex`, which is sound because `KeyedLock`
implements it. A TTL, an LRU eviction and `Delete` are one action, `Remove`, that
may happen at any time. What a factory reads is a version number that anyone
advances (`Change`), so that "older" means something. `Get` treats a value of
another type as a miss; a key is taken to keep one type.

`ReadThrough` has neither goroutines nor locks: per key a value, and a load that
begins only while there is neither a value nor another load, reads, and fills.
`MemoryCache` refines it, where the load of a key is that of the goroutine in its
factory or before its `Set`; both looks at the cache are `Hit` when they find
something, and the second is `Begin` when it does not.

### LeaseLock, RemoteCache

A lease is the redis key (`lock[k]`) and what its holder believes (`held[p]`). The
time to live is the action `Lapse`, possible at any moment; a release of a lapsed
lease compares the token and does nothing. `Refused` is any error of `Obtain`,
retries and the deadline included. `GetOrCreate` goes on after `GiveUp`; a
`Crash` keeps the key in redis until `Lapse`.

`allowance[k]` counts, for `FillsAccountedFor`, the reasons why one more factory
may run: a removed value, a refused or lapsed lock, a failing `Get`, a crash.

### LoaderCollection

`values` is the concurrent map, `expired` and `ran` the entries whose time has
passed and whose `OnDelete` has run. A request is `GetLoadersForRoles`: `Get` in
the steps `Load`, `Check`, `Renew` or `GetDelete`, `GetHook`, then `Set`. The
janitor is `Tick`, `Visit` per key, then `Take`, `TakeAgain` (the second delete),
`JanitorHook` per expired key.

### Notifications

One notification. `Save` is the CMS, `Deliver` and `Dispatch` are Pub/Sub and Cloud
Tasks, `Obtain` or `GoOnUnlocked`, `Read`, `List`, `Create`, `MarkStarted`, `Push`,
`Release`, `Respond` the worker, `Crash` and `Lapse` the environment. Time is in
half seconds, because `Queue` truncates the scheduled time to whole seconds and
so runs the task before it is due: the worker then has to queue again while the
task that is running is still listed. A listing is a snapshot, deleting from it
may find a task gone; a task's name is fresh.

`raced` *(history)* says that two workers were in `Queue` at a time, one of them
without the lock or with a lease that it has outrun. Each may then delete the task that the other
has just created, and none is left: with two saves TLC does not find this, with
three it refutes `NeverForgotten` and `QueuedForItsTime` as they would stand
without `raced`. The code renews no lease and checks none, so the properties
exclude the case, and no other overlap of workers. `orphaned` *(history)* says that
a worker was killed and its job does not come again, or does so in vain, because
the row was marked and not yet pushed: the update handler marks first, so that
nobody is pushed to twice, and skips what is marked.

### AssetIngest, MultiPartCopy

An attempt at a delivery walks through `Ingest`; attempts overlap when a message
is delivered again. `Copy` is one goroutine of `copyObjects`. A file is a name;
the JSON and SMIL contents are the constants `Streams` and `Files`. `Complete`,
`Publish` and `Refuse` are MediaPackage's event and `UpdateIngestStatus`.
`Deletable` is what `DeleteObjects` finds under the keys it is given: keys of
streams begin with the bucket's name. A row of an asset file that is refused
(`InsertAssetFile`, an error that is only logged) stays missing while the
delivered file is deleted; the copy is kept.

`MultiPartCopy` is the arithmetic of the byte ranges and the life of an upload.
All its calls have one context, of 10 minutes. `expired` is set when that ends
during a call, which may be done by S3 all the same; after it no call reaches S3,
the abort included. `faults` *(history)* are the calls that S3 failed while the
context lasted. A part that asks for bytes the file does not have is refused, and
counts as neither.

### RateLimit, SharedRateLimit

`limitCache[k]` is a pointer to a counter, as in the code: a request that has
fetched one hits that one, even when it has left the cache. `Tick` passes time
for an entry, whose window is fixed when it is made. In `SharedRateLimit` the
counter and its time to live are two redis commands; `Fail` is a command that
fails (having been executed or not) or a process that dies between them, and
`Check` is the repair: a counter without a time to live is given one by the next
request over the limit.

### RequestCache

The clock counts half seconds and stored times are cut to whole ones, as in the
code. `began` remembers when the factory read its data, so that "newer" is about
data and not about stamps.

### UserMiddleware, Profiles

In `UserMiddleware` a user is the set of roles beyond those of the identity, so
that roles which leak from one request's headers into the cached user are
visible. The table of mutexes and the mutexes are separate, because an entry is
deleted by name after its unlock. Requests of one pod share `userCache`; the
redis entry and the row are shared by all.

`Profiles` puts the steps of `RemoteCache` between those of `getProfiles`; a lock
refused or outrun and a Get that fails count as mishaps. There is no uniqueness
constraint on profiles to help (`migrations`): the model does not assume one.

### TaskCompletion

`loaded[d][l]` is what loader *l* of pod *d* has cached, which is the promise of
a query's result: loads that are under way are cached already. `ClearCompleted`
and `ClearLocked` clear what the mutations clear; loaders that are cleared with
`ClearAll` keep what they have (finding 4), which is part of the model.
`GetCompleted` comes before `Save`, as in the code, and fills the cache that the
count of achievements then reads.

### TimedMetadata, SearchIndex, Translations

`TimedMetadata`: a run clears the chapters of each asset and starts one goroutine
per chapter, which inserts it for each asset under the run's mutex. There is no
transaction around it: a run that fails leaves half of it, and runs overlap when
a message comes again. A chapter of a type nobody knows is skipped without an
error.

`SearchIndex`: messages about one item, late, repeated and out of order, on
several pods whose loaders cache the item and its permissions. `Clears` are the
loaders that `IndexModel` clears, which differ between collections. The types of
the events are kept apart, because a deletion that overtakes a save is handled
by `DeleteModel` without looking at the database.

`Translations`: the texts are one version number, a job the version of its source.
`GetKey` and `SetKey` of `runIfNotLocked` are separate, and `ExpireKey` may come
while the task runs; what is read, sent and recorded are separate steps. A
`GetJobs` that Phrase answers with another status than 200 returns neither jobs
nor an error: the run goes on, *blind* (history), gives every language one more
job, leaves those there are as they were and records the hash. It is modelled as
the code does it, while a language has fewer than `MaxJobs` jobs.

### ApiServer, JobServer

Components of a server that share no state with each other have no interleavings
worth looking at: what each does alone is all there is. So the servers choose,
initially, the component (`kind`) that a behaviour is about and leave the others
as they are; a run explores the union of their state spaces, not the product.
Components that do interact are composed inside their modules instead: caches
over locks, profiles over the remote cache, mutations over the loaders.

## 3. The runs

`Spec` is `Init /\ [][Next]_vars`, `FairSpec` adds fairness.

| Run | Instance | Distinct states | Shows |
| --- | --- | --- | --- |
| `keyed_lock` | 3 goroutines, 2 keys, 3 entries | 7 136 | exact counts, table = entries in use, everybody served, refinement of `Mutex` and so exclusion |
| `api` | 3 requests for the caches, 2 for the rest, 1 key, 2 pods, 2 changes and removals, one mishap, 2 profiles, 1 task | 254 353 | one fill per absence, `ServedNeverOlder`; fills and profiles accounted for; leases kept; limits hold; cached answers stamped as asked for; roles and mutexes of users; locked and completed tasks |
| `api_live` | 2 requests, without profiles and tasks | 29 491 | calls return, windows end, limits are lifted |
| `jobs` | 2 messages, 1 pod, 2 saves, 3 chapters, one of an unknown type, 2 languages, at most 2 jobs of each when a listing is lost, parts of 3 bytes and files up to 20; symmetry of messages and of languages | 1 073 064 | completed copies whole, uploads closed after a part that fails, the index follows the row, chapters are the file's, what is recorded is what the newest jobs have |
| `clear_all` | 2 requests, 1 pod, 1 task | *violated* | finding 4 |
| `loader_collection` | 2 requests, 1 key, 3 entries | 506 972 | found loaders are alive, expired ones leave |
| `loader_collection_hook` | 4 entries | *violated* | finding 1 |
| `notifications` | 2 workers, 3 saves, 2 tasks, schedules 1 and 3, one mishap, one crash, a clock that stands still | 2 126 937 | at most one push per mishap, task at the row's time, nothing forgotten |
| `notifications_live` | 2 workers, 1 save, one crash, one duplicate | 463 882 | what is published is pushed in the end, but for a worker killed between mark and push and the other cases named in `PublishedIsSent` |
| `asset_ingest` | 2 attempts, 1 stream, 2 files, 1 endpoint | 160 996 | nothing lost, rows have objects, deletion last, ingested is published |
| `asset_ingest_leftovers` | the same with one file | *violated* | finding 2 |
| `multi_part_copy_any_size` | parts of 3 bytes, files of 1 to 20 | *violated* | finding 3 |

Why the bounds are enough. Three processes are one inside, one waiting and one
that arrives after an entry has been dropped and made anew. Two removals and two
changes let a value become stale, be replaced and become stale again. Three saves
let a notification be rescheduled while the first is being handled, and once more
while two workers handle those. Schedules 1 and 3 (half seconds) are truncated to
a time that has come and to one that has not, which is all that a clock has to
tell apart that stands still; time passes in `notifications_live`, where schedules
1 and 2 are one time that is truncated and one that is not. One mishap and one crash meet every step of a handler; in
`PushesAccountedFor` the mishap is counted, so that one is enough to see a push
too many. Limit 1 and a window of 2 ticks are the smallest that can be exceeded
and that can end under a request. A clock of four half seconds has two whole
seconds and the halves between. Two saves let the second message overtake the
first, and a save overtake a deletion. One pod is enough for `jobs`: what another
pod has cached is what this one may still have cached when a message comes again.
Two languages are one with a job and one without; versions *a* and *b* let a
text change and change back. Two jobs of a language, an old one and the one that
a blind run adds, are what `RecordedIsSent` has to tell apart; the theorem is for
any number. Messages and languages are interchangeable, and `jobs` checks no
liveness, so that its symmetry is sound. Two attempts suffice for each to delete what the other has to copy,
and the theorems say the same of any number. Part size 3 has every remainder,
and both sides of the boundary `objectSize - 1`.
With three entries `loader_collection` leaves out states in which a stored
entry, the janitor's and both requests' are four different ones; there the
theorem about `StoredEntriesAlive`, for any number of entries, takes over.

Deadlock is checked in the runs of keyed locks and loaders, where somebody can
always go on. `CHECK_DEADLOCK FALSE` is set where bounded work ends:
`Notifications`, `AssetIngest`, `MultiPartCopy`, and the two servers, some of whose
components stop at their bounds (`MaxClock`, `MaxVersion`, `MaxSaves`); that nobody
is stuck before is `EveryCallReturns`.

### Fairness

- `KeyedLock`: weak fairness for a goroutine's steps, as the Go scheduler gives;
  strong fairness for acquiring a mutex, as `sync.Mutex` hands over to a waiter
  that starves (after 1 ms).
- `ApiServer`: queries, factories and redis calls return or fail, since their
  contexts have deadlines (weak fairness of `Proceed`); a mutex is given to whoever
  waits for it (strong fairness of `Locked`, which `KeyedLock` shows of its lock and
  `sync.Mutex` gives for the middleware's); time passes (weak fairness of `Tick`).
  Nothing is assumed of leases, of failures, nor of redis granting a lock.
- `LoaderCollection`: the janitor runs again and again. Nothing is assumed of
  requests.
- `Notifications`: calls return, jobs are delivered again until acknowledged, time
  passes and leases run out. Strong fairness of `Obtain` stands for polling every
  100 ms; not for more than the bound on refusals.
- `AssetIngest`: calls return, MediaPackage completes, SNS delivers what it does
  not give up (`Refuse` is never forced).

## 4. The findings

1. `loaders/collection.go:71`: `Get` deletes an expired entry by its key. When the
   janitor or another request has removed it already and fresh loaders have been
   stored, these go instead, and their `OnDelete` never runs (a context that is not
   cancelled until its process ends); that is the trace TLC finds. `Delete` does the
   same at `:87`, where it removes its key a second time. `CompareAndDelete` at the
   first and no second delete at the other would be needed together.
2. `asset/ingest.go:260`, `:276`: the keys of streams and subtitles in
   `objectsToDelete` include the bucket, so a successful ingest leaves them in the
   ingest bucket.
3. `asset/copy-objects.go:93`: a file of *n* · 2 GiB − 1 bytes asks for a range that
   ends one byte past the file, which S3 refuses: it can never be copied.
4. `loaders/cache.go:52`: `isKey` calls `strings.HasPrefix` with its arguments
   swapped, so `Clear` ("clears the entire cache") clears nothing. The mutations
   that use `ClearAll` (`mutations.resolvers.go:379`, `:380`, `:399`-`:401`) and the
   hook that drops default episodes (`cmd/api/loaders.go:70`) leave old answers
   cached until they expire. `Clear` of one key works, and `SettledIsSeen` and
   `LockedStaysLocked` rest on that alone.

Beside these, the models do what the code does in the following cases, and the
properties name them as exceptions, because no text of the repository promises
otherwise:

- `asset/copy-objects.go:184`: the abort of an upload uses the context of the copy.
  When its 10 minutes (`:112`) are what made the part fail, the abort fails too and
  the upload stays open, though S3 has failed nothing. A `CompleteMultipartUpload`
  that fails (`:225`) is not followed by an abort (`NoneLeftOpen`).
- `translations/phrase/client.go:475`: a listing of jobs that fails with a status
  counts as empty. Each language gets a second job, the first keeps its old texts,
  and the hash is recorded, so that it keeps them until the texts change
  (`RecordedIsSent`).
- `cmd/jobs/update-handler.go:71`: a worker killed between the mark and the push
  leaves a notification that nobody is sent (`PublishedIsSent`).
- `loaders/collection.go:94`: an entry that a request renews between the janitor's
  look and its delete is shut down under that request.
- `user/middleware/user.go:378`: the mutex is deleted by name after its unlock, so
  that two requests of a user may be in `GetOrCreate` at a time, which has a lease
  of its own (`MutexInUse` is about what stays in the table).

## 5. The proofs

TLAPS checks them for all values of the constants, under the named assumptions of
each module (`ProcsAssumption`, `BoundsAssumption`, `NotificationsAssumption` and
the like: null values are not members, processes are finite in number, bounds and
schedules are natural numbers, part sizes are positive, a task is not named like
a message). Where a component is instantiated by a server its assumption is a
hypothesis of its theorems, and part of the server's own (`ApiAssumption`,
`JobsAssumption`), which TLC evaluates.

Every safety invariant and every action property that a run checks and that
holds is proved. Proved without a run of their own are: that locks exclude
(`Exclusion`), that leases do (`LeaseExcludes`), that factories run one at a time
(`OneFactory`), and that `MemoryCache` implements `ReadThrough` (`ReadsThrough`). The theorems bear the invariants' names in `PROJECT.json`; below is
why each invariant is not inductive, and what had to be added.

- `KeyedLockProofs`. The inductive invariant says who is inside the table's mutex,
  that everyone who uses an entry uses the one in the table, that `refs` is the
  cardinality of its users, and that a held mutex has exactly one holder. It is
  needed because exclusion alone is not inductive: it holds of a key only as long
  as the entry cannot be replaced under a user, which is what the exact count
  ensures. From it follow `TypeOK`, `MutualExclusion`, `RefsExact`,
  `TableMatchesUse` and, step by step, that `KeyedLock` implements `Mutex`.
- `MemoryCacheProofs`. `SingleFlight` follows from the lock (`ExclusionInv`: one
  holder per key, tied to the place in `GetOrSet` by `PhaseInv`). For
  `OneFillPerAbsence` and `ServedNeverOlder` it has to be known that the cache has
  nothing for a key while its factory runs (`FillInv`: nobody else can fill it),
  so that nothing can be served meanwhile that is newer than what the factory
  read (`VersionInv`, `FreshInv`). The same invariant shows, action by action, that
  `MemoryCache` implements `ReadThrough` (`ReadsThrough`): the goroutine in a factory
  is the only one of its key, so its load is the load of the key (`OneLoad`).
- `LoaderCollectionProofs`. `StoredEntriesAlive` needs to know whose hook may be
  about to run: a request or the janitor runs the hook only of an entry that it
  has itself taken out (`HookInv`, `JanitorInv`), an entry is stored under one
  key only (`DistinctInv`) and, if at all, under the key of the request that
  loaded it (`EntryKeyInv`); so `Delete`, which works by key, takes out what it shuts down.
- `RemoteCacheProofs`. `KeptUntilLapse` is inductive with the types of the
  variables (`LeaseInv`); `OneLiveHolder`, that one holder at most has a lease that
  has not lapsed, follows at once. For `FillsAccountedFor` it must be known not only
  who computes a value but who may be about to. Workers *spend* while they compute
  or store, and when they look again without a lease; with a lease at most one
  looks again at a time. There is credit for all who spend, and while there is no
  value for one more (`CreditInv`). The lemmas are about the module, so that a
  server and `Profiles`, which put it to use, have them too.
- `NotificationsProofs`. `PushesAccountedFor` counts, and so must its invariant.
  Until `send_started` is written (`BeforeInv`) nobody has pushed or is about to,
  and the workers that read or are about to write without a live lease are no
  more than the mishaps; with the one that may have a live lease (`LeaseInv`), no
  more than 1 + mishaps can be on their way when it is written. From then
  on (`AfterInv`) nobody sets out, and pushes made and pushes to come stay within
  that number. Workers must be finite in number: sets of them are counted.
  `NeverForgotten` and `QueuedForItsTime` rest on `WatchInv`. As long as a
  notification is to be sent, one of four things is true (`SomebodyInv`): a save is
  under way of which no worker has read the row yet, a task has come due that
  none has, a worker is on its way to send or to queue it, or a task stands at the
  time of the row. A worker in `Queue` wants the time of the row, or a save came
  since (`WantInv`). If its listing has a task at that time, it will be content
  with it, and so that task must still stand (`ListedInv`): only another worker in
  `Queue` deletes tasks, which is `raced` (`AloneInv`).
- `AssetIngestProofs`. The invariant ties an attempt's place in `Ingest` to what it
  has done: from *package* on it has copied everything, from *files* on its streams
  are complete, and the delivery lacks a file only when some attempt got as far as
  *delete*. `NothingLost` is not inductive by itself, as the files another attempt
  deletes are safe only because that one had copied them all.
- `ApiServerProofs`. The theorems on the memory cache, the lease and the remote
  cache hold of the server: a step of the server that is about the cache is a step
  of the cache, and a step of `GetOrCreate` one of the remote cache. The others
  have invariants of their own:
  - `ProfilesAccountedFor`: a request that is about to insert found no profile while
    it was the only one with a lease, or it was *unsafe*, and the unsafe are no more
    than the mishaps (`UnsafeInv`). So the profiles and the requests about to insert
    one are together no more than 1 + mishaps (`InsertedInv`). What the remote cache
    does between those steps is the invariant of `RemoteCacheProofs`, of which
    `Profiles` takes steps only.
  - `LimitHolds`: whoever makes a counter holds the key's mutex and has found none,
    and a request whose window has not ended has the counter of that window
    (`CounterInv`), so what has passed is at most what that counter has counted
    (`PassedInv`).
  - `AnsweredAsAsked`, `OncePerSecond`: whoever is about to produce has seen, under
    the key's mutex, that the entry is older than it asks for (`StaleInv`), and
    stamps the new one no earlier than it began (`RequestTimesInv`).
  - `RolesAreOwn`, `MutexInUse`: what is in a cache, or about to be put there, has
    no roles of a request (`SharedRolesInv`).
  - `SettledIsSeen`, `LockedStaysLocked`: who has yet to clear is distinguished from
    what has been cleared and filled again (`TaskCallsInv`, `TaskCachesInv`).
  - `TypeOK` of the server puts those of its components together.
- `JobServerProofs`.
  - `CompletedIsWhole`, `NoneLeftOpen`: the parts uploaded so far are the prefix of
    the file that ends before `i`, each as long as it should be (`CopyInv`), so a
    completed upload is whole. `NoneLeftOpen` is inductive as it stands: a part that
    fails leads to *abort*, which closes the upload unless the context has ended or
    S3 fails the abort, and every other error is of a call that begins or ends one.
  - `IndexFollowsRow`: what a job has read or found cached is the row, or a message
    about the row is still to come (`CalmInv`, `LoadedInv`); nothing else is known
    of a message that came late. A reindex that nothing overlaps has emptied the
    index and lists what the row says (`ReindexInv`), whatever was there before.
  - `ChaptersAreOfTheFile`: of a run that is alone, an asset has the chapters that
    it has inserted and none that it has left (`RowsAreOf`), so none is left when it
    succeeds. That rows are bounded at all, when runs overlap, takes counting:
    a chapter has no more rows than there are runs that do not have it before
    them (`CountInv`). The person is entered once while one run comes after the
    other, because `insertLock` is held from looking it up to inserting it
    (`PersonInv`).
  - `RecordedIsSent`: a run that is alone and has met no error was told of all jobs,
    or of none if it is blind. It has given each job that it was told of what it has
    read, and each language a last one with it (`JobsAreOf`). Unless runs overlap
    each is alone, and unless they are blind too, which a run is only between its
    listing and its end (`BlindInv`), a language has one job at most
    (`UnsharedInv`). So what the hash records is what the newest jobs have
    (`CurrentInv`), and what all have when the run that recorded it was not blind.

Only model-checked, because they are out of the prover's reach: liveness under
fairness (`EveryRequestServed`, `EveryCallReturns`, `ExpiredEntriesLeave`,
`PublishedIsSent`, `IngestedIsPublished`, `WindowsEnd`, `LimitLifts`). Nothing here
needs induction over data or ENABLED otherwise.

## 6. What is not modelled, and the plan

Left out for good: generated code, resolvers that map data, clients of other
services, command line tools, signing and text processing (playlists, templates),
the TypeScript parts, the infrastructure. They keep no state between two calls, or
keep it where nothing else of the repository reads it.

Inside the modelled parts: logging and tracing, what a push contains and to whom it
goes, contents of files, an ingest whose files share a base name, the call of
`IngestTimedMetadata` at the end of an ingest (its errors are only logged), the
images cut for chapters, the import of finished translations and its webhook, the
batching of data loaders, search queries.

Known, but not covered by a property:

- `SetEpisodeProgress` reads a cached row and writes it back: the last one wins, and
  nothing says that it should be otherwise.
- Pages of a randomised collection are cached without the seed
  (`collections.utils.go:167`): the pages of a walk are related only in the client.
- The roles of a collection of loaders are joined with `-`, which a role's name may
  contain: names are data of the CMS.
- `unleash/metrics.go` counts and reports impressions; what is lost when a pod ends
  is not promised to anybody.

Planned, in this order:

1. An abstract specification of `Notifications`: a sender that sends each
   notification once, and once more for each mishap.
2. The import of translations and its webhook beside `Translations`.
3. `Pagination`: `Paginate`, cursors and the shuffle as functions against a
   reference definition.
