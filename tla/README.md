# Verification of nah

nah is a framework for Kubernetes controllers. This directory holds TLA+
models of its core, the TLC configurations that check them on small instances,
and TLAPS proofs of the central safety properties for all instances.
`PROJECT.json` maps every definition to the source lines it models and lists
runs, mutants, findings, hazards and theorems.

## The system and its parts

| Part | State | Operations | Interacts with |
|---|---|---|---|
| Controller (`pkg/runtime/controller.go`) | `startLock`, `started`, `registration`, `startKeys`, `workqueues`, a WaitGroup and a semaphore per run | `Start`, `run`, `runWorkers`, `processSingleItem`, the `Enqueue` family, `handleObject` | informer callbacks in, handler calls out |
| Shared controllers (`pkg/runtime/shared*.go`, `backend.go`) | one controller per kind, a slice of handlers, `started` flags | `ForKind`, `RegisterHandler`, `OnChange`, `Start`, `Preload`, `Watcher` | creates controllers, dispatches to HandlerSets |
| HandlerSet (`pkg/router/handler.go`, `handlers.go`, `save.go`) | lock per object, limiter per key, keys backing off | `onChange`, `checkDelay`, `handle`, `save`, `WatchGVK` | called by workers; calls triggers, the client and `Backend.Trigger` |
| Routes (`router.go`, `finalizer.go`, `pkg/conditions`) | the object that the handlers of a kind share, finalizers, conditions | filters, `finalizer.Handle`, `ErrorMiddleware` | run by `handle`, write to the API server |
| Triggers (`pkg/router/trigger.go`, `matcher.go`, `client.go`) | registrations by kind and target, map of objects to trigger, one goroutine | `Register`, `Trigger`, `UnregisterAndTrigger`, `process` | fed by `handle` and by every read of a handler; enqueues targets |
| Cache client (`pkg/runtime/cached.go`) | objects written recently, with their time | `Get`, the writes, the purge | informer cache and API server |
| Apply (`pkg/apply`) | labels, annotations and applied content on the objects of the cluster | `Apply`, `Ensure`, create, take over, patch, replace, prune, `PurgeOrphan` | called by handlers; reads the cache, writes to the API server |
| Watcher (`pkg/watcher`) | revision of the last event | `ByObject`, `ByName`, `retryWatch`, `doWatch` | API server |
| Leader election (`pkg/leader`) | the lock file or Lease, what each replica last saw of it | acquire, renew, release | Router callbacks |
| Router (`pkg/router/router.go`, `healthz.go`) | `startLock`, health entry, channel of `Stopped` | `Start`, `startHandlers`, the callback for a new leader, `done` | leader election, HandlerSet |

What is hard to get right, and what makes a part correct:

* *Controller*: a key is enqueued while it is processed, before the queues
  exist and while they are filled; shutdown races with the dispatcher. One
  worker per key, bounded workers, no lost key, a shutdown that drains; in
  short, it is a `Reconciler`.
* *Shared controllers*: handlers register while controllers are created,
  preloaded, started and stopped, under the locks of a set, the factory and
  the shared controller. Every object reaches every handler, no call blocks.
* *HandlerSet*: an object is in the queue under up to three keys (event,
  trigger, replay), the limiter drops events, the status update meets newer
  versions. One handler per object, nothing dropped for good, convergence.
* *Routes*: every handler, finalizer and the final save write back copies of
  the object that may be old. No finalizer goes early, the condition describes
  the spec, a deleted object goes away.
* *Triggers*: registration, read, change and the processing of a batch
  interleave. A handler whose input has changed runs again.
* *Cache client*: reads lag behind writes. Read your writes, no ghosts.
* *Apply*: a call is a series of requests without preconditions, decided from a
  cache that lags, any of which may fail or lose its answer, and the process
  may die between two. The set ends up applied, nobody else's objects are
  touched, orphans go.
* *Watcher*: conflicts, lost connections, bookmarks, compaction. Every change
  once and in order, and the deletion is reported.
* *Leader election*: crashes at any point, several processes on one file, the
  hand-over. One leader, one active replica, failover.
* *Router*: callbacks in any order, failing starts. Health and `Stopped` tell
  the truth.

## Modules

| Module | Models | Notes |
|---|---|---|
| `Workqueue` | the client-go queue | external; operators on a record |
| `Controller`, `MCController` | `controller.go` | uses `Workqueue` |
| `Reconciler` | | abstract: what a controller promises |
| `ControllerRefinement` | | the mapping from `Controller` to `Reconciler` |
| `ControllerProofs` | | theorems about `Controller`, its demand and the refinement |
| `Shared`, `MCShared` | `shared*.go`, `backend.go`, `Start` and `WatchGVK` of `handler.go` | handler sets of one process; a controller is reduced to its flag and one worker |
| `SharedProofs` | | theorems about `Shared` |
| `HandlerSet`, `MCHandlerSet` | `handler.go`, `save.go` | objects of one kind |
| `HandlerSetProofs` | | theorems about `HandlerSet` |
| `ObjectServer` | the API server | external; the history of one object |
| `Chain`, `MCChain` | filters of `router.go`, `finalizer.go`, `setter.go`, `handlers.go`, `save.go` | on `ObjectServer` |
| `Watcher`, `MCWatcher` | `watcher.go` | on `ObjectServer` |
| `ObjectServerProofs` | | theorems about `Chain` and `Watcher` |
| `Triggers`, `MCTriggers` | `trigger.go`, `matcher.go`, reads of `client.go` | from a change to the queues of the watchers |
| `TriggersProofs` | | theorems about `Triggers` |
| `CacheClient`, `MCCacheClient` | `cached.go` | one object |
| `CacheClientProofs` | | theorems about `CacheClient` |
| `Apply`, `MCApply` | `pkg/apply` | callers, API server and cache together |
| `ApplyProofs` | | theorems about `Apply` |
| `LeaderElection`, `MCLeaderElection` | `leader.go`, `locks/file.go` | electors external |
| `Router`, `MCRouter` | lifecycle in `router.go`, health | election external |
| `LifecycleProofs` | | theorems about `LeaderElection` and `Router` |

Actions are named after the functions, or after the part of a function
between two points where another goroutine can run. Every module begins with
a comment that says what its state stands for. Definitions called "Mutant" are
plausible slips in the code, one per checked property; none of them is part of
a specification, and each makes its property fail. `Router` and `Watcher` carry
their own prefix (`RouterSpec`, `WatchSpec`), as a module of proofs extends each
of them together with another component.

Abstractions worth knowing:

* Delays are "none" or "some"; a delay ends at any time. A rate limiter is a
  count of tokens that fills at any time; the one token that a back-off
  goroutine has reserved is the debt -1.
* In `Controller` a call of `Start` that gets past the `started` test is
  identified by its number, with its own context, queues and WaitGroup. The
  history variables `want` and `handled` count the demand for a key and the
  demand its last invocation that did not fail has seen.
* In `Controller` a delayed item that is added again with a shorter delay is
  one delayed item; `startKeys` is a set, for the queues drop duplicates.
* In `Shared` the slice of handlers is an array and a length, as
  `slices.Delete` works on the array that a running `OnChange` iterates over.
  A mutex is held by the thread whose program counter is between its `Lock` and
  its `Unlock`.
* In `Triggers` registrations form a set of pairs of target and matcher;
  `sync.Map.Range` visits what is there all along and may visit the rest. A
  selector is the set of contents it accepts; the absent object is accepted
  only where there is no selector.
* In `HandlerSet` the handler copies the spec to the status. `save` is modelled
  there for handlers that do not update the object themselves, so the two
  generations are equal; `Chain` has the other branch.
* In `Chain` the handlers of the six routes report a condition, normalise the
  spec with an update, finalize, or forget a removed object.
* In `CacheClient` resource versions are consecutive numbers that reach `newer`
  as decimal strings.
* In `Apply` an object is a function from a few fields to values: the label and
  the annotations of its owner, the owner reference, the switch annotation, one
  mutable and one immutable field. The three-way merge acts on each field. The
  hash of an identity is taken to be injective.
* In `Apply` every caller is in a process of its own, with its own triggers: no
  registration of another caller helps it. The client registers the name of
  every object before it reads or writes it and the selector of every list
  (`client.go`); `Inform` queues the callers whose registrations match what the
  object is now (`matcher.go`). Changes of an object that the informer delivers
  together are one, also a deletion and a creation. `process` triggers and
  forgets names in one step here; `Triggers` has the two steps and what can come
  between them.
* In `Watcher` the revision is the place in the history. Changes of other
  objects move the revision and are not sent.
* In `LeaderElection` a lease expires for an observer only when the holder no
  longer leads: the real elector stops at the renew deadline, half of the lease
  duration. Clock drift beyond that is out of scope. A leader that cannot renew
  in time releases the lock like one whose context ends, before `OnStoppedLeading`
  ends the process; the release may fail.

## Runs

Every configuration bounds the environment (changes, errors, crashes, calls of
`Start`), so the system comes to rest and deadlock checking is off.

| Run | Instance | Result |
|---|---|---|
| `Controller` | one queue, two workers, two keys (one an object) | `TypeOK`, `KeyExclusive`, `WorkerBound`, `NoDemandLost`, `ImplementsReconciler`, `ShutdownDrains` hold |
| `ControllerWait` | one worker | *violated*: `wait.Add` after `wait.Wait` has returned |
| `Shared` | two handler sets, one preloaded and started, one started; a handler watches two more kinds, one without an informer | `TypeOK`, `Delivered`, `FollowerIdle`, `CallsReturn`, `CancelCleans` hold |
| `HandlerSet` | one object, burst 1, two changes, one failure | `TypeOK`, `HandlerExclusive`, `WatchersTold`, `StatusConverges` hold |
| `Chain` | six routes with two finalizers and a foreign one, two changes by users | `TypeOK`, `ConditionCurrent`, `FinalizersRespected`, `Goes`, `RemovalTold` hold |
| `Triggers` | a lists the namespace of b, both are created, changed and deleted; two changes | `TypeOK`, `NoMissedChange`, `NoGhostTargets`, `EventuallyFresh` hold |
| `CacheClient` | one writer, one reader, versions 8 to 11 | `ReadYourWrites`, `NoGhosts` hold |
| `Apply` | two subcontexts of an owner, three objects, two versions of a kind, two faults or edits | `TypeOK`, `RestMeansApplied`, `NoTheft`, `CopiesKept`, `Converges`, `OrphansPurged` hold |
| `Watcher` | five changes, four faults | `ExactlyOnce`, `DeletionReported` hold |
| `LeaderElection` | three replicas, Lease or file, two crashes, one termination or failed renewal | `TypeOK`, `OneLeader`, `OneActive`, `LeaderAgain` hold |
| `Router` | with and without election, two other leaders | `HealthyMeansReady`, `StoppedCloses` hold |
| `RouterHealth` | the same | *violated*: a failed start reports healthy |

`HealthyMeansReady`, `ReadYourWrites` and `ExactlyOnce` contain the type
invariant of their module.

Why the bounds are enough: two keys on one queue are what it takes for a key to
wait behind another, to be requeued while it runs and to share a semaphore (the
theorems cover several queues); two changes per key (`MaxDemand`) let a change
overtake an invocation. In `Shared` two sets register at one controller, so that
a deletion shifts a handler, and a third thread comes from within a handler;
`CancelBound` lets the context end only when every thread has begun its last
call and at most one is under way. One object with its three items exercises
the lock and the limiter with a small burst, as the property only tells "token"
from "no token". Two objects, a watcher and a watched one, are what a
registration relates; the theorems cover any number of objects and changes, and
TLC has checked the invariants of `Triggers` with three changes as well (721217
states; fairness makes that too long for the run). In `Apply` the two subcontexts can want the same object,
one in another version with a change that needs a replacement, and meet an
object without an owner and one with a copied label; two events
(`MaxEvents`) put a fault and an edit, or two faults, into one call, and a
restart before a deletion. Versions start at 8, so that the number of digits changes. In `Watcher` four faults
allow a conflict, a lost connection, a bookmark and a compaction in one wait.
Three replicas with three ends cover two candidates that take over and a holder
that comes back.

### The refinement

`ControllerRefinement` maps `Controller` to `Reconciler`: the phase is `new`,
`serving` or `stopped` by `started` and the contexts; a key is due when there is
demand that no invocation has seen, or it waits in `startKeys` or a queue;
it is busy while a worker is between `Get` and `Done` in the handler. The abstract
specification says that keys become due at any time, that an invocation takes a
due key that is not busy, that a failed one leaves it due, and that only a
stopped controller forgets keys. Its liveness is a leads-to and not fairness of
`Begin`: a due key is begun or the controller stops. It is checked for one call of `Start`
(`MaxStarts` = 1), for the reason given below.

## Limits of the properties

Where a property is stated with a condition, the code does not guarantee it
without, and the model shows why when the condition is dropped:

* `ImplementsReconciler` is checked for one call of `Start`: `run` removes the
  event handler at its end and `c.registration` stays set, so after a second
  `Start` no event handler is registered.
* `NoMissedChange` and `EventuallyFresh` are about `Followed` reads: lists
  without a selector, in the handler of an object that has not been deleted so
  far. `Match` looks at the new labels of a changed object only, so an object
  that leaves a selection triggers nobody (`RestMeansApplied` below). A handler that gets b by name can
  miss that b is created again: `process` deletes the matchers of a removed
  object after it has triggered their targets (`trigger.go:204`), and with them
  a registration made in between, although the comment at line 182 does the
  deletion late to avoid races. The same deletion concerns targets
  (`trigger.go:187`): a is deleted and created again, its handler registers and
  reads once more, then `process` comes to the batch with the removal and
  deletes the new registrations of a, or the map that `register` is about to
  store into; the next change of b does not reach a. That takes three changes
  (delete a, create a, change b).
* `OneLeader` and `OneActive` are stated for Leases. `Update` of the lock file
  does not compare the file with what `Get` returned, so two candidates that
  find it released or expired both acquire it.
* `OneActive` lets the workers of a terminating replica overlap with the next
  leader: `ReleaseOnCancel` releases the lock when the context is cancelled, and
  before the process ends because the lock could not be renewed.
* `LeaderAgain` excepts a lock file that a crash has torn: after a crash between
  opening the file with `O_TRUNC` and writing the record (`file.go:73`), `Get`
  fails to decode it and no replica ever leads again, while
  `docs/guides/leader-election.md:29` describes failover.
* `StoppedCloses` is stated for routers whose elector runs. Without an
  `ElectionConfig` `Run` never calls `signalDone`, and a `Start` that fails to find
  the host name (`router.go:207`) or to make the lock or the elector
  (`leader.go:112`, `142`) returns before there is an elector to call it:
  without the condition TLC finds the channel open for ever, although
  `docs/packages/router.md:107` promises one "that is closed when the router has
  stopped".
* `Delivered` is about calls that have returned without an error. A kind whose
  fields are indexed can be watched by one set only: `AddIndexers` refuses the
  indexers of the second one (`backend.go:143`), and of the same set when it tries
  again after a failed `Start`.
* `FollowerIdle` is checked with at most one set that is only preloaded. If two
  routers share a Backend (`Options.Backend` in `router.go`) and both are
  followers, the `Preload` of the first sets `started` (`backend.go:76`), and the
  second starts its controllers.
* `CallsReturn` and `CancelCleans` except `panicked`: after the end of the context
  `slices.Delete` clears an entry that a running `OnChange` may still read
  (`sharedhandler.go:55`): TLC finds a state of `Shared` in which `panicked` holds,
  so the "no panics" and "no data races" of `SECURITY.md:96` and `121` fail at that
  moment.
* `Goes` excepts objects whose labels no longer match: a route with a selector
  and a finalizer filters them out, and nobody removes its finalizer.
* `NoTheft` holds when an object without an owner is wanted by one caller only
  and `Ensure` is not used for managed objects: creations that lose and patches
  have no precondition on the owner. Likewise a prune may delete an object that
  another owner has taken since the list was read; the other owner's next
  call creates it again, as `RestMeansApplied` says.
* `RestMeansApplied` leaves out the objects in `missed`. `Apply` lists by label;
  an object that was removed or has lost the label matches no selector
  (`matcher.go:59-68`), so only a registration of its name queues the caller, and
  a process registers the names it writes and the ones it gets after a creation
  failed. After a restart that finds everything in place there are none: a
  deletion then goes unnoticed until the caller is queued for something else.
  In the instance of the run TLC finds a deletion after a restart that nobody
  repairs, while `docs/architecture/overview.md:376-378` calls the framework
  level-triggered. `LevelTriggered` leaves nothing out: it is what
  `EnsuredAtRest` proves of `Ensure`, which reads its objects by name. It is the
  property of no run; TLC has checked it for `Ensure` with two objects and four
  faults, edits or deletions (36262 states).
* `RestMeansApplied` says that wanted fields have their values. A field that is
  no longer wanted may stay when the applied annotation was read from a
  cache that lags.
* `filterCrossVersion` (`desiredset_process.go:137`) compares keys whose empty
  namespace has been replaced by the default namespace only; when the owner is
  in another namespace an object that moves between versions is pruned under
  the old one. The instance has the owner in the default namespace.
* `DeletionReported` is for callers that have seen the object. One that lists
  after the deletion waits until its context ends.

## Fairness

Goroutines that can run do run (weak fairness of each goroutine's steps),
timers fire, informers sync and notify. Nobody has to change an object, cancel a
context or call `Start`. `Triggers` also assumes that handlers and reads
do not fail forever (strong fairness of their success), without which no
framework makes progress; `HandlerSet`, `Chain`, `Apply` and `Watcher` bound the
failures instead. `Shared` needs less than a fair scheduler: somebody moves as
long as anybody can. `Chain` and `Apply` assume that the other controllers remove
their finalizers. `Router` assumes that a goroutine waiting for a mutex gets it
eventually (strong fairness of `Done`), as Go's mutexes guarantee by their
starvation mode. `LeaderElection` assumes that dead replicas are restarted, as a
deployment does.

## Proofs

*ControllerProofs.* `TypeOK`, `KeyExclusive` and `WorkerBound` hold for every
set of keys, splitter, number of workers, queues, starts and goroutines
(`ControllerAssumption`). Neither is inductive. The invariant `Inv` adds what
connects a queue to the goroutines that took its items: `QueuesOk` (an item of
the FIFO is there once, dirty and not in process), `DispOk` (the item a dispatcher
holds is in process and no worker has it), `WorkerOk` (the key of a worker
between `Get` and `Done` is in process, of a started run), `FreshRuns` (a run
that has not begun has empty queues and no goroutines), `TokensOk` (the
semaphore of a queue counts its workers and a dispatcher that has acquired) and
`WaitGroupOk` (the WaitGroup counts the workers). Exclusion then follows because
`Get` hands out only items that are not in process; the bound follows because
a token is taken before a worker exists and given back after it has ended.
There is a lemma per operation of the work queue and per action.

*HandlerSetProofs.* `TypeOK`, `HandlerExclusive` and `WatchersTold` hold for
every set of objects, contents and burst. `Inv` adds `DebtOk` (a limiter owes a
token only while its key backs off), `LockOk` (exactly the call that holds the
lock of an object is past it), `ArgOk` and `StaleOk` (which objects calls hold
that differ from the cache, and who will come after them) and `ToldOk` (the
strengthening of `WatchersTold` by the calls that hold the lock).

*ControllerProofs, the demand.* `NoDemandLost` holds for any number of starts, and
for one call of `Start` every step of `Controller` is a step of `Reconciler`
(`RefinesReconciler`, `Spec => Abstract!Safety`). `DemandInv` adds to `Inv` that
no invocation has seen more than there was (`HandledOk`) and that, as long as no
context is cancelled, there is one run whose queues are open and are the ones
keys are enqueued to (`OnlyRun`). A lemma per work queue operation says which
keys wait before and after it, a lemma per action where a remembered key is
afterwards. For the refinement each action is shown to leave the set of due keys
and the keys in the handler alone or to be `Demand`, `Begin`, `End`, `Fail`, `Serve`,
`Stop` or `Drop`. `MaxStarts` = 1 is needed because `KeyExclusive` is per run: the
workers of two runs could have the same key in the handler. The leads-to half of
`ImplementsReconciler` is model-checked.

*TriggersProofs.* `TypeOK`, `NoMissedChange` and `NoGhostTargets` hold for every
set of objects, contents and reads and any number of changes. `Inv` adds
`PresentOk` (an object that was never deleted is nowhere recorded as removed),
`CallOk` (an object deleted during its call has an event behind it),
`GoroutineOk` (the goroutine rests only with nothing to trigger), `RegisteredOk`
(a call that is past a registration is registered), `FreshOk` and `GhostOk`.
`FreshOk` is where the difficulty is: a batch that is being processed may pass
over a registration or a kind that is newer than the batch, so "the change is in
the batch" is not enough; `Coming` says that the kind was there when the batch
was taken and the registration when the kind was begun. A registration that is
passed over is younger than the change, hence so is its read.

*LifecycleProofs, the election.* `TypeOK`, `OneLeader` and `OneActive` hold for any number
of replicas, crashes, restarts and terminations. With Leases the record names
whoever leads (`LeaderHolds`); a replica that has seen a lease expire or is about
to update the version it read may take the lock until somebody writes it
(`ExpiredOk`, `UpdateOk`), as the server compares versions; `ReleaseOk` and
`ActiveOk` say who releases and who still reconciles.

*ObjectServerProofs, the watcher.* `ExactlyOnce` holds for histories of any length and any number
of faults. The revision a watch is opened from, `lastRevision` and what the open
watch has sent are all the place of the callback (`Synchronised`), and between
that and the event the callback has been given there is no change of the object
(`InOrder`).

*LifecycleProofs, the router.* `HealthyMeansReady` holds for any number of changes of the leader.
Whoever holds `startLock` has set the entry to not healthy (`LockOk`), and a
start that ended well has loaded the caches (`LoadedOk`).

*ObjectServerProofs, the routes.* `TypeOK` and the action property
`FinalizersRespected` of `Chain` hold for any list of routes with any filters and
finalizers and any number of edits. `ChainInv` says what the server guarantees
about the history (`LogOk`: versions are places in it and no finalizer is there
twice; `HistoryOk`: a deletion is not taken back and finalizers only go from then
on), what a copy that a call works on can be (`CopiesOk`: one with the current
version differs from the object in the condition at most, every other one is
refused as stale), and where a call can be (`CallOk`: a finalizer handler that is
about to remove its finalizer is the first in the list and has cleaned up).

*SharedProofs.* `TypeOK`, `Delivered` and `FollowerIdle` hold for any sets, kinds,
objects and threads, whatever the threads call. `Base` is about types, the
slice of handlers in its array (`SliceOk`), the places of the threads (`PcOk`) and
`watchingLock` (`LockOk`). Until the context ends, `Live` adds who is registered
(`RegisteredOk`), that an `OnChange` under way sees the entries the slice had
when it began even after an `append` (`WorkOk`), and the two halves of `Delivered`:
`ReachOk`, every object of a started kind has reached each registered set, or is
due, or an `OnChange` is before that entry, or `RegisterHandler` has yet to list;
and `StartOk` with `BackendOk`, every watched kind is started or a `Start` will do
it, as `HasStarted` said. `FollowerIdle` is for one preloaded set (`OneFollower`):
the `Preload` of a second one on the same `Backend` finds it marked as started and
starts the kinds of that set.

*ApplyProofs.* `TypeOK` holds for any callers, kinds, sets and numbers of events,
and `RestMeansApplied`, and `LevelTriggered` if no caller has an identity
(`EnsuredAtRest`), for those that use the package as it is meant to be used
(`Regular`: the kinds to prune are those that callers with an identity ever
apply; what `filterCrossVersion` keeps is wanted; who is not due at first has
nothing). The second clause excludes what an owner outside the default namespace
can meet: an object of the same name in the default namespace counts as wanted
and is kept. `MCApply` satisfies `Regular`. `RestMeansApplied` speaks only of
callers at rest, so the invariant follows a call: `Base` has the types, what the
requests of a call can be and that cache and server differ only where news are
under way; `Live` says of every object that the caller wants and that is as the
informer has delivered it (`Fresh`) that it is settled or in `missed`, or the call
has not come to its kind yet, or a request is pending that will change the object
or fail (`WantAt`, `Pending`), and the same of what is to be pruned (`PruneAt`).
`Told` is why a change makes the caller due: what a caller that is not due has
listed, it has registered (`ListedAt`), and what it wants and did not find by its
label it has registered by name, or will when it creates it, unless the object has
left the set without a word (`FoundAt`).
A patch whose base has become stale
is no such request, but then there are news, and the caller is not `Fresh`. That
a patch that is not empty changes the object, if only its applied annotation, is
`PatchedDiffers`; that no patch means nothing to do is `NoPatchOk`.

*CacheClientProofs.* `ReadYourWrites` holds for any number of readers and
versions up to two digits (`CacheClientAssumption`), under `OneTimelyWriter`: one
goroutine writes the object, and the informer is not later than the lifetime of
an entry. Both are needed. Two writers of a process race for the entry of
`recent` (`cached.go:106`), and after the purge only the informer is left to ask.
`NewerIsLess` shows that `newer`, which compares strings of equal length as
strings, compares numbers.

The invariants were checked with TLC before they were proved. Proofs use no
assumption besides the ones named in the modules and the hypotheses above.

Model-checked only: everything under fairness (`EventuallyFresh`, `ShutdownDrains`,
`StatusConverges`, `LeaderAgain`, `StoppedCloses`, `DeletionReported`, `NoGhosts`,
the liveness of `Reconciler` and the leads-to properties of `Shared`, `Chain` and
`Apply`), which the prover does not cover. `ConditionCurrent` depends on the routes
of the instance: another order of reporting and updating handlers ends with
another condition. `NoTheft` and `CopiesKept` are about the owners of the
instance: patches and deletions have no precondition, so when two callers that
may not take over from each other both find an object without an owner, the
later patch wins.

## Not modelled

* `pkg/mapper` and `pkg/webhook`: functions of their input without state; the
  mapper is a chain of data transformations, the webhook router takes the first
  route that matches.
* `BySelector` of the watcher (`ByObject` for several objects), the writes of
  `client.go` that register like its reads, a second router in a
  process (it shares the health entry of the first, `router.go:257`),
  `HandlerTransaction`, which nothing in the repository opens.
* The registration of an object with a generated name (`client.go:81`), which
  happens only when its creation failed.
* Merge and patch of JSON documents, the compression of the applied annotation.
* Construction of clients, logging and tracing, YAML and data helpers, the HTTP
  server for health, the test harness and generators: they hold no protocol.
* Left out although they are visible in the code: a trigger passes the limiter
  that its key is backing off in (`handler.go:271`); the channel of `Stopped`
  closes before the workers have drained (`router.go:242`); a `Delete` leaves no
  mark, so the cache serves the object a little longer (`cached.go:207`); two
  writers of one process race for the entry of the recent map (`cached.go:106`);
  `RegisterHandler` drops the error of the first listing, after which its deferred
  function deregisters the handler for good (`sharedcontroller.go:124-130`, `160`).
