------------------------------ MODULE Controller ------------------------------
(***************************************************************************)
(* The controller of pkg/runtime/controller.go: Start and its wait for the *)
(* informer cache, run, the dispatcher goroutine of every work queue, the  *)
(* worker goroutines it spawns, shutdown when the context is cancelled,    *)
(* and the four ways a key is enqueued.                                    *)
(*                                                                         *)
(* Every call of Start that gets past the "started" test has a context and *)
(* possibly a run goroutine of its own; both are identified by the number  *)
(* of the call.                                                            *)
(***************************************************************************)
EXTENDS Naturals, Sequences, FiniteSets, Workqueue

CONSTANTS Keys,        \* the keys of the work queues
          NoKey,       \* "no item", for idle goroutines
          Objects,     \* those that are keys of objects of the informer
          NumQueues,   \* splitter.Queues()
          Split,       \* splitter.Split(key)
          Workers,     \* the workers argument of Start
          Goroutines,  \* identities for the worker goroutines
          MaxStarts,   \* bound: calls of Start
          MaxDemand    \* bound: changes and enqueues of one key

Queues == 1..NumQueues
Starts == 1..MaxStarts

ASSUME ControllerAssumption ==
    /\ Objects \subseteq Keys
    /\ NoKey \notin Keys
    /\ NumQueues \in Nat \ {0}
    /\ Split \in [Keys -> Queues]
    /\ Workers \in Nat
    /\ IsFiniteSet(Goroutines)
    /\ MaxStarts \in Nat
    /\ MaxDemand \in Nat

VARIABLES
    startLock,     \* holder of c.startLock across steps: free, start or run
    attempt,       \* the number of the last call of Start
    ctxDone,       \* ctxDone[n]: the context of call n is cancelled
    started,       \* c.started
    current,       \* the run whose queues c.workqueues holds, 0 for nil
    startKeys,     \* c.startKeys
    registration,  \* c.registration, and whether the informer still has it
    cache,         \* the informer cache: new, started or synced
    notify,        \* objects the informer has yet to call handleObject for
    runPc,         \* control point of the run goroutine
    wq,            \* wq[n][q]: work queue q of run n
    disp,          \* disp[n][q]: the dispatcher goroutine of that queue
    running,       \* running[n][q]: tokens in the dispatcher's semaphore
    wg,            \* wg[n]: the WaitGroup of run n
    worker,        \* the worker goroutines
    want,          \* history: how often each key was changed or enqueued
    handled        \* history: want as the last invocation that did not fail saw it

ctlVars == <<startLock, attempt, ctxDone, started, registration, cache>>
queueVars == <<current, startKeys, wq>>
workVars == <<disp, running, wg, worker>>
vars == <<ctlVars, queueVars, workVars, notify, runPc, want, handled>>

\* workers / len(c.workqueues), at least 1
PerQueue == IF Workers \div NumQueues = 0 THEN 1 ELSE Workers \div NumQueues

StartKey == [key : Keys, after : BOOLEAN]
RunPc == {"none", "init", "fill", "workers", "ended", "deregister", "gone"}
DispPc == {"off", "get", "acquire", "check", "add", "exited"}
WorkerPc == {"idle", "start", "sync", "done", "release"}

Idle == [pc |-> "idle", run |-> 0, key |-> NoKey]

-------------------------------------------------------------------------------
Init ==
    /\ startLock = "free"
    /\ attempt = 0
    /\ ctxDone = [n \in Starts |-> FALSE]
    /\ started = FALSE
    /\ current = 0
    /\ startKeys = {}
    /\ registration = "nil"
    /\ cache = "new"
    /\ notify = {}
    /\ runPc = [n \in Starts |-> "none"]
    /\ wq = [n \in Starts |-> [q \in Queues |-> NewQueue]]
    /\ disp = [n \in Starts |-> [q \in Queues |-> [pc |-> "off", item |-> NoKey]]]
    /\ running = [n \in Starts |-> [q \in Queues |-> 0]]
    /\ wg = [n \in Starts |-> 0]
    /\ worker = [g \in Goroutines |-> Idle]
    /\ want = [k \in Keys |-> 0]
    /\ handled = [k \in Keys |-> 0]

-------------------------------------------------------------------------------
(* Start                                                                   *)

\* Start takes startLock and keeps it until it returns.  A nil registration
\* is replaced by a new one, for which the informer replays the objects it
\* already knows; a cache that has not synced is started.
StartBegin ==
    /\ startLock = "free"
    /\ ~started
    /\ attempt < MaxStarts
    /\ attempt' = attempt + 1
    /\ startLock' = "start"
    /\ registration' = IF registration = "nil" THEN "active" ELSE registration
    /\ notify' = IF registration = "nil" THEN notify \cup {k \in Objects : want[k] > 0}
                 ELSE notify
    /\ cache' = IF cache = "new" THEN "started" ELSE cache
    /\ UNCHANGED <<ctxDone, started, queueVars, workVars, runPc, want, handled>>

\* WaitForCacheSync succeeds: start the run goroutine and return nil.
StartSynced ==
    /\ startLock = "start"
    /\ cache = "synced"
    /\ runPc' = [runPc EXCEPT ![attempt] = "init"]
    /\ started' = TRUE
    /\ startLock' = "free"
    /\ UNCHANGED <<attempt, ctxDone, registration, cache, queueVars, workVars,
                   notify, want, handled>>

\* WaitForCacheSync gives up because the context is done: return an error.
StartCancelled ==
    /\ startLock = "start"
    /\ ctxDone[attempt]
    /\ startLock' = "free"
    /\ UNCHANGED <<attempt, ctxDone, started, registration, cache, queueVars,
                   workVars, notify, runPc, want, handled>>

\* The owner of the context of call n cancels it.
Cancel(n) ==
    /\ n <= attempt
    /\ ~ctxDone[n]
    /\ ctxDone' = [ctxDone EXCEPT ![n] = TRUE]
    /\ UNCHANGED <<startLock, attempt, started, registration, cache, queueVars,
                   workVars, notify, runPc, want, handled>>

-------------------------------------------------------------------------------
(* The informer                                                            *)

CacheSync ==
    /\ cache = "started"
    /\ cache' = "synced"
    /\ UNCHANGED <<startLock, attempt, ctxDone, started, registration, queueVars,
                   workVars, notify, runPc, want, handled>>

\* An object is added to, updated in or deleted from the informer's cache.
Change(k) ==
    /\ cache # "new"
    /\ want[k] < MaxDemand
    /\ want' = [want EXCEPT ![k] = @ + 1]
    /\ notify' = IF registration = "active" THEN notify \cup {k} ELSE notify
    /\ UNCHANGED <<ctlVars, queueVars, workVars, runPc, handled>>

\* A notification of a listener that was removed may be dropped.
DropNotification(k) ==
    /\ k \in notify
    /\ registration = "removed"
    /\ notify' = notify \ {k}
    /\ UNCHANGED <<ctlVars, queueVars, workVars, runPc, want, handled>>

-------------------------------------------------------------------------------
(* Enqueueing                                                              *)

\* Before the queues exist a key is kept in startKeys.
EnqueueTo(k, after) ==
    /\ startLock = "free"
    /\ IF current = 0
       THEN /\ startKeys' = startKeys \cup {[key |-> k, after |-> after]}
            /\ UNCHANGED wq
       ELSE /\ wq' = [wq EXCEPT ![current][Split[k]] = AddAfter(@, k, after)]
            /\ UNCHANGED startKeys
    /\ UNCHANGED current

\* handleObject and enqueue, called by the informer.
HandleObject(k) ==
    /\ k \in notify
    /\ notify' = notify \ {k}
    /\ EnqueueTo(k, FALSE)
    /\ UNCHANGED <<ctlVars, workVars, runPc, want, handled>>

\* EnqueueKey, EnqueueKeyAfter, Enqueue and EnqueueAfter
EnqueueKeyAfter(k, after) ==
    /\ want[k] < MaxDemand
    /\ want' = [want EXCEPT ![k] = @ + 1]
    /\ EnqueueTo(k, after)
    /\ UNCHANGED <<ctlVars, workVars, notify, runPc, handled>>

-------------------------------------------------------------------------------
(* run                                                                     *)

\* Mutant: the start keys are cleared before they are moved to the queues.
RunCreateQueuesClearsFirst(n) ==
    /\ runPc[n] = "init"
    /\ startLock = "free"
    /\ startLock' = "run"
    /\ current' = n
    /\ startKeys' = {}
    /\ wq' = [wq EXCEPT ![n] = [q \in Queues |-> NewQueue]]
    /\ runPc' = [runPc EXCEPT ![n] = "fill"]
    /\ UNCHANGED <<attempt, ctxDone, started, registration, cache, workVars,
                   notify, want, handled>>

\* run takes startLock and creates the queues.
RunCreateQueues(n) ==
    /\ runPc[n] = "init"
    /\ startLock = "free"
    /\ startLock' = "run"
    /\ current' = n
    /\ wq' = [wq EXCEPT ![n] = [q \in Queues |-> NewQueue]]
    /\ runPc' = [runPc EXCEPT ![n] = "fill"]
    /\ UNCHANGED <<attempt, ctxDone, started, registration, cache, startKeys,
                   workVars, notify, want, handled>>

\* One iteration of the loop that moves the start keys to the queues.
RunAddStartKey(n, s) ==
    /\ runPc[n] = "fill"
    /\ s \in startKeys
    /\ startKeys' = startKeys \ {s}
    /\ wq' = [wq EXCEPT ![n][Split[s.key]] = AddAfter(@, s.key, s.after)]
    /\ UNCHANGED <<ctlVars, current, workVars, notify, runPc, want, handled>>

\* run releases startLock; runWorkers starts one dispatcher per queue.
RunStartWorkers(n) ==
    /\ runPc[n] = "fill"
    /\ startKeys = {}
    /\ startLock' = "free"
    /\ runPc' = [runPc EXCEPT ![n] = "workers"]
    /\ disp' = [disp EXCEPT ![n] = [q \in Queues |-> [pc |-> "get", item |-> NoKey]]]
    /\ UNCHANGED <<attempt, ctxDone, started, registration, cache, queueVars,
                   running, wg, worker, notify, want, handled>>

\* <-ctx.Done(), then one ShutDown per queue.
RunShutDownQueue(n, q) ==
    /\ runPc[n] = "workers"
    /\ ctxDone[n]
    /\ ~wq[n][q].down
    /\ wq' = [wq EXCEPT ![n][q] = ShutDown(@)]
    /\ UNCHANGED <<ctlVars, current, startKeys, workVars, notify, runPc, want, handled>>

\* The deferred wait.Wait() returns, and with it runWorkers.
RunWait(n) ==
    /\ runPc[n] = "workers"
    /\ \A q \in Queues : wq[n][q].down
    /\ wg[n] = 0
    /\ runPc' = [runPc EXCEPT ![n] = "ended"]
    /\ UNCHANGED <<ctlVars, queueVars, workVars, notify, want, handled>>

RunEnd(n) ==
    /\ runPc[n] = "ended"
    /\ startLock = "free"
    /\ started' = FALSE
    /\ runPc' = [runPc EXCEPT ![n] = "deregister"]
    /\ UNCHANGED <<startLock, attempt, ctxDone, registration, cache, queueVars,
                   workVars, notify, want, handled>>

\* The deferred RemoveEventHandler, after startLock was released.
\* c.registration keeps its value.
RunDeregister(n) ==
    /\ runPc[n] = "deregister"
    /\ registration' = "removed"
    /\ runPc' = [runPc EXCEPT ![n] = "gone"]
    /\ UNCHANGED <<startLock, attempt, ctxDone, started, cache, queueVars,
                   workVars, notify, want, handled>>

-------------------------------------------------------------------------------
(* The dispatcher goroutine of queue q of run n                            *)

\* queue.Get() returns an item.
DispatchGet(n, q) ==
    /\ disp[n][q].pc = "get"
    /\ wq[n][q].queue # << >>
    /\ disp' = [disp EXCEPT ![n][q] = [pc |-> "acquire", item |-> Head(wq[n][q].queue)]]
    /\ wq' = [wq EXCEPT ![n][q] = Get(@)]
    /\ UNCHANGED <<ctlVars, current, startKeys, running, wg, worker, notify,
                   runPc, want, handled>>

\* queue.Get() reports that the queue was shut down and is empty.
DispatchShutdown(n, q) ==
    /\ disp[n][q].pc = "get"
    /\ wq[n][q].queue = << >>
    /\ wq[n][q].down
    /\ disp' = [disp EXCEPT ![n][q] = [pc |-> "exited", item |-> NoKey]]
    /\ UNCHANGED <<ctlVars, queueVars, running, wg, worker, notify, runPc, want, handled>>

\* Mutant: the semaphore does not block.
DispatchAcquireAlways(n, q) ==
    /\ disp[n][q].pc = "acquire"
    /\ running' = [running EXCEPT ![n][q] = @ + 1]
    /\ disp' = [disp EXCEPT ![n][q].pc = "check"]
    /\ UNCHANGED <<ctlVars, queueVars, wg, worker, notify, runPc, want, handled>>

\* Mutant: no token is put into the semaphore.
DispatchAcquireNoToken(n, q) ==
    /\ disp[n][q].pc = "acquire"
    /\ running[n][q] < PerQueue
    /\ disp' = [disp EXCEPT ![n][q].pc = "check"]
    /\ UNCHANGED <<ctlVars, queueVars, running, wg, worker, notify, runPc, want, handled>>

\* running <- struct{}{}
DispatchAcquire(n, q) ==
    /\ disp[n][q].pc = "acquire"
    /\ running[n][q] < PerQueue
    /\ running' = [running EXCEPT ![n][q] = @ + 1]
    /\ disp' = [disp EXCEPT ![n][q].pc = "check"]
    /\ UNCHANGED <<ctlVars, queueVars, wg, worker, notify, runPc, want, handled>>

\* if queue.ShuttingDown() { return }: the item is dropped.
DispatchCheck(n, q) ==
    /\ disp[n][q].pc = "check"
    /\ disp' = [disp EXCEPT ![n][q] = IF wq[n][q].down
                                      THEN [pc |-> "exited", item |-> NoKey]
                                      ELSE [@ EXCEPT !.pc = "add"]]
    /\ UNCHANGED <<ctlVars, queueVars, running, wg, worker, notify, runPc, want, handled>>

\* wait.Add(1) and the go statement.  Goroutines are interchangeable: the new
\* one takes a fixed name among the free ones.
DispatchSpawn(n, q, g) ==
    /\ disp[n][q].pc = "add"
    /\ worker[g].pc = "idle"
    /\ g = CHOOSE f \in Goroutines : worker[f].pc = "idle"
    /\ wg' = [wg EXCEPT ![n] = @ + 1]
    /\ worker' = [worker EXCEPT ![g] = [pc |-> "start", run |-> n, key |-> disp[n][q].item]]
    /\ disp' = [disp EXCEPT ![n][q] = [pc |-> "get", item |-> NoKey]]
    /\ UNCHANGED <<ctlVars, queueVars, running, notify, runPc, want, handled>>

\* The delay of an AddAfter or AddRateLimited ends.
DelayEnds(n, q, k) ==
    /\ k \in wq[n][q].delayed
    /\ ~wq[n][q].down
    /\ wq' = [wq EXCEPT ![n][q] = Mature(@, k)]
    /\ UNCHANGED <<ctlVars, current, startKeys, workVars, notify, runPc, want, handled>>

-------------------------------------------------------------------------------
(* Worker goroutine g: processSingleItem                                   *)

\* Mutant: queue.Done(obj) is called at once instead of being deferred.
SyncHandlerDoneFirst(g) ==
    /\ worker[g].pc = "start"
    /\ worker' = [worker EXCEPT ![g].pc = "sync"]
    /\ handled' = [handled EXCEPT ![worker[g].key] = want[worker[g].key]]
    /\ wq' = [wq EXCEPT ![worker[g].run][Split[worker[g].key]] = Done(@, worker[g].key)]
    /\ UNCHANGED <<ctlVars, current, startKeys, disp, running, wg, notify, runPc, want>>

\* syncHandler reads the object from the cache, unless the key is a special
\* key, and calls the handler.
SyncHandler(g) ==
    /\ worker[g].pc = "start"
    /\ worker' = [worker EXCEPT ![g].pc = "sync"]
    /\ handled' = [handled EXCEPT ![worker[g].key] = want[worker[g].key]]
    /\ UNCHANGED <<ctlVars, queueVars, disp, running, wg, notify, runPc, want>>

\* The handler succeeds: Forget only resets the rate limiter.
SyncOk(g) ==
    /\ worker[g].pc = "sync"
    /\ worker' = [worker EXCEPT ![g].pc = "done"]
    /\ UNCHANGED <<ctlVars, queueVars, disp, running, wg, notify, runPc, want, handled>>

\* Mutant: a failed key is not requeued.
SyncErrorForgets(g) ==
    /\ worker[g].pc = "sync"
    /\ worker' = [worker EXCEPT ![g].pc = "done"]
    /\ handled' = [handled EXCEPT ![worker[g].key] = 0]
    /\ UNCHANGED <<ctlVars, queueVars, disp, running, wg, notify, runPc, want>>

\* The cache read or the handler fails: AddRateLimited.
SyncError(g) ==
    LET k == worker[g].key
        n == worker[g].run
    IN  /\ worker[g].pc = "sync"
        /\ wq' = [wq EXCEPT ![n][Split[k]] = AddAfter(@, k, TRUE)]
        /\ worker' = [worker EXCEPT ![g].pc = "done"]
        /\ handled' = [handled EXCEPT ![k] = 0]
        /\ UNCHANGED <<ctlVars, current, startKeys, disp, running, wg, notify, runPc, want>>

\* The deferred queue.Done(obj)
QueueDone(g) ==
    LET k == worker[g].key
        n == worker[g].run
    IN  /\ worker[g].pc = "done"
        /\ wq' = [wq EXCEPT ![n][Split[k]] = Done(@, k)]
        /\ worker' = [worker EXCEPT ![g].pc = "release"]
        /\ UNCHANGED <<ctlVars, current, startKeys, disp, running, wg, notify,
                       runPc, want, handled>>

\* Mutant: the token is not taken out of the semaphore.
ReleaseKeepsToken(g) ==
    /\ worker[g].pc = "release"
    /\ wg' = [wg EXCEPT ![worker[g].run] = @ - 1]
    /\ worker' = [worker EXCEPT ![g] = Idle]
    /\ UNCHANGED <<ctlVars, queueVars, disp, running, notify, runPc, want, handled>>

\* <-running and wait.Done()
Release(g) ==
    LET n == worker[g].run
        q == Split[worker[g].key]
    IN  /\ worker[g].pc = "release"
        /\ running' = [running EXCEPT ![n][q] = @ - 1]
        /\ wg' = [wg EXCEPT ![n] = @ - 1]
        /\ worker' = [worker EXCEPT ![g] = Idle]
        /\ UNCHANGED <<ctlVars, queueVars, disp, notify, runPc, want, handled>>

-------------------------------------------------------------------------------
Start == StartBegin \/ StartSynced \/ StartCancelled

Informer == CacheSync \/ \E k \in Objects : Change(k) \/ DropNotification(k) \/ HandleObject(k)

Run(n) ==
    \/ RunCreateQueues(n) \/ RunStartWorkers(n)
    \/ \E s \in StartKey : RunAddStartKey(n, s)
    \/ \E q \in Queues : RunShutDownQueue(n, q)
    \/ RunWait(n) \/ RunEnd(n) \/ RunDeregister(n)

Dispatch(n, q) ==
    \/ DispatchGet(n, q) \/ DispatchShutdown(n, q) \/ DispatchAcquire(n, q)
    \/ DispatchCheck(n, q) \/ \E g \in Goroutines : DispatchSpawn(n, q, g)

Work(g) == SyncHandler(g) \/ SyncOk(g) \/ SyncError(g) \/ QueueDone(g) \/ Release(g)

Next ==
    \/ Start
    \/ Informer
    \/ \E n \in Starts : Cancel(n) \/ Run(n)
    \/ \E k \in Keys, after \in BOOLEAN : EnqueueKeyAfter(k, after)
    \/ \E n \in Starts, q \in Queues : Dispatch(n, q) \/ \E k \in Keys : DelayEnds(n, q, k)
    \/ \E g \in Goroutines : Work(g)

\* Goroutines that can run do run, handlers return, timers fire and informers
\* sync and notify.  Nobody has to call Start, cancel a context, change an
\* object or enqueue a key.
Fairness ==
    /\ WF_vars(StartSynced \/ StartCancelled)
    /\ WF_vars(CacheSync)
    /\ \A k \in Objects : WF_vars(HandleObject(k))
    /\ \A n \in Starts : WF_vars(Run(n))
    /\ \A n \in Starts, q \in Queues : WF_vars(Dispatch(n, q))
    /\ \A n \in Starts, q \in Queues, k \in Keys : WF_vars(DelayEnds(n, q, k))
    /\ \A g \in Goroutines : WF_vars(Work(g))

Spec == Init /\ [][Next]_vars
FairSpec == Spec /\ Fairness

-------------------------------------------------------------------------------
(* Properties                                                              *)

\* The values the fields of the controller and its goroutines can hold.
TypeOK ==
    /\ startLock \in {"free", "start", "run"}
    /\ attempt \in 0..MaxStarts
    /\ ctxDone \in [Starts -> BOOLEAN]
    /\ started \in BOOLEAN
    /\ current \in 0..MaxStarts
    /\ startKeys \subseteq StartKey
    /\ registration \in {"nil", "active", "removed"}
    /\ cache \in {"new", "started", "synced"}
    /\ notify \subseteq Objects
    /\ runPc \in [Starts -> RunPc]
    /\ wq \in [Starts -> [Queues -> WQType(Keys)]]
    /\ disp \in [Starts -> [Queues -> [pc : DispPc, item : Keys \cup {NoKey}]]]
    /\ running \in [Starts -> [Queues -> Nat]]
    /\ wg \in [Starts -> Nat]
    /\ worker \in [Goroutines -> [pc : WorkerPc, run : 0..MaxStarts, key : Keys \cup {NoKey}]]
    /\ want \in [Keys -> 0..MaxDemand]
    /\ handled \in [Keys -> 0..MaxDemand]

\* Worker goroutine g owns its key: it has been handed out and not given back.
Owns(g) == worker[g].pc \in {"start", "sync", "done"}

\* No two goroutines of a run work on the same key at the same time, however
\* often the key is enqueued, delayed and requeued while the handler runs.
KeyExclusive ==
    \A g, h \in Goroutines :
        /\ Owns(g) /\ Owns(h)
        /\ worker[g].run = worker[h].run
        /\ worker[g].key = worker[h].key
        => g = h

Busy(n, q) == {g \in Goroutines : /\ worker[g].pc # "idle"
                                  /\ worker[g].run = n
                                  /\ Split[worker[g].key] = q}

\* The semaphore limits the workers of every queue to its share of the
\* workers argument of Start, and to one when the share would be zero.
WorkerBound ==
    \A n \in Starts, q \in Queues : Cardinality(Busy(n, q)) <= PerQueue

\* Key k is somewhere on its way to an invocation of the handler.
Pending(k) ==
    \/ k \in notify
    \/ \E s \in startKeys : s.key = k
    \/ /\ current # 0
       /\ \/ k \in wq[current][Split[k]].dirty \cup wq[current][Split[k]].delayed
          \/ /\ disp[current][Split[k]].pc \in {"acquire", "check", "add"}
             /\ disp[current][Split[k]].item = k
    \/ \E g \in Goroutines : worker[g].pc = "start" /\ worker[g].key = k

\* While no context has been cancelled, a key that was changed, enqueued or
\* failed since its last invocation is never lost: not before the queues
\* exist, not while they are filled, not while its worker is running.
NoDemandLost ==
    (\A n \in Starts : ~ctxDone[n])
    => \A k \in Keys :
          handled[k] # want[k] /\ (k \in Objects => registration # "nil") => Pending(k)

\* wait.Wait() returns only when every worker is done, and no worker is
\* added to the WaitGroup afterwards: run ends with no handler in flight.
NoWorkerAfterWait ==
    \A n \in Starts : runPc[n] \in {"ended", "deregister", "gone"} => wg[n] = 0

\* Cancelling the context ends the run goroutine, its dispatchers and its
\* workers: none of them stays blocked on the queue or on the semaphore.
ShutdownDrains ==
    \A n \in Starts :
        (ctxDone[n] /\ runPc[n] # "none")
        ~> /\ runPc[n] = "gone"
           /\ \A q \in Queues : disp[n][q].pc = "exited"
           /\ \A g \in Goroutines : worker[g].run # n
===============================================================================
