------------------------------- MODULE Shared -------------------------------
(* pkg/runtime: the shared controllers, one per kind, which the factory      *)
(* creates when somebody first needs them; their list of handlers; and the   *)
(* Backend, which starts them.  Handler sets of one process and one context  *)
(* share a Backend.  A thread is a goroutine that preloads or starts a       *)
(* handler set, or a handler that comes to watch another kind on the way.    *)
(*                                                                           *)
(*   thr        what each thread is doing, see Idle                          *)
(*   made       the kinds with a shared controller                           *)
(*   ctrl       its controller: not there yet, there, or an errorController  *)
(*   started    the flag of the shared controller                            *)
(*   running    the controller runs: its flag, event handler and worker      *)
(*   arr, len   the handlers of a kind: a slice and its backing array        *)
(*   watching   <<set, kind>> as HandlerSet.watching has it                  *)
(*   backend    the flag of the Backend                                      *)
(*   cacheOn, synced, cached   the informer cache                            *)
(*   due, work, seen           keys of a kind, the OnChange that processes   *)
(*              one of them, and which set has seen which object             *)
(*                                                                           *)
(* A mutex is held by the thread that is between its Lock and its Unlock.    *)
EXTENDS Naturals, Sequences, SequencesExt

CONSTANTS Sets, Kinds, Objects, Threads,
          SetOf, Program,   \* of a thread: its set, and what it calls in turn
          KindsOf,          \* of a set: the kinds it has handlers for
          LateKinds,        \* the kinds that handlers come to watch
          Initial, Later,   \* of a kind: the objects it has, and gets later
          Broken, Indexed,  \* kinds without informers, kinds with field indexers
          None

VARIABLES thr, made, ctrl, started, running, arr, len, watching, backend,
          cacheOn, synced, cached, due, work, seen, cancelled, panicked

flags == <<made, ctrl, started, running, watching, backend>>
slice == <<arr, len>>
cache == <<cacheOn, synced, cached>>
workVars == <<work, seen, panicked>>
vars == <<thr, flags, slice, cache, due, workVars, cancelled>>

ASSUME SharedAssumption ==
    /\ \A t \in Threads : SetOf[t] \in Sets /\ Program[t] \in Seq({"preload", "start", "watch"})
    /\ \A s \in Sets : KindsOf[s] \subseteq Kinds
    /\ LateKinds \subseteq Kinds
    /\ \A g \in Kinds : Initial[g] \cup Later[g] \subseteq Objects
    /\ None \notin Sets \cup Kinds \cup Objects

\* op is what the thread has called, kind the one it is at, kinds the ones it
\* still has to watch, and then to start; load: it is in loadAndStart; host
\* is the kind whose OnChange called the handler.
Idle == [pc |-> "idle", op |-> None, kind |-> None, kinds |-> {}, load |-> FALSE, failed |-> FALSE, host |-> None]

IdleWork == [obj |-> None, i |-> 1, n |-> 0, own |-> <<>>]

Init ==
    /\ thr = [t \in Threads |-> [run |-> Idle, rest |-> Program[t]]]
    /\ made = {} /\ ctrl = [g \in Kinds |-> "none"]
    /\ started = {} /\ running = {}
    /\ arr = [g \in Kinds |-> <<>>] /\ len = [g \in Kinds |-> 0]
    /\ watching = {} /\ backend = FALSE
    /\ cacheOn = FALSE /\ synced = {} /\ cached = [g \in Kinds |-> {}]
    /\ due = [g \in Kinds |-> {}] /\ work = [g \in Kinds |-> IdleWork] /\ seen = {}
    /\ cancelled = FALSE /\ panicked = FALSE

-------------------------------------------------------------------------------
(* Threads and locks                                                       *)

At(t, pc) == thr[t].run.pc = pc /\ ~panicked
Kind(t) == thr[t].run.kind
Go(t, pc) == thr' = [thr EXCEPT ![t].run.pc = pc]
GoKind(t, pc, g) == thr' = [thr EXCEPT ![t].run.pc = pc, ![t].run.kind = g, ![t].run.kinds = @ \ {g}]
Leave(t) == thr' = [thr EXCEPT ![t].run = Idle]

WatchLocked(s) ==
    \E t \in Threads : /\ SetOf[t] = s
                       /\ thr[t].run.pc \notin {"idle", "begin"} /\ ~thr[t].run.load
StartedLocked == \E t \in Threads : thr[t].run.load
ControllerLocked == \E t \in Threads : thr[t].run.load /\ thr[t].run.pc \in {"starting", "ctrlStart"}
StartLocked(g) == \E t \in Threads : thr[t].run.pc = "ctrlStart" /\ Kind(t) = g

-------------------------------------------------------------------------------
(* HandlerSet.Start, Preload and WatchGVK; Backend.Watcher                 *)

\* Start and Preload watch the kinds of the set first.  A handler that reads
\* another kind watches it before it goes on.
Call(t, host) ==
    LET op == Head(thr[t].rest)
    IN /\ At(t, "idle") /\ thr[t].rest # <<>> /\ ~thr[t].run.failed
       /\ ~WatchLocked(SetOf[t])
       /\ IF op = "watch" THEN host \in Kinds /\ work[host].obj # None ELSE host = None
       /\ thr' = [thr EXCEPT ![t].rest = Tail(@),
                             ![t].run = [Idle EXCEPT !.pc = "watch", !.op = op, !.host = host,
                                           !.kinds = IF op = "watch" THEN LateKinds ELSE KindsOf[SetOf[t]]]]
       /\ UNCHANGED <<flags, slice, cache, due, workVars, cancelled>>

\* Mutant: the lock is not released when a kind cannot be watched.
WatchEndLocked(t) ==
    /\ At(t, "watch") /\ thr[t].run.kinds = {}
    /\ IF thr[t].run.failed THEN Go(t, "stuck")
       ELSE IF thr[t].run.op = "watch" THEN Leave(t) ELSE Go(t, "begin")
    /\ UNCHANGED <<flags, slice, cache, due, workVars, cancelled>>

\* The error of one kind does not keep the others back, but the set is not
\* started.
WatchEnd(t) ==
    /\ At(t, "watch") /\ thr[t].run.kinds = {}
    /\ IF thr[t].run.op = "watch" THEN Leave(t) ELSE Go(t, IF thr[t].run.failed THEN "idle" ELSE "begin")
    /\ UNCHANGED <<flags, slice, cache, due, workVars, cancelled>>

\* The informer of a kind has the indexers of its fields since the first
\* registration, which comes after it.
HasIndexers(g) == arr[g] # <<>> \/ \E t \in Threads : thr[t].run.pc \in {"init", "register"} /\ Kind(t) = g

\* The next kind, unless it is watched already: ForKind, and addIndexer, which
\* needs the informer and which the informer refuses the second time.
ForKind(t, g) ==
    /\ At(t, "watch") /\ g \in thr[t].run.kinds
    /\ IF <<SetOf[t], g>> \in watching THEN GoKind(t, "watch", g) /\ UNCHANGED made
       ELSE /\ ~ControllerLocked
            /\ made' = made \cup {g}
            /\ IF g \in Indexed /\ (g \in Broken \/ HasIndexers(g))
               THEN thr' = [thr EXCEPT ![t].run.kinds = @ \ {g}, ![t].run.failed = TRUE]
               ELSE GoKind(t, "init", g)
    /\ UNCHANGED <<ctrl, started, running, slice, watching, backend, cache, due, workVars, cancelled>>

InitController(t) ==
    LET g == Kind(t)
    IN /\ At(t, "init")
       /\ ~StartLocked(g)
       /\ ctrl' = [ctrl EXCEPT ![g] = IF @ # "none" THEN @ ELSE IF g \in Broken THEN "error" ELSE "made"]
       /\ Go(t, "register")
       /\ UNCHANGED <<made, started, running, slice, watching, backend, cache, due, workVars, cancelled>>

\* SharedHandler.Register.  append writes into the backing array if there is
\* room, else it moves to one of twice the size; an OnChange that is under
\* way keeps the old one.
Register(t) ==
    LET g == Kind(t)
        room == len[g] < Len(arr[g])
        more == [i \in 1..(IF len[g] = 0 THEN 1 ELSE 2 * len[g]) |-> IF i <= len[g] THEN arr[g][i] ELSE None]
    IN /\ At(t, "register")
       /\ len' = [len EXCEPT ![g] = @ + 1]
       /\ arr' = [arr EXCEPT ![g] = [(IF room THEN @ ELSE more) EXCEPT ![len[g] + 1] = SetOf[t]]]
       /\ work' = [work EXCEPT ![g].own = IF room \/ @ # <<>> \/ work[g].obj = None THEN @ ELSE arr[g]]
       /\ Go(t, "list")
       /\ UNCHANGED <<flags, cache, due, seen, panicked, cancelled>>

\* The end of RegisterHandler: the new handler is called for every object.
ListExisting(t) ==
    LET g == Kind(t)
    IN /\ At(t, "list")
       /\ ~StartLocked(g)
       /\ due' = IF g \in started /\ ~cancelled THEN [due EXCEPT ![g] = @ \cup cached[g]] ELSE due
       /\ Go(t, "ask")
       /\ UNCHANGED <<flags, slice, cache, workVars, cancelled>>

\* Mutant: the flag is read without the lock, while a Start is under way.
HasStartedUnlocked(t) ==
    /\ At(t, "ask")
    /\ Go(t, IF backend THEN "wantStart" ELSE "watched")
    /\ UNCHANGED <<flags, slice, cache, due, workVars, cancelled>>

HasStarted(t) ==
    /\ At(t, "ask")
    /\ ~StartedLocked
    /\ Go(t, IF backend THEN "wantStart" ELSE "watched")
    /\ UNCHANGED <<flags, slice, cache, due, workVars, cancelled>>

\* Back in WatchGVK.
Watched(t) ==
    /\ At(t, "watched")
    /\ Go(t, "watch")
    /\ watching' = watching \cup {<<SetOf[t], Kind(t)>>}
    /\ UNCHANGED <<made, ctrl, started, running, slice, backend, cache, due, workVars, cancelled>>

-------------------------------------------------------------------------------
(* sharedController.Start, of loadAndStart and of Watcher                  *)

\* Where the thread goes on.
After(t, g, err) ==
    thr' = [thr EXCEPT ![t].run.pc = IF ~thr[t].run.load THEN (IF err THEN "watch" ELSE "watched")
                                     ELSE IF err THEN "idle"
                                     ELSE IF thr[t].run.kinds \subseteq {g} THEN "finish" ELSE "starting",
                       ![t].run.kinds = @ \ {g},
                       ![t].run.load = @ /\ ~err,
                       ![t].run.failed = @ \/ err]

\* Under the lock: nothing to do, the error of the creation, or on to Start of
\* the controller.
StartShared(t, g) ==
    /\ \/ At(t, "wantStart") /\ g = Kind(t)
       \/ At(t, "starting") /\ g \in thr[t].run.kinds
    /\ ~StartLocked(g)
    /\ IF ctrl[g] # "made" \/ g \in started THEN After(t, g, ctrl[g] = "error") ELSE GoKind(t, "ctrlStart", g)
    /\ UNCHANGED <<flags, slice, cache, due, workVars, cancelled>>

\* controller.Start, which waits for the informer, has no effect on a running
\* controller.  The informer tells a new event handler of every object.  An
\* informer that has synced before is enough after the end of the context too;
\* its queues are shut down then.
CtrlStarted(t) ==
    LET g == Kind(t)
    IN /\ At(t, "ctrlStart")
       /\ g \in running \cup synced
       /\ running' = running \cup {g}
       /\ started' = started \cup {g}
       /\ due' = IF g \in running \/ cancelled THEN due ELSE [due EXCEPT ![g] = @ \cup cached[g]]
       /\ After(t, g, FALSE)
       /\ UNCHANGED <<made, ctrl, slice, watching, backend, cache, workVars, cancelled>>

\* The context has ended before a test of HasSynced found it, or before the
\* event handler was added, which an informer that was stopped refuses.
CtrlFailed(t) ==
    /\ At(t, "ctrlStart")
    /\ Kind(t) \notin running /\ cancelled
    /\ After(t, Kind(t), TRUE)
    /\ UNCHANGED <<flags, slice, cache, due, workVars, cancelled>>

-------------------------------------------------------------------------------
(* Backend.start and sharedControllerFactory.loadAndStart                  *)

\* Under the locks of both, the cache is started and the controllers are copied;
\* the lock of the factory is released.
Begin(t) ==
    /\ At(t, "begin")
    /\ ~StartedLocked
    /\ cacheOn' = TRUE
    /\ thr' = [thr EXCEPT ![t].run.pc = "sync", ![t].run.load = TRUE, ![t].run.kinds = made]
    /\ UNCHANGED <<flags, slice, synced, cached, due, workVars, cancelled>>

CacheSynced == \A g \in Kinds : ctrl[g] = "made" => g \in synced

\* Mutant: Preload starts the controllers as well.
SyncedStarts(t) ==
    /\ At(t, "sync")
    /\ CacheSynced \/ cancelled
    /\ ~ControllerLocked
    /\ Go(t, IF thr[t].run.kinds # {} THEN "starting" ELSE "finish")
    /\ UNCHANGED <<flags, slice, cache, due, workVars, cancelled>>

\* The result of WaitForCacheSync is not looked at here.
Synced(t) ==
    /\ At(t, "sync")
    /\ CacheSynced \/ cancelled
    /\ ~ControllerLocked
    /\ Go(t, IF thr[t].run.op = "start" /\ thr[t].run.kinds # {} THEN "starting" ELSE "finish")
    /\ UNCHANGED <<flags, slice, cache, due, workVars, cancelled>>

\* Backend.start waits again, for the informers that were added meanwhile.
Finish(t) ==
    /\ At(t, "finish")
    /\ CacheSynced \/ cancelled
    /\ backend' = (backend \/ CacheSynced)
    /\ Leave(t)
    /\ UNCHANGED <<made, ctrl, started, running, slice, watching, cache, due, workVars, cancelled>>

-------------------------------------------------------------------------------
(* Informers, workers and the end of the context                           *)

InformerSyncs(g) ==
    /\ cacheOn /\ ctrl[g] = "made" /\ g \notin synced /\ ~cancelled
    /\ synced' = synced \cup {g}
    /\ cached' = [cached EXCEPT ![g] = @ \cup Initial[g]]
    /\ UNCHANGED <<thr, flags, slice, cacheOn, due, workVars, cancelled>>

\* The informer stores an object and tells the event handler, if there is one.
Arrive(g, x) ==
    /\ g \in synced /\ ~cancelled
    /\ x \in Later[g] \ cached[g]
    /\ cached' = [cached EXCEPT ![g] = @ \cup {x}]
    /\ due' = IF g \in running THEN [due EXCEPT ![g] = @ \cup {x}] ELSE due
    /\ UNCHANGED <<thr, flags, slice, cacheOn, synced, workVars, cancelled>>

\* SharedHandler.OnChange copies the slice under the lock ...
OnChange(g, x) ==
    /\ g \in running /\ ~cancelled /\ ~panicked
    /\ work[g].obj = None /\ x \in due[g]
    /\ work' = [work EXCEPT ![g] = [obj |-> x, i |-> 1, n |-> len[g], own |-> <<>>]]
    /\ due' = [due EXCEPT ![g] = @ \ {x}]
    /\ UNCHANGED <<thr, flags, slice, cache, seen, panicked, cancelled>>

\* ... and reads its entries from the array without it.
Entry(g) == IF work[g].own = <<>> THEN arr[g][work[g].i] ELSE work[g].own[work[g].i]

\* An emptied entry has no handler to call, which is a panic.  A handler that
\* watches another kind returns after that.
CallHandler(g) ==
    /\ work[g].obj # None /\ work[g].i <= work[g].n /\ ~panicked
    /\ \A t \in Threads : thr[t].run.host # g
    /\ panicked' = (Entry(g) = None)
    /\ seen' = IF Entry(g) = None \/ cancelled THEN seen ELSE seen \cup {<<Entry(g), g, work[g].obj>>}
    /\ work' = [work EXCEPT ![g].i = @ + 1]
    /\ UNCHANGED <<thr, flags, slice, cache, due, cancelled>>

OnChangeEnds(g) ==
    /\ work[g].obj # None /\ work[g].i > work[g].n /\ ~panicked
    /\ work' = [work EXCEPT ![g] = IdleWork]
    /\ UNCHANGED <<thr, flags, slice, cache, due, seen, panicked, cancelled>>

\* Bounds the state space: the context ends after the last call was made, with
\* at most one of them under way.
CancelBound ==
    /\ \A t \in Threads : thr[t].rest = <<>>
    /\ \A t, u \in Threads : t = u \/ thr[t].run.pc = "idle" \/ thr[u].run.pc = "idle"

\* The queues are shut down and drop their keys; seen is not kept any longer.
Cancel ==
    /\ ~cancelled
    /\ CancelBound
    /\ cancelled' = TRUE
    /\ due' = [g \in Kinds |-> {}]
    /\ seen' = {}
    /\ UNCHANGED <<thr, flags, slice, cache, work, panicked>>

\* Mutant: the entry is emptied where it is and the slice cut at its end.
DeregisterInPlace(g) ==
    /\ cancelled /\ ~panicked
    /\ len[g] > 0
    /\ len' = [len EXCEPT ![g] = @ - 1]
    /\ \E i \in 1..len[g] : arr' = [arr EXCEPT ![g][i] = None]
    /\ UNCHANGED <<thr, flags, cache, due, workVars, cancelled>>

\* AfterFunc of Register: slices.Delete moves the later entries of the backing
\* array down and empties the last one.
Deregister(g) ==
    /\ cancelled /\ ~panicked
    /\ len[g] > 0
    /\ len' = [len EXCEPT ![g] = @ - 1]
    /\ \E i \in 1..len[g] :
         arr' = [arr EXCEPT ![g] = [j \in 1..Len(@) |-> IF j \in i..(len[g] - 1) THEN @[j + 1]
                                                          ELSE IF j = len[g] THEN None ELSE @[j]]]
    /\ UNCHANGED <<thr, flags, cache, due, workVars, cancelled>>

\* Mutant: only the flag of a controller that still runs is reset.
ResetRunning(g) ==
    /\ cancelled /\ ~panicked
    /\ g \in started \cap running /\ ~StartLocked(g)
    /\ started' = started \ {g}
    /\ UNCHANGED <<thr, made, ctrl, running, slice, watching, backend, cache, due, workVars, cancelled>>

\* AfterFunc of Start of the shared controller, also of a Start that returns
\* after the end of the context.
Reset(g) ==
    /\ cancelled /\ ~panicked
    /\ g \in started /\ ~StartLocked(g)
    /\ started' = started \ {g}
    /\ UNCHANGED <<thr, made, ctrl, running, slice, watching, backend, cache, due, workVars, cancelled>>

\* The controller has drained, see Controller.
Drained(g) ==
    /\ cancelled /\ ~panicked
    /\ g \in running /\ work[g].obj = None
    /\ running' = running \ {g}
    /\ UNCHANGED <<thr, made, ctrl, started, slice, watching, backend, cache, due, workVars, cancelled>>

Step(t) ==
    \/ \E g \in Kinds : ForKind(t, g) \/ StartShared(t, g)
    \/ WatchEnd(t) \/ InitController(t) \/ Register(t) \/ ListExisting(t) \/ HasStarted(t) \/ Watched(t)
    \/ CtrlStarted(t) \/ CtrlFailed(t)
    \/ Begin(t) \/ Synced(t) \/ Finish(t)

Work(g) == CallHandler(g) \/ OnChangeEnds(g) \/ \E x \in Objects : OnChange(g, x)
Ending(g) == Deregister(g) \/ Reset(g) \/ Drained(g)

Next ==
    \/ \E t \in Threads : Step(t) \/ \E host \in Kinds \cup {None} : Call(t, host)
    \/ \E g \in Kinds : InformerSyncs(g) \/ Work(g) \/ Ending(g) \/ \E x \in Objects : Arrive(g, x)
    \/ Cancel

\* Goroutines that are not blocked run on, and informers sync.
Spec == Init /\ [][Next]_vars
FairSpec ==
    /\ Spec
    /\ WF_vars(\E t \in Threads : Step(t))
    /\ WF_vars(\E g \in Kinds : InformerSyncs(g) \/ Work(g))
    /\ WF_vars(\E g \in Kinds : Ending(g))

-------------------------------------------------------------------------------
(* Properties                                                              *)

\* The types of the variables; the slice of a kind lies in its array.
TypeOK ==
    /\ \A t \in Threads : thr[t].run.kinds \subseteq Kinds /\ thr[t].run.kind \in Kinds \cup {None}
    /\ made \subseteq Kinds /\ started \subseteq Kinds /\ running \subseteq Kinds
    /\ \A g \in Kinds : /\ len[g] \in 0..Len(arr[g])
                        /\ \A i \in 1..len[g] : arr[g][i] \in Sets
                        /\ ctrl[g] # "none" => g \in made
    /\ watching \subseteq Sets \X Kinds

\* Some thread has called Start.
StartCalled ==
    \E t \in Threads : \E i \in 1..(Len(Program[t]) - Len(thr[t].rest)) : Program[t][i] = "start"

\* Every call so far has returned without an error, and no key is left.
Rest ==
    /\ ~cancelled /\ ~panicked
    /\ \A t \in Threads : thr[t].run = Idle
    /\ \A g \in Kinds : due[g] = {} /\ work[g].obj = None

\* Once a set has been started, whatever was watched before, during and after
\* that, every object has been given to every set that watches its kind,
\* however the registration and the start of the controller interleaved.
Delivered ==
    Rest /\ StartCalled =>
       \A p \in watching : ctrl[p[2]] = "made" => \A x \in cached[p[2]] : <<p[1], p[2], x>> \in seen

\* A second set that is preloaded on the same Backend would be started: the sets
\* that are preloaded are one.
OneFollower ==
    \A t, u \in Threads : "preload" \in ToSet(Program[t]) \cap ToSet(Program[u]) => SetOf[t] = SetOf[u]

\* A replica that has only been preloaded runs no handlers.
FollowerIdle == running # {} => StartCalled

\* Nobody waits for ever for a lock or for the caches.
CallsReturn == \A t \in Threads : []<>(thr[t].run.pc = "idle" \/ panicked)

\* After the end of the context no handler stays registered, no flag set and
\* no controller running, also when a Start was under way that succeeds then.
CancelCleans == cancelled ~> [](panicked \/ \A g \in Kinds : len[g] = 0 /\ g \notin started \cup running)
=============================================================================
