--------------------------- MODULE ControllerProofs ---------------------------
(***************************************************************************)
(* Proofs about Controller: the types and the slots of the workers, what   *)
(* happens to a key between a change or an enqueue and its invocation of   *)
(* the handler, and that every step of the controller is a step of the     *)
(* Reconciler.                                                             *)
(***************************************************************************)
EXTENDS ControllerRefinement, FiniteSetTheorems, TLAPS

-------------------------------------------------------------------------------
(* The work queue                                                          *)

\* What the operations of a work queue with keys in K preserve: an item waits
\* at most once, only if it is dirty, and never while it is being processed.
WQOk(w, K) ==
    /\ w \in WQType(K)
    /\ \A i \in DOMAIN w.queue : w.queue[i] \in w.dirty /\ w.queue[i] \notin w.processing
    /\ \A i, j \in DOMAIN w.queue : w.queue[i] = w.queue[j] => i = j

\* A queue that run has just created is in order.
LEMMA NewQueueOk ==
    ASSUME NEW K
    PROVE  WQOk(NewQueue, K) /\ NewQueue.processing = {}
BY DEF WQOk, NewQueue, WQType

\* Add keeps the queue in order, whether the item is waiting, being processed
\* or neither, and leaves the items being processed alone.
LEMMA AddOk ==
    ASSUME NEW K, NEW w, WQOk(w, K), NEW k \in K
    PROVE  WQOk(Add(w, k), K) /\ Add(w, k).processing = w.processing
<1>1. CASE w.down \/ k \in w.dirty
  BY <1>1 DEF Add
<1>2. CASE ~(w.down \/ k \in w.dirty) /\ k \in w.processing
  BY <1>2 DEF Add, WQOk, WQType
<1>3. CASE ~(w.down \/ k \in w.dirty) /\ k \notin w.processing
  <2>1. Add(w, k) = [queue |-> Append(w.queue, k), dirty |-> w.dirty \cup {k},
                     processing |-> w.processing, delayed |-> w.delayed, down |-> w.down]
    BY <1>3 DEF Add, WQOk, WQType
  <2>2. \A i \in DOMAIN w.queue : w.queue[i] # k
    BY <1>3 DEF WQOk, WQType
  <2>3. \A i \in DOMAIN Append(w.queue, k) :
          \/ i \in DOMAIN w.queue /\ Append(w.queue, k)[i] = w.queue[i]
          \/ i = Len(w.queue) + 1 /\ Append(w.queue, k)[i] = k
    BY DEF WQOk, WQType
  <2>4. Append(w.queue, k) \in Seq(K)
    BY DEF WQOk, WQType
  <2>5. \A i, j \in DOMAIN Append(w.queue, k) :
           Append(w.queue, k)[i] = Append(w.queue, k)[j] => i = j
    BY <2>2, <2>3 DEF WQOk
  <2>6. /\ Add(w, k) \in WQType(K)
        /\ Add(w, k).processing = w.processing
        /\ Add(w, k).dirty = w.dirty \cup {k}
        /\ Add(w, k).queue = Append(w.queue, k)
    BY <2>1, <2>4 DEF WQOk, WQType
  <2>7. QED
    BY <1>3, <2>3, <2>5, <2>6 DEF WQOk
<1>4. QED
  BY <1>1, <1>2, <1>3

\* AddAfter and the end of a delay do what Add does, now or later.
LEMMA AddAfterOk ==
    ASSUME NEW K, NEW w, WQOk(w, K), NEW k \in K, NEW after \in BOOLEAN
    PROVE  WQOk(AddAfter(w, k, after), K) /\ AddAfter(w, k, after).processing = w.processing
<1>1. CASE w.down
  BY <1>1 DEF AddAfter
<1>2. CASE ~w.down /\ ~after
  BY <1>2, AddOk DEF AddAfter
<1>3. CASE ~w.down /\ after
  <2>1. AddAfter(w, k, after) = [w EXCEPT !.delayed = @ \cup {k}]
    BY <1>3 DEF AddAfter
  <2>2. QED
    BY <2>1 DEF WQOk, WQType
<1>4. QED
  BY <1>1, <1>2, <1>3 DEF WQOk, WQType

\* A delayed key that comes due is added as any other key is.
LEMMA MatureOk ==
    ASSUME NEW K, NEW w, WQOk(w, K), NEW k \in K
    PROVE  WQOk(Mature(w, k), K) /\ Mature(w, k).processing = w.processing
<1> DEFINE v == [w EXCEPT !.delayed = @ \ {k}]
<1>1. WQOk(v, K) /\ v.processing = w.processing
  BY DEF WQOk, WQType
<1> HIDE DEF v
<1>2. WQOk(Add(v, k), K) /\ Add(v, k).processing = v.processing
  BY <1>1, AddOk
<1>3. QED
  BY <1>1, <1>2 DEF Mature, v

\* Get hands out an item that nobody is processing.
LEMMA GetOk ==
    ASSUME NEW K, NEW w, WQOk(w, K), w.queue # << >>
    PROVE  /\ WQOk(Get(w), K)
           /\ Head(w.queue) \in K \ w.processing
           /\ Get(w).processing = w.processing \cup {Head(w.queue)}
<1>1. w.queue \in Seq(K) /\ Len(w.queue) \in Nat \ {0}
  BY DEF WQOk, WQType
<1>2. Head(w.queue) = w.queue[1] /\ 1 \in DOMAIN w.queue
  BY <1>1
<1>3. /\ Tail(w.queue) \in Seq(K)
      /\ \A i \in DOMAIN Tail(w.queue) : /\ i + 1 \in DOMAIN w.queue
                                         /\ Tail(w.queue)[i] = w.queue[i + 1]
                                         /\ i + 1 # 1
  BY <1>1
<1>4. \A i \in DOMAIN Tail(w.queue) : Tail(w.queue)[i] # Head(w.queue)
  BY <1>2, <1>3 DEF WQOk
<1>5. \A i, j \in DOMAIN Tail(w.queue) : Tail(w.queue)[i] = Tail(w.queue)[j] => i = j
  <2> SUFFICES ASSUME NEW i \in DOMAIN Tail(w.queue), NEW j \in DOMAIN Tail(w.queue),
                      Tail(w.queue)[i] = Tail(w.queue)[j]
               PROVE  i = j
    OBVIOUS
  <2>1. i \in Int /\ j \in Int
    BY <1>3
  <2>2. i + 1 = j + 1
    BY <1>3 DEF WQOk
  <2>3. QED
    BY <2>1, <2>2
<1>6. /\ Get(w).queue = Tail(w.queue)
      /\ Get(w).dirty = w.dirty \ {Head(w.queue)}
      /\ Get(w).processing = w.processing \cup {Head(w.queue)}
  BY DEF WQOk, WQType, Get
<1>7. Head(w.queue) \in K \ w.processing
  BY <1>1, <1>2 DEF WQOk, WQType
<1>8. Get(w) \in WQType(K)
  BY <1>3, <1>7 DEF WQOk, WQType, Get
<1>9. \A i \in DOMAIN Get(w).queue : Get(w).queue[i] \in Get(w).dirty /\ Get(w).queue[i] \notin Get(w).processing
  BY <1>3, <1>4, <1>6 DEF WQOk
<1>10. QED
  BY <1>5, <1>6, <1>7, <1>8, <1>9 DEF WQOk

\* Done of an item that is being processed queues it again if it is dirty;
\* it cannot be waiting already.
LEMMA DoneOk ==
    ASSUME NEW K, NEW w, WQOk(w, K), NEW k \in w.processing
    PROVE  WQOk(Done(w, k), K) /\ Done(w, k).processing = w.processing \ {k}
<1>1. \A i \in DOMAIN w.queue : w.queue[i] # k
  BY DEF WQOk, WQType
<1>2. k \in K
  BY DEF WQOk, WQType
<1> DEFINE v == [w EXCEPT !.processing = @ \ {k}]
<1>3. WQOk(v, K) /\ v.processing = w.processing \ {k}
  BY DEF WQOk, WQType
<1>4. CASE k \notin w.dirty
  BY <1>3, <1>4 DEF Done, WQOk, WQType
<1>5. CASE k \in w.dirty
  <2>1. /\ Done(w, k).queue = Append(w.queue, k)
        /\ Done(w, k).dirty = w.dirty
        /\ Done(w, k).processing = w.processing \ {k}
    BY <1>5 DEF Done, WQOk, WQType
  <2>2. \A i \in DOMAIN Append(w.queue, k) :
          \/ i \in DOMAIN w.queue /\ Append(w.queue, k)[i] = w.queue[i]
          \/ i = Len(w.queue) + 1 /\ Append(w.queue, k)[i] = k
    BY DEF WQOk, WQType
  <2>3. Append(w.queue, k) \in Seq(K)
    BY <1>2 DEF WQOk, WQType
  <2>4. Done(w, k) \in WQType(K)
    BY <1>5, <2>3 DEF WQOk, WQType, Done
  <2>5. \A i, j \in DOMAIN Append(w.queue, k) :
           Append(w.queue, k)[i] = Append(w.queue, k)[j] => i = j
    BY <1>1, <2>2 DEF WQOk
  <2>6. QED
    BY <1>5, <2>1, <2>2, <2>4, <2>5 DEF WQOk
<1>6. QED
  BY <1>4, <1>5

\* Shutting a queue down leaves what it holds alone.
LEMMA ShutDownOk ==
    ASSUME NEW K, NEW w, WQOk(w, K)
    PROVE  WQOk(ShutDown(w), K) /\ ShutDown(w).processing = w.processing
BY DEF WQOk, WQType, ShutDown

-------------------------------------------------------------------------------
(* The inductive invariant                                                 *)

KeysOf(q) == {k \in Keys : Split[k] = q}

\* Every work queue is in order and holds the keys the splitter sends to it.
QueuesOk == \A n \in Starts, q \in Queues : WQOk(wq[n][q], KeysOf(q))

\* The item a dispatcher has got and not yet passed on.
Held(n, q) == disp[n][q].pc \in {"acquire", "check", "add"}

\* It is one that is being processed, by no worker.
DispOk ==
    \A n \in Starts, q \in Queues : Held(n, q) =>
        /\ disp[n][q].item \in KeysOf(q)
        /\ disp[n][q].item \in wq[n][q].processing
        /\ \A g \in Goroutines : Owns(g) /\ worker[g].run = n => worker[g].key # disp[n][q].item

\* A worker that is not idle belongs to a run and has a key, and as long as
\* it owns the key the queue holds it to be processed.
WorkerOk ==
    \A g \in Goroutines : worker[g].pc # "idle" =>
        /\ worker[g].run \in Starts
        /\ worker[g].key \in Keys
        /\ Owns(g) => worker[g].key \in wq[worker[g].run][Split[worker[g].key]].processing

\* Before its queues are filled, a run has neither dispatchers nor workers.
FreshRuns ==
    /\ \A n \in Starts : runPc[n] \in {"none", "init", "fill"} =>
           /\ \A q \in Queues : disp[n][q].pc = "off"
           /\ \A g \in Goroutines : worker[g].pc # "idle" => worker[g].run # n
    /\ \A n \in Starts : n > attempt \/ (startLock = "start" /\ n = attempt) => runPc[n] = "none"

\* 1 when the dispatcher has put a token for a worker it has yet to spawn.
Ahead(n, q) == IF disp[n][q].pc \in {"check", "add"} THEN 1 ELSE 0

\* Every worker has a token in the semaphore of its queue.
TokensOk ==
    \A n \in Starts, q \in Queues :
        /\ Cardinality(Busy(n, q)) + Ahead(n, q) <= running[n][q]
        /\ running[n][q] <= PerQueue

InRun(n) == {g \in Goroutines : worker[g].pc # "idle" /\ worker[g].run = n}

\* The WaitGroup counts the workers of the run.
WaitGroupOk == \A n \in Starts : wg[n] = Cardinality(InRun(n))

Inv ==
    /\ TypeOK /\ QueuesOk /\ DispOk /\ WorkerOk /\ FreshRuns
    /\ KeyExclusive /\ TokensOk /\ WaitGroupOk

-------------------------------------------------------------------------------
(* Steps that concern the queues only                                      *)

\* A work queue of the keys of one index is a work queue of keys.
LEMMA WQWiden ==
    ASSUME NEW q, NEW w, WQOk(w, KeysOf(q))
    PROVE  w \in WQType(Keys)
BY DEF WQOk, WQType, KeysOf

\* Replacing one queue by one in order keeps all of them in order.
LEMMA WQUpdate ==
    ASSUME wq \in [Starts -> [Queues -> WQType(Keys)]], QueuesOk,
           NEW n \in Starts, NEW q \in Queues,
           NEW w, WQOk(w, KeysOf(q)), w.processing = wq[n][q].processing,
           wq' = [wq EXCEPT ![n][q] = w]
    PROVE  /\ QueuesOk'
           /\ wq' \in [Starts -> [Queues -> WQType(Keys)]]
           /\ \A m \in Starts, r \in Queues : wq'[m][r].processing = wq[m][r].processing
<1>1. w \in WQType(Keys)
  BY WQWiden
<1>2. \A m \in Starts, r \in Queues : wq'[m][r] = IF m = n /\ r = q THEN w ELSE wq[m][r]
  OBVIOUS
<1>3. QED
  BY <1>1, <1>2 DEF QueuesOk

\* A step that changes no goroutine and hands no item out or back keeps the
\* part of the invariant that is about goroutines.
LEMMA KeepWork ==
    ASSUME Inv, UNCHANGED workVars, TypeOK', QueuesOk', FreshRuns',
           \A n \in Starts, q \in Queues : wq'[n][q].processing = wq[n][q].processing
    PROVE  Inv'
<1> USE DEF workVars
<1>1. DispOk'
  BY DEF Inv, DispOk, Held, Owns
<1>2. WorkerOk'
  BY ControllerAssumption DEF Inv, WorkerOk, Owns, ControllerAssumption
<1>3. KeyExclusive'
  BY DEF Inv, KeyExclusive, Owns
<1>4. TokensOk'
  BY DEF Inv, TokensOk, Busy, Ahead
<1>5. WaitGroupOk'
  BY DEF Inv, WaitGroupOk, InRun
<1>6. QED
  BY <1>1, <1>2, <1>3, <1>4, <1>5 DEF Inv

\* The steps that leave the queues and the goroutines alone.
LEMMA ControlStep ==
    ASSUME Inv,
           \/ Start
           \/ CacheSync \/ \E k \in Objects : Change(k) \/ DropNotification(k)
           \/ \E n \in Starts : Cancel(n) \/ RunWait(n) \/ RunEnd(n) \/ RunDeregister(n)
    PROVE  Inv'
<1> USE ControllerAssumption DEF ControllerAssumption, ctlVars, queueVars, workVars
<1>1. UNCHANGED <<wq, workVars, current, startKeys, handled>>
  BY DEF Start, StartBegin, StartSynced, StartCancelled, CacheSync, Change, DropNotification,
         Cancel, RunWait, RunEnd, RunDeregister
<1>2. TypeOK'
  <2>1. CASE StartBegin
    BY <2>1 DEF Inv, TypeOK, Starts, Queues, RunPc, StartBegin
  <2>2. CASE StartSynced
    BY <2>2 DEF Inv, TypeOK, Starts, Queues, RunPc, StartSynced
  <2>3. CASE StartCancelled
    BY <2>3 DEF Inv, TypeOK, Starts, Queues, RunPc, StartCancelled
  <2>4. CASE CacheSync
    BY <2>4 DEF Inv, TypeOK, Starts, Queues, RunPc, CacheSync
  <2>5. ASSUME NEW k \in Objects, Change(k)
        PROVE  TypeOK'
    <3>1. want' \in [Keys -> 0..MaxDemand]
      BY <2>5 DEF Inv, TypeOK, Change
    <3>2. notify' \subseteq Objects
      BY <2>5 DEF Inv, TypeOK, Change
    <3>3. QED
      BY <2>5, <3>1, <3>2 DEF Inv, TypeOK, Change
  <2>6. ASSUME NEW k \in Objects, DropNotification(k)
        PROVE  TypeOK'
    BY <2>6 DEF Inv, TypeOK, Starts, Queues, RunPc, DropNotification
  <2>7. ASSUME NEW n \in Starts, Cancel(n)
        PROVE  TypeOK'
    BY <2>7 DEF Inv, TypeOK, Starts, Queues, RunPc, Cancel
  <2>8. ASSUME NEW n \in Starts, RunWait(n) \/ RunEnd(n) \/ RunDeregister(n)
        PROVE  TypeOK'
    BY <2>8 DEF Inv, TypeOK, Starts, Queues, RunPc, RunWait, RunEnd, RunDeregister
  <2>9. QED
    BY <2>1, <2>2, <2>3, <2>4, <2>5, <2>6, <2>7, <2>8 DEF Start
<1>3. FreshRuns'
  <2>1. CASE StartBegin
    BY <2>1 DEF Inv, TypeOK, FreshRuns, StartBegin, Starts
  <2>2. CASE StartSynced
    BY <2>2 DEF Inv, TypeOK, FreshRuns, StartSynced, Starts
  <2>3. CASE UNCHANGED <<startLock, attempt, runPc>>
    BY <1>1, <2>3 DEF Inv, FreshRuns
  <2>4. CASE StartCancelled
    BY <2>4 DEF Inv, TypeOK, FreshRuns, StartCancelled, Starts
  <2>5. ASSUME NEW n \in Starts, RunWait(n) \/ RunEnd(n) \/ RunDeregister(n)
        PROVE  FreshRuns'
    <3>1. PICK pc \in {"ended", "deregister", "gone"} : runPc' = [runPc EXCEPT ![n] = pc]
      BY <2>5 DEF RunWait, RunEnd, RunDeregister
    <3>2. runPc[n] \in {"workers", "ended", "deregister"} /\ UNCHANGED <<startLock, attempt>>
      BY <2>5 DEF RunWait, RunEnd, RunDeregister
    <3>3. \A m \in Starts : runPc'[m] \in {"none", "init", "fill"} => runPc'[m] = runPc[m]
      BY <3>1 DEF Inv, TypeOK
    <3>4. \A m \in Starts : runPc[m] = "none" => runPc'[m] = "none"
      BY <3>1, <3>2 DEF Inv, TypeOK
    <3>5. QED
      BY <1>1, <3>2, <3>3, <3>4 DEF Inv, FreshRuns
  <2>6. QED
    BY <2>1, <2>2, <2>3, <2>4, <2>5 DEF Start, CacheSync, Change, DropNotification, Cancel
<1>4. QueuesOk'
  BY <1>1 DEF Inv, QueuesOk
<1>5. QED
  BY <1>1, <1>2, <1>3, <1>4, KeepWork

\* A key goes to the start keys or, in order, to its queue.
LEMMA EnqueueToOk ==
    ASSUME Inv, NEW k \in Keys, NEW after \in BOOLEAN, EnqueueTo(k, after)
    PROVE  /\ QueuesOk'
           /\ wq' \in [Starts -> [Queues -> WQType(Keys)]]
           /\ \A m \in Starts, r \in Queues : wq'[m][r].processing = wq[m][r].processing
           /\ startKeys' \subseteq StartKey
           /\ UNCHANGED current
<1>1. UNCHANGED current
  BY DEF EnqueueTo
<1>2. CASE current = 0
  BY <1>1, <1>2 DEF EnqueueTo, Inv, TypeOK, StartKey, QueuesOk
<1>3. CASE current # 0
  <2> DEFINE w == AddAfter(wq[current][Split[k]], k, after)
  <2>1. current \in Starts /\ Split[k] \in Queues /\ k \in KeysOf(Split[k])
    BY <1>3, ControllerAssumption DEF Inv, TypeOK, Starts, ControllerAssumption, KeysOf
  <2>2. WQOk(wq[current][Split[k]], KeysOf(Split[k]))
    BY <2>1 DEF Inv, QueuesOk
  <2>3. WQOk(w, KeysOf(Split[k])) /\ w.processing = wq[current][Split[k]].processing
    BY <2>1, <2>2, AddAfterOk
  <2>4. wq' = [wq EXCEPT ![current][Split[k]] = w] /\ UNCHANGED startKeys
    BY <1>3 DEF EnqueueTo
  <2> HIDE DEF w
  <2>5. QED
    BY <1>1, <2>1, <2>3, <2>4, WQUpdate DEF Inv, TypeOK
<1>4. QED
  BY <1>2, <1>3

\* The notifications of the informer and the four Enqueue functions.
LEMMA EnqueueStep ==
    ASSUME Inv,
           \/ \E k \in Objects : HandleObject(k)
           \/ \E k \in Keys, after \in BOOLEAN : EnqueueKeyAfter(k, after)
    PROVE  Inv'
<1> USE DEF ctlVars, workVars
<1>1. ASSUME NEW k \in Objects, HandleObject(k)
      PROVE  Inv'
  <2>1. k \in Keys /\ EnqueueTo(k, FALSE)
    BY <1>1, ControllerAssumption DEF HandleObject, ControllerAssumption
  <2>2. UNCHANGED <<ctlVars, workVars, runPc, want, handled>> /\ notify' \subseteq notify
    BY <1>1 DEF HandleObject
  <2>3. TypeOK'
    BY <2>1, <2>2, EnqueueToOk DEF Inv, TypeOK
  <2>4. FreshRuns'
    BY <2>2 DEF Inv, FreshRuns
  <2>5. QED
    BY <2>1, <2>2, <2>3, <2>4, EnqueueToOk, KeepWork
<1>2. ASSUME NEW k \in Keys, NEW after \in BOOLEAN, EnqueueKeyAfter(k, after)
      PROVE  Inv'
  <2>1. EnqueueTo(k, after) /\ UNCHANGED <<ctlVars, workVars, notify, runPc, handled>>
    BY <1>2 DEF EnqueueKeyAfter
  <2>2. want' \in [Keys -> 0..MaxDemand]
    BY <1>2, ControllerAssumption DEF EnqueueKeyAfter, Inv, TypeOK, ControllerAssumption
  <2>3. TypeOK'
    BY <2>1, <2>2, EnqueueToOk DEF Inv, TypeOK
  <2>4. FreshRuns'
    BY <2>1 DEF Inv, FreshRuns
  <2>5. QED
    BY <2>1, <2>3, <2>4, EnqueueToOk, KeepWork
<1>3. QED
  BY <1>1, <1>2

\* One queue is replaced by another in order; nothing else changes but the
\* start keys.
LEMMA QueueStep ==
    ASSUME Inv, NEW n \in Starts, NEW q \in Queues, NEW w,
           WQOk(w, KeysOf(q)), w.processing = wq[n][q].processing,
           wq' = [wq EXCEPT ![n][q] = w], startKeys' \subseteq startKeys,
           UNCHANGED <<ctlVars, current, workVars, notify, runPc, want, handled>>
    PROVE  Inv'
<1> USE DEF ctlVars, workVars
<1>1. /\ QueuesOk'
      /\ wq' \in [Starts -> [Queues -> WQType(Keys)]]
      /\ \A m \in Starts, r \in Queues : wq'[m][r].processing = wq[m][r].processing
  BY WQUpdate DEF Inv, TypeOK
<1>2. TypeOK'
  BY <1>1 DEF Inv, TypeOK
<1>3. FreshRuns'
  BY DEF Inv, FreshRuns
<1>4. QED
  BY <1>1, <1>2, <1>3, KeepWork

\* run fills the queues and shuts them down; delays end.
LEMMA RunQueueStep ==
    ASSUME Inv, NEW n \in Starts,
           \/ \E s \in StartKey : RunAddStartKey(n, s)
           \/ \E q \in Queues : RunShutDownQueue(n, q) \/ \E k \in Keys : DelayEnds(n, q, k)
    PROVE  Inv'
<1>1. ASSUME NEW s \in StartKey, RunAddStartKey(n, s)
      PROVE  Inv'
  <2> DEFINE q == Split[s.key]
             w == AddAfter(wq[n][q], s.key, s.after)
  <2>1. q \in Queues /\ s.key \in KeysOf(q) /\ s.after \in BOOLEAN
    BY ControllerAssumption DEF StartKey, ControllerAssumption, KeysOf
  <2>2. WQOk(wq[n][q], KeysOf(q))
    BY <2>1 DEF Inv, QueuesOk
  <2>3. WQOk(w, KeysOf(q)) /\ w.processing = wq[n][q].processing
    BY <2>1, <2>2, AddAfterOk
  <2>4. /\ wq' = [wq EXCEPT ![n][q] = w]
        /\ startKeys' \subseteq startKeys
        /\ UNCHANGED <<ctlVars, current, workVars, notify, runPc, want, handled>>
    BY <1>1 DEF RunAddStartKey
  <2> HIDE DEF q, w
  <2>5. QED
    BY <2>1, <2>3, <2>4, QueueStep
<1>2. ASSUME NEW q \in Queues, RunShutDownQueue(n, q)
      PROVE  Inv'
  <2>1. WQOk(ShutDown(wq[n][q]), KeysOf(q)) /\ ShutDown(wq[n][q]).processing = wq[n][q].processing
    BY ShutDownOk DEF Inv, QueuesOk
  <2>2. /\ wq' = [wq EXCEPT ![n][q] = ShutDown(wq[n][q])]
        /\ startKeys' \subseteq startKeys
        /\ UNCHANGED <<ctlVars, current, workVars, notify, runPc, want, handled>>
    BY <1>2 DEF RunShutDownQueue
  <2>3. QED
    BY <2>1, <2>2, QueueStep
<1>3. ASSUME NEW q \in Queues, NEW k \in Keys, DelayEnds(n, q, k)
      PROVE  Inv'
  <2>1. WQOk(wq[n][q], KeysOf(q)) /\ k \in KeysOf(q)
    BY <1>3 DEF Inv, QueuesOk, DelayEnds, WQOk, WQType
  <2>2. WQOk(Mature(wq[n][q], k), KeysOf(q)) /\ Mature(wq[n][q], k).processing = wq[n][q].processing
    BY <2>1, MatureOk
  <2>3. /\ wq' = [wq EXCEPT ![n][q] = Mature(wq[n][q], k)]
        /\ startKeys' \subseteq startKeys
        /\ UNCHANGED <<ctlVars, current, workVars, notify, runPc, want, handled>>
    BY <1>3 DEF DelayEnds
  <2>4. QED
    BY <2>2, <2>3, QueueStep
<1>4. QED
  BY <1>1, <1>2, <1>3

-------------------------------------------------------------------------------
(* The beginning of a run                                                  *)

\* run creates its queues and starts its dispatchers: Inv is kept.
LEMMA RunBeginStep ==
    ASSUME Inv, NEW n \in Starts, RunCreateQueues(n) \/ RunStartWorkers(n)
    PROVE  Inv'
<1> USE DEF queueVars, workVars
<1>1. CASE RunCreateQueues(n)
  <2>1. /\ runPc[n] = "init" /\ runPc' = [runPc EXCEPT ![n] = "fill"]
        /\ startLock' = "run" /\ current' = n
        /\ wq' = [wq EXCEPT ![n] = [q \in Queues |-> NewQueue]]
        /\ UNCHANGED <<attempt, ctxDone, started, registration, cache, startKeys,
                       workVars, notify, want, handled>>
    BY <1>1 DEF RunCreateQueues
  <2>2. \A m \in Starts : wq'[m] = IF m = n THEN [q \in Queues |-> NewQueue] ELSE wq[m]
    BY <2>1 DEF Inv, TypeOK
  <2>3. /\ \A q \in Queues : disp[n][q].pc = "off"
        /\ \A g \in Goroutines : worker[g].pc # "idle" => worker[g].run # n
    BY <2>1 DEF Inv, FreshRuns
  <2>4. QueuesOk'
    BY <2>2, NewQueueOk DEF Inv, QueuesOk
  <2>5. TypeOK'
    <3>1. NewQueue \in WQType(Keys)
      BY NewQueueOk DEF WQOk
    <3>2. wq' \in [Starts -> [Queues -> WQType(Keys)]]
      BY <2>1, <3>1 DEF Inv, TypeOK
    <3>3. runPc' \in [Starts -> RunPc] /\ current' \in 0..MaxStarts
      BY <2>1, ControllerAssumption DEF Inv, TypeOK, RunPc, Starts, ControllerAssumption
    <3>4. QED
      BY <2>1, <3>2, <3>3 DEF Inv, TypeOK
  <2>6. DispOk'
    BY <2>1, <2>2, <2>3 DEF Inv, DispOk, Held, Owns
  <2>7. WorkerOk'
    BY <2>1, <2>2, <2>3 DEF Inv, WorkerOk, Owns
  <2>8. FreshRuns'
    BY <2>1, <2>3 DEF Inv, TypeOK, FreshRuns
  <2>9. KeyExclusive' /\ TokensOk' /\ WaitGroupOk'
    BY <2>1 DEF Inv, KeyExclusive, Owns, TokensOk, Busy, Ahead, WaitGroupOk, InRun
  <2>10. QED
    BY <2>4, <2>5, <2>6, <2>7, <2>8, <2>9 DEF Inv
<1>2. CASE RunStartWorkers(n)
  <2>1. /\ runPc[n] = "fill" /\ runPc' = [runPc EXCEPT ![n] = "workers"]
        /\ startLock' = "free"
        /\ disp' = [disp EXCEPT ![n] = [q \in Queues |-> [pc |-> "get", item |-> NoKey]]]
        /\ UNCHANGED <<attempt, ctxDone, started, registration, cache, queueVars,
                       running, wg, worker, notify, want, handled>>
    BY <1>2 DEF RunStartWorkers
  <2>2. \A m \in Starts, q \in Queues :
           disp'[m][q] = IF m = n THEN [pc |-> "get", item |-> NoKey] ELSE disp[m][q]
    BY <2>1 DEF Inv, TypeOK
  <2>3. \A q \in Queues : disp[n][q].pc = "off"
    BY <2>1 DEF Inv, FreshRuns
  <2>4. TypeOK'
    <3>1. disp' \in [Starts -> [Queues -> [pc : DispPc, item : Keys \cup {NoKey}]]]
      BY <2>1 DEF Inv, TypeOK, DispPc
    <3>2. runPc' \in [Starts -> RunPc]
      BY <2>1 DEF Inv, TypeOK, RunPc
    <3>3. QED
      BY <2>1, <3>1, <3>2 DEF Inv, TypeOK
  <2>5. QueuesOk' /\ WorkerOk' /\ KeyExclusive' /\ WaitGroupOk'
    BY <2>1 DEF Inv, QueuesOk, WorkerOk, Owns, KeyExclusive, WaitGroupOk, InRun
  <2>6. DispOk'
    BY <2>1, <2>2 DEF Inv, DispOk, Held, Owns
  <2>7. FreshRuns'
    BY <2>1, <2>2 DEF Inv, TypeOK, FreshRuns
  <2>8. \A m \in Starts, q \in Queues : Ahead(m, q)' = Ahead(m, q)
    BY <2>2, <2>3 DEF Ahead
  <2>9. TokensOk'
    BY <2>1, <2>8 DEF Inv, TokensOk, Busy
  <2>10. QED
    BY <2>4, <2>5, <2>6, <2>7, <2>9 DEF Inv
<1>3. QED
  BY <1>1, <1>2

-------------------------------------------------------------------------------
(* The dispatchers                                                         *)

\* What is the same after every step of the dispatcher of queue q of run n
\* that spawns no worker: all but that dispatcher, its queue and its tokens.
LEMMA DispatchKeeps ==
    ASSUME Inv, NEW n \in Starts, NEW q \in Queues, NEW d \in [pc : DispPc, item : Keys \cup {NoKey}],
           disp[n][q].pc # "off",
           disp' = [disp EXCEPT ![n][q] = d],
           UNCHANGED <<ctlVars, wg, worker, runPc>>
    PROVE  /\ disp' \in [Starts -> [Queues -> [pc : DispPc, item : Keys \cup {NoKey}]]]
           /\ \A m \in Starts, r \in Queues : disp'[m][r] = IF m = n /\ r = q THEN d ELSE disp[m][r]
           /\ FreshRuns' /\ KeyExclusive' /\ WaitGroupOk'
           /\ \A m \in Starts, r \in Queues : Busy(m, r)' = Busy(m, r)
<1> USE DEF ctlVars
<1>1. disp' \in [Starts -> [Queues -> [pc : DispPc, item : Keys \cup {NoKey}]]]
  BY DEF Inv, TypeOK
<1>2. \A m \in Starts, r \in Queues : disp'[m][r] = IF m = n /\ r = q THEN d ELSE disp[m][r]
  BY DEF Inv, TypeOK
<1>3. FreshRuns'
  <2>1. runPc[n] \notin {"none", "init", "fill"}
    BY DEF Inv, FreshRuns
  <2>2. QED
    BY <1>2, <2>1 DEF Inv, FreshRuns
<1>4. KeyExclusive' /\ WaitGroupOk'
  BY DEF Inv, KeyExclusive, Owns, WaitGroupOk, InRun
<1>5. \A m \in Starts, r \in Queues : Busy(m, r)' = Busy(m, r)
  BY DEF Busy
<1>6. QED
  BY <1>1, <1>2, <1>3, <1>4, <1>5

\* The dispatcher gets an item: one that no worker of the run owns.
LEMMA DispatchGetStep ==
    ASSUME Inv, NEW n \in Starts, NEW q \in Queues, DispatchGet(n, q)
    PROVE  Inv'
<1> DEFINE h == Head(wq[n][q].queue)
           w == Get(wq[n][q])
           d == [pc |-> "acquire", item |-> h]
<1>1. /\ disp[n][q].pc = "get"
      /\ wq[n][q].queue # << >>
      /\ disp' = [disp EXCEPT ![n][q] = d]
      /\ wq' = [wq EXCEPT ![n][q] = w]
      /\ UNCHANGED <<ctlVars, current, startKeys, running, wg, worker, notify,
                     runPc, want, handled>>
  BY DEF DispatchGet
<1>2. WQOk(wq[n][q], KeysOf(q))
  BY DEF Inv, QueuesOk
<1>3. /\ WQOk(w, KeysOf(q))
      /\ h \in KeysOf(q) \ wq[n][q].processing
      /\ w.processing = wq[n][q].processing \cup {h}
  BY <1>1, <1>2, GetOk
<1>4. h \in Keys /\ Split[h] = q
  BY <1>3 DEF KeysOf
<1>5. d \in [pc : DispPc, item : Keys \cup {NoKey}]
  BY <1>4 DEF DispPc
<1> HIDE DEF h, w
<1>6. /\ disp' \in [Starts -> [Queues -> [pc : DispPc, item : Keys \cup {NoKey}]]]
      /\ \A m \in Starts, r \in Queues : disp'[m][r] = IF m = n /\ r = q THEN d ELSE disp[m][r]
      /\ FreshRuns' /\ KeyExclusive' /\ WaitGroupOk'
      /\ \A m \in Starts, r \in Queues : Busy(m, r)' = Busy(m, r)
  BY <1>1, <1>5, DispatchKeeps
<1>7. \A m \in Starts, r \in Queues : wq'[m][r] = IF m = n /\ r = q THEN w ELSE wq[m][r]
  BY <1>1 DEF Inv, TypeOK
<1>8. QueuesOk'
  BY <1>3, <1>7 DEF Inv, QueuesOk
<1>9. TypeOK'
  <2>1. w \in WQType(Keys)
    BY <1>3, WQWiden
  <2>2. wq' \in [Starts -> [Queues -> WQType(Keys)]]
    BY <1>1, <2>1 DEF Inv, TypeOK
  <2>3. QED
    BY <1>1, <1>6, <2>2 DEF Inv, TypeOK, ctlVars
<1>10. \A m \in Starts, r \in Queues : wq[m][r].processing \subseteq wq'[m][r].processing
  BY <1>3, <1>7
<1>11. WorkerOk'
  BY <1>1, <1>10, ControllerAssumption DEF Inv, WorkerOk, Owns, ControllerAssumption
<1>12. DispOk'
  <2>1. \A g \in Goroutines : Owns(g) /\ worker[g].run = n => worker[g].key # h
    BY <1>3, <1>4 DEF Inv, WorkerOk, Owns
  <2>2. Held(n, q)' => /\ disp'[n][q].item \in KeysOf(q)
                       /\ disp'[n][q].item \in wq'[n][q].processing
                       /\ \A g \in Goroutines : Owns(g)' /\ worker'[g].run = n => worker'[g].key # disp'[n][q].item
    BY <1>1, <1>3, <1>6, <1>7, <2>1 DEF Owns
  <2>3. QED
    BY <1>1, <1>6, <1>10, <2>2 DEF Inv, DispOk, Held, Owns
<1>13. TokensOk'
  <2>1. \A m \in Starts, r \in Queues : Ahead(m, r)' = Ahead(m, r)
    BY <1>1, <1>6 DEF Ahead
  <2>2. QED
    BY <1>1, <1>6, <2>1 DEF Inv, TokensOk
<1>14. QED
  BY <1>6, <1>8, <1>9, <1>11, <1>12, <1>13 DEF Inv

\* The dispatcher ends, takes a token, or looks at the shutdown flag.
LEMMA DispatchTokenStep ==
    ASSUME Inv, NEW n \in Starts, NEW q \in Queues,
           DispatchShutdown(n, q) \/ DispatchAcquire(n, q) \/ DispatchCheck(n, q)
    PROVE  Inv'
<1> USE DEF queueVars
<1>1. PICK d \in [pc : DispPc, item : Keys \cup {NoKey}] :
         /\ disp' = [disp EXCEPT ![n][q] = d]
         /\ d.pc \in {"exited", "check", "add"}
         /\ d.pc # "exited" => Held(n, q) /\ d.item = disp[n][q].item
         /\ d.pc = "add" => disp[n][q].pc = "check"
  <2>1. disp[n][q] \in [pc : DispPc, item : Keys \cup {NoKey}]
    BY DEF Inv, TypeOK
  <2> DEFINE exited == [pc |-> "exited", item |-> NoKey]
  <2>2. exited \in [pc : DispPc, item : Keys \cup {NoKey}] /\ exited.pc = "exited"
    BY DEF DispPc
  <2>3. CASE DispatchShutdown(n, q)
    <3>1. disp' = [disp EXCEPT ![n][q] = exited]
      BY <2>3 DEF DispatchShutdown
    <3> HIDE DEF exited
    <3>2. QED
      BY <2>2, <3>1
  <2>4. CASE DispatchAcquire(n, q)
    <3>1. disp' = [disp EXCEPT ![n][q] = [disp[n][q] EXCEPT !.pc = "check"]]
      BY <2>4 DEF DispatchAcquire, Inv, TypeOK
    <3>2. disp[n][q].pc = "acquire"
      BY <2>4 DEF DispatchAcquire
    <3> DEFINE e == [disp[n][q] EXCEPT !.pc = "check"]
    <3>3. e \in [pc : DispPc, item : Keys \cup {NoKey}] /\ e.pc = "check" /\ e.item = disp[n][q].item
      BY <2>1 DEF DispPc
    <3> HIDE DEF e
    <3>4. QED
      BY <3>1, <3>2, <3>3 DEF Held, e
  <2>5. CASE DispatchCheck(n, q)
    <3>1. CASE wq[n][q].down
      <4>1. disp' = [disp EXCEPT ![n][q] = exited]
        BY <2>5, <3>1 DEF DispatchCheck
      <4> HIDE DEF exited
      <4>2. QED
        BY <2>2, <4>1
    <3>2. CASE ~wq[n][q].down
      <4>1. disp' = [disp EXCEPT ![n][q] = [disp[n][q] EXCEPT !.pc = "add"]]
        BY <2>5, <3>2 DEF DispatchCheck
      <4>2. disp[n][q].pc = "check"
        BY <2>5 DEF DispatchCheck
      <4> DEFINE e == [disp[n][q] EXCEPT !.pc = "add"]
      <4>3. e \in [pc : DispPc, item : Keys \cup {NoKey}] /\ e.pc = "add" /\ e.item = disp[n][q].item
        BY <2>1 DEF DispPc
      <4> HIDE DEF e
      <4>4. QED
        BY <4>1, <4>2, <4>3 DEF Held, e
    <3>3. QED
      BY <3>1, <3>2
  <2>6. QED
    BY <2>3, <2>4, <2>5
<1>2. /\ disp[n][q].pc # "off"
      /\ UNCHANGED <<ctlVars, queueVars, wg, worker, notify, runPc, want, handled>>
  BY DEF DispatchShutdown, DispatchAcquire, DispatchCheck
<1>3. \/ d.pc # "check" /\ UNCHANGED running
      \/ /\ disp[n][q].pc = "acquire" /\ d.pc = "check"
         /\ running[n][q] < PerQueue
         /\ running' = [running EXCEPT ![n][q] = running[n][q] + 1]
  <2>1. disp'[n][q] = d
    BY <1>1 DEF Inv, TypeOK
  <2>2. CASE DispatchShutdown(n, q)
    BY <2>1, <2>2 DEF DispatchShutdown, Inv, TypeOK
  <2>3. CASE DispatchAcquire(n, q)
    BY <2>1, <2>3 DEF DispatchAcquire, Inv, TypeOK
  <2>4. CASE DispatchCheck(n, q)
    BY <2>1, <2>4 DEF DispatchCheck, Inv, TypeOK
  <2>5. QED
    BY <2>2, <2>3, <2>4
<1>4. /\ disp' \in [Starts -> [Queues -> [pc : DispPc, item : Keys \cup {NoKey}]]]
      /\ \A m \in Starts, r \in Queues : disp'[m][r] = IF m = n /\ r = q THEN d ELSE disp[m][r]
      /\ FreshRuns' /\ KeyExclusive' /\ WaitGroupOk'
      /\ \A m \in Starts, r \in Queues : Busy(m, r)' = Busy(m, r)
  BY <1>1, <1>2, DispatchKeeps
<1>5. TypeOK'
  <2>1. running' \in [Starts -> [Queues -> Nat]]
    <3>1. running[n][q] + 1 \in Nat /\ running \in [Starts -> [Queues -> Nat]]
      BY DEF Inv, TypeOK
    <3>2. [running EXCEPT ![n][q] = running[n][q] + 1] \in [Starts -> [Queues -> Nat]]
      BY <3>1
    <3>3. QED
      BY <1>3, <3>1, <3>2
  <2>2. QED
    BY <1>2, <1>4, <2>1 DEF Inv, TypeOK, ctlVars
<1>6. QueuesOk' /\ WorkerOk'
  BY <1>2 DEF Inv, QueuesOk, WorkerOk, Owns
<1>7. DispOk'
  BY <1>1, <1>2, <1>4 DEF Inv, DispOk, Held, Owns
<1>8. TokensOk'
  <2>1. SUFFICES ASSUME NEW m \in Starts, NEW r \in Queues
                 PROVE  /\ Cardinality(Busy(m, r)) + Ahead(m, r)' <= running'[m][r]
                        /\ running'[m][r] <= PerQueue
    BY <1>4 DEF TokensOk
  <2>2. /\ Cardinality(Busy(m, r)) + Ahead(m, r) <= running[m][r]
        /\ running[m][r] <= PerQueue
        /\ running[m][r] \in Nat
    BY DEF Inv, TokensOk, TypeOK
  <2>3. Cardinality(Busy(m, r)) \in Nat
    <3>1. IsFiniteSet(Goroutines) /\ Busy(m, r) \subseteq Goroutines
      BY ControllerAssumption DEF ControllerAssumption, Busy
    <3>2. QED
      BY <3>1, FS_Subset, FS_CardinalityType
  <2>4. PerQueue \in Nat
    BY ControllerAssumption DEF ControllerAssumption, PerQueue
  <2>5. CASE ~(m = n /\ r = q)
    BY <1>3, <1>4, <2>2, <2>5 DEF Ahead, Inv, TypeOK
  <2>6. CASE m = n /\ r = q /\ d.pc = "check"
    BY <1>3, <1>4, <2>2, <2>3, <2>4, <2>6 DEF Ahead, Inv, TypeOK
  <2>7. CASE m = n /\ r = q /\ d.pc # "check"
    BY <1>1, <1>3, <1>4, <2>2, <2>3, <2>7 DEF Ahead
  <2>8. QED
    BY <2>5, <2>6, <2>7
<1>9. QED
  BY <1>4, <1>5, <1>6, <1>7, <1>8 DEF Inv

\* The sets of workers are finite.
LEMMA FiniteWorkers ==
    ASSUME NEW S, S \subseteq Goroutines
    PROVE  IsFiniteSet(S) /\ Cardinality(S) \in Nat
<1>1. IsFiniteSet(Goroutines)
  BY ControllerAssumption DEF ControllerAssumption
<1>2. QED
  BY <1>1, FS_Subset, FS_CardinalityType

\* The dispatcher passes its item on to a worker, which uses its token.
LEMMA DispatchSpawnStep ==
    ASSUME Inv, NEW n \in Starts, NEW q \in Queues, NEW g \in Goroutines, DispatchSpawn(n, q, g)
    PROVE  Inv'
<1> USE DEF queueVars
<1> DEFINE k == disp[n][q].item
           new == [pc |-> "start", run |-> n, key |-> k]
           d == [pc |-> "get", item |-> NoKey]
<1>1. /\ disp[n][q].pc = "add" /\ worker[g].pc = "idle"
      /\ wg' = [wg EXCEPT ![n] = wg[n] + 1]
      /\ worker' = [worker EXCEPT ![g] = new]
      /\ disp' = [disp EXCEPT ![n][q] = d]
      /\ UNCHANGED <<ctlVars, queueVars, running, notify, runPc, want, handled>>
  BY DEF DispatchSpawn
<1>2. /\ k \in Keys /\ Split[k] = q /\ k \in wq[n][q].processing
      /\ \A f \in Goroutines : Owns(f) /\ worker[f].run = n => worker[f].key # k
  BY <1>1 DEF Inv, DispOk, Held, KeysOf
<1>3. \A m \in Starts, r \in Queues : disp'[m][r] = IF m = n /\ r = q THEN d ELSE disp[m][r]
  BY <1>1 DEF Inv, TypeOK
<1>4. \A f \in Goroutines : worker'[f] = IF f = g THEN new ELSE worker[f]
  BY <1>1 DEF Inv, TypeOK
<1>5. runPc[n] \notin {"none", "init", "fill"}
  BY <1>1 DEF Inv, FreshRuns
<1>6. TypeOK'
  <2>1. new \in [pc : WorkerPc, run : 0..MaxStarts, key : Keys \cup {NoKey}]
    BY <1>2, ControllerAssumption DEF WorkerPc, Starts, ControllerAssumption
  <2>2. d \in [pc : DispPc, item : Keys \cup {NoKey}]
    BY DEF DispPc
  <2>3. wg' \in [Starts -> Nat]
    BY <1>1 DEF Inv, TypeOK
  <2> HIDE DEF new, d
  <2>4. worker' \in [Goroutines -> [pc : WorkerPc, run : 0..MaxStarts, key : Keys \cup {NoKey}]]
    BY <1>1, <2>1 DEF Inv, TypeOK
  <2>5. disp' \in [Starts -> [Queues -> [pc : DispPc, item : Keys \cup {NoKey}]]]
    BY <1>1, <2>2 DEF Inv, TypeOK
  <2>6. QED
    BY <1>1, <2>3, <2>4, <2>5 DEF Inv, TypeOK, ctlVars
<1>7. QueuesOk'
  BY <1>1 DEF Inv, QueuesOk
<1>8. WorkerOk'
  BY <1>1, <1>2, <1>4 DEF Inv, WorkerOk, Owns
<1>9. FreshRuns'
  BY <1>1, <1>3, <1>4, <1>5 DEF Inv, FreshRuns, ctlVars
<1>10. KeyExclusive'
  BY <1>2, <1>4 DEF Inv, KeyExclusive, Owns
<1>11. DispOk'
  <2> SUFFICES ASSUME NEW m \in Starts, NEW r \in Queues, Held(m, r)'
               PROVE  /\ disp'[m][r].item \in KeysOf(r)
                      /\ disp'[m][r].item \in wq'[m][r].processing
                      /\ \A f \in Goroutines : Owns(f)' /\ worker'[f].run = m
                                              => worker'[f].key # disp'[m][r].item
    BY DEF DispOk
  <2>1. ~(m = n /\ r = q)
    BY <1>3 DEF Held
  <2>2. disp'[m][r] = disp[m][r] /\ Held(m, r)
    BY <1>3, <2>1 DEF Held
  <2>3. /\ disp[m][r].item \in KeysOf(r)
        /\ disp[m][r].item \in wq[m][r].processing
        /\ \A f \in Goroutines : Owns(f) /\ worker[f].run = m => worker[f].key # disp[m][r].item
    BY <2>2 DEF Inv, DispOk
  <2>4. m = n => disp[m][r].item # k
    BY <1>2, <2>1, <2>3 DEF KeysOf
  <2>5. QED
    BY <1>1, <1>4, <2>2, <2>3, <2>4 DEF Owns
<1>12. TokensOk'
  <2> SUFFICES ASSUME NEW m \in Starts, NEW r \in Queues
               PROVE  /\ Cardinality(Busy(m, r)') + Ahead(m, r)' <= running[m][r]
                      /\ running[m][r] <= PerQueue
    BY <1>1 DEF TokensOk
  <2>1. /\ Cardinality(Busy(m, r)) + Ahead(m, r) <= running[m][r]
        /\ running[m][r] <= PerQueue
    BY DEF Inv, TokensOk
  <2>2. CASE m = n /\ r = q
    <3>1. Busy(m, r)' = Busy(m, r) \cup {g} /\ g \notin Busy(m, r)
      BY <1>1, <1>2, <1>4, <2>2 DEF Busy
    <3>2. IsFiniteSet(Busy(m, r)) /\ Cardinality(Busy(m, r)) \in Nat
      BY FiniteWorkers DEF Busy
    <3>3. Cardinality(Busy(m, r)') = Cardinality(Busy(m, r)) + 1
      BY <3>1, <3>2, FS_AddElement
    <3>4. Ahead(m, r)' = 0 /\ Ahead(m, r) = 1
      BY <1>1, <1>3, <2>2 DEF Ahead
    <3>5. QED
      BY <2>1, <3>2, <3>3, <3>4
  <2>3. CASE ~(m = n /\ r = q)
    <3>1. Busy(m, r)' = Busy(m, r)
      BY <1>1, <1>2, <1>4, <2>3 DEF Busy
    <3>2. Ahead(m, r)' = Ahead(m, r)
      BY <1>3, <2>3 DEF Ahead
    <3>3. QED
      BY <2>1, <3>1, <3>2
  <2>4. QED
    BY <2>2, <2>3
<1>13. WaitGroupOk'
  <2> SUFFICES ASSUME NEW m \in Starts
               PROVE  wg'[m] = Cardinality(InRun(m)')
    BY DEF WaitGroupOk
  <2>1. wg[m] = Cardinality(InRun(m))
    BY DEF Inv, WaitGroupOk
  <2>2. CASE m = n
    <3>1. InRun(m)' = InRun(m) \cup {g} /\ g \notin InRun(m)
      BY <1>1, <1>4, <2>2 DEF InRun
    <3>2. IsFiniteSet(InRun(m))
      BY FiniteWorkers DEF InRun
    <3>3. Cardinality(InRun(m)') = Cardinality(InRun(m)) + 1
      BY <3>1, <3>2, FS_AddElement
    <3>4. wg'[m] = wg[m] + 1
      BY <1>1, <2>2 DEF Inv, TypeOK
    <3>5. QED
      BY <2>1, <3>3, <3>4
  <2>3. CASE m # n
    <3>1. InRun(m)' = InRun(m)
      BY <1>1, <1>4, <2>3 DEF InRun
    <3>2. QED
      BY <1>1, <2>1, <2>3, <3>1 DEF Inv, TypeOK
  <2>4. QED
    BY <2>2, <2>3
<1>14. QED
  BY <1>6, <1>7, <1>8, <1>9, <1>10, <1>11, <1>12, <1>13 DEF Inv

-------------------------------------------------------------------------------
(* The workers                                                             *)

\* Moving a worker from one control point to another, neither of them idle,
\* leaves the workers of every run and queue the same.
LEMMA SameWorkers ==
    ASSUME Inv, NEW g \in Goroutines, worker[g].pc # "idle", NEW p \in WorkerPc \ {"idle"},
           worker' = [worker EXCEPT ![g].pc = p]
    PROVE  /\ worker' \in [Goroutines -> [pc : WorkerPc, run : 0..MaxStarts, key : Keys \cup {NoKey}]]
           /\ \A f \in Goroutines : /\ worker'[f].run = worker[f].run /\ worker'[f].key = worker[f].key
                                    /\ worker'[f].pc = IF f = g THEN p ELSE worker[f].pc
           /\ \A m \in Starts, r \in Queues : Busy(m, r)' = Busy(m, r)
           /\ \A m \in Starts : InRun(m)' = InRun(m)
<1>1. worker' \in [Goroutines -> [pc : WorkerPc, run : 0..MaxStarts, key : Keys \cup {NoKey}]]
  BY DEF Inv, TypeOK
<1>2. \A f \in Goroutines : /\ worker'[f].run = worker[f].run /\ worker'[f].key = worker[f].key
                           /\ worker'[f].pc = IF f = g THEN p ELSE worker[f].pc
  BY DEF Inv, TypeOK
<1>3. \A f \in Goroutines : (worker'[f].pc # "idle") <=> (worker[f].pc # "idle")
  BY <1>2
<1>4. QED
  BY <1>1, <1>2, <1>3 DEF Busy, InRun

\* A worker goes on with a key that it keeps.
LEMMA SyncKeeps ==
    ASSUME Inv, NEW g \in Goroutines, worker[g].pc \in {"start", "sync"}, NEW p \in {"sync", "done"},
           worker' = [worker EXCEPT ![g].pc = p],
           UNCHANGED <<ctlVars, current, startKeys, disp, running, wg, notify, runPc, want>>,
           handled' \in [Keys -> 0..MaxDemand],
           QueuesOk', wq' \in [Starts -> [Queues -> WQType(Keys)]],
           \A m \in Starts, r \in Queues : wq'[m][r].processing = wq[m][r].processing
    PROVE  Inv'
<1> USE DEF ctlVars
<1>1. worker[g].pc # "idle" /\ p \in WorkerPc \ {"idle"}
  BY DEF WorkerPc
<1>2. /\ worker' \in [Goroutines -> [pc : WorkerPc, run : 0..MaxStarts, key : Keys \cup {NoKey}]]
      /\ \A f \in Goroutines : /\ worker'[f].run = worker[f].run /\ worker'[f].key = worker[f].key
                               /\ worker'[f].pc = IF f = g THEN p ELSE worker[f].pc
      /\ \A m \in Starts, r \in Queues : Busy(m, r)' = Busy(m, r)
      /\ \A m \in Starts : InRun(m)' = InRun(m)
  BY <1>1, SameWorkers
<1>3. \A f \in Goroutines : Owns(f)' <=> Owns(f)
  BY <1>2 DEF Owns
<1>4. TypeOK'
  BY <1>2 DEF Inv, TypeOK
<1>5. DispOk'
  BY <1>2, <1>3 DEF Inv, DispOk, Held
<1>6. WorkerOk'
  <2> SUFFICES ASSUME NEW f \in Goroutines, worker'[f].pc # "idle"
               PROVE  /\ worker'[f].run \in Starts
                      /\ worker'[f].key \in Keys
                      /\ Owns(f)' => worker'[f].key \in wq'[worker'[f].run][Split[worker'[f].key]].processing
    BY DEF WorkerOk
  <2>1. /\ worker[f].run \in Starts
        /\ worker[f].key \in Keys
        /\ Owns(f) => worker[f].key \in wq[worker[f].run][Split[worker[f].key]].processing
    BY <1>1, <1>2 DEF Inv, WorkerOk
  <2>2. Split[worker[f].key] \in Queues
    BY <2>1, ControllerAssumption DEF ControllerAssumption
  <2>3. QED
    BY <1>2, <1>3, <2>1, <2>2, SMTT(30)
<1>7. FreshRuns'
  BY <1>1, <1>2 DEF Inv, FreshRuns
<1>8. KeyExclusive'
  BY <1>2, <1>3 DEF Inv, KeyExclusive
<1>9. TokensOk' /\ WaitGroupOk'
  BY <1>2 DEF Inv, TokensOk, Ahead, WaitGroupOk
<1>10. QED
  BY <1>4, <1>5, <1>6, <1>7, <1>8, <1>9 DEF Inv

\* syncHandler and its two outcomes keep Inv; a failure only delays the key.
LEMMA SyncStep ==
    ASSUME Inv, NEW g \in Goroutines, SyncHandler(g) \/ SyncOk(g) \/ SyncError(g)
    PROVE  Inv'
<1> DEFINE k == worker[g].key
           n == worker[g].run
<1>1. worker[g].pc # "idle"
  BY DEF SyncHandler, SyncOk, SyncError
<1>2. n \in Starts /\ k \in Keys /\ Split[k] \in Queues /\ k \in KeysOf(Split[k])
  BY <1>1, ControllerAssumption DEF Inv, WorkerOk, ControllerAssumption, KeysOf
<1>3. CASE SyncHandler(g)
  <2>1. /\ worker[g].pc = "start" /\ worker' = [worker EXCEPT ![g].pc = "sync"]
        /\ handled' = [handled EXCEPT ![k] = want[k]]
        /\ UNCHANGED <<ctlVars, queueVars, disp, running, wg, notify, runPc, want>>
    BY <1>3 DEF SyncHandler
  <2>2. handled' \in [Keys -> 0..MaxDemand]
    BY <1>2, <2>1 DEF Inv, TypeOK
  <2>3. QueuesOk' /\ wq' \in [Starts -> [Queues -> WQType(Keys)]] /\ wq' = wq
    BY <2>1 DEF Inv, TypeOK, QueuesOk, queueVars
  <2>4. QED
    BY <2>1, <2>2, <2>3, SyncKeeps DEF queueVars
<1>4. CASE SyncOk(g)
  <2>1. /\ worker[g].pc = "sync" /\ worker' = [worker EXCEPT ![g].pc = "done"]
        /\ UNCHANGED <<ctlVars, queueVars, disp, running, wg, notify, runPc, want, handled>>
    BY <1>4 DEF SyncOk
  <2>2. handled' \in [Keys -> 0..MaxDemand]
    BY <2>1 DEF Inv, TypeOK
  <2>3. QueuesOk' /\ wq' \in [Starts -> [Queues -> WQType(Keys)]] /\ wq' = wq
    BY <2>1 DEF Inv, TypeOK, QueuesOk, queueVars
  <2>4. QED
    BY <2>1, <2>2, <2>3, SyncKeeps DEF queueVars
<1>5. CASE SyncError(g)
  <2> DEFINE w == AddAfter(wq[n][Split[k]], k, TRUE)
  <2>1. /\ worker[g].pc = "sync" /\ worker' = [worker EXCEPT ![g].pc = "done"]
        /\ wq' = [wq EXCEPT ![n][Split[k]] = w]
        /\ handled' = [handled EXCEPT ![k] = 0]
        /\ UNCHANGED <<ctlVars, current, startKeys, disp, running, wg, notify, runPc, want>>
    BY <1>5 DEF SyncError
  <2>2. WQOk(wq[n][Split[k]], KeysOf(Split[k]))
    BY <1>2 DEF Inv, QueuesOk
  <2>3. WQOk(w, KeysOf(Split[k])) /\ w.processing = wq[n][Split[k]].processing
    BY <1>2, <2>2, AddAfterOk
  <2>4. handled' \in [Keys -> 0..MaxDemand]
    BY <1>2, <2>1, ControllerAssumption DEF Inv, TypeOK, ControllerAssumption
  <2> HIDE DEF w, k, n
  <2>5. /\ QueuesOk'
        /\ wq' \in [Starts -> [Queues -> WQType(Keys)]]
        /\ \A m \in Starts, r \in Queues : wq'[m][r].processing = wq[m][r].processing
    BY <1>2, <2>1, <2>3, WQUpdate DEF Inv, TypeOK
  <2>6. QED
    BY <2>1, <2>4, <2>5, SyncKeeps
<1>6. QED
  BY <1>3, <1>4, <1>5

\* The worker gives its key back; no other worker and no dispatcher has it.
LEMMA QueueDoneStep ==
    ASSUME Inv, NEW g \in Goroutines, QueueDone(g)
    PROVE  Inv'
<1> USE DEF ctlVars
<1> DEFINE k == worker[g].key
           n == worker[g].run
           q == Split[k]
           w == Done(wq[n][q], k)
<1>1. /\ worker[g].pc = "done" /\ worker' = [worker EXCEPT ![g].pc = "release"]
      /\ wq' = [wq EXCEPT ![n][q] = w]
      /\ UNCHANGED <<ctlVars, current, startKeys, disp, running, wg, notify, runPc, want, handled>>
  BY DEF QueueDone
<1>2. n \in Starts /\ k \in Keys /\ q \in Queues /\ k \in wq[n][q].processing
  BY <1>1, ControllerAssumption DEF Inv, WorkerOk, Owns, ControllerAssumption
<1>3. WQOk(w, KeysOf(q)) /\ w.processing = wq[n][q].processing \ {k}
  <2>1. WQOk(wq[n][q], KeysOf(q))
    BY <1>2 DEF Inv, QueuesOk
  <2> HIDE DEF k, n, q
  <2>2. QED
    BY <1>2, <2>1, DoneOk
<1>4. worker[g].pc # "idle" /\ "release" \in WorkerPc \ {"idle"}
  BY <1>1 DEF WorkerPc
<1>5. /\ worker' \in [Goroutines -> [pc : WorkerPc, run : 0..MaxStarts, key : Keys \cup {NoKey}]]
      /\ \A f \in Goroutines : /\ worker'[f].run = worker[f].run /\ worker'[f].key = worker[f].key
                               /\ worker'[f].pc = IF f = g THEN "release" ELSE worker[f].pc
      /\ \A m \in Starts, r \in Queues : Busy(m, r)' = Busy(m, r)
      /\ \A m \in Starts : InRun(m)' = InRun(m)
  BY <1>1, <1>4, SameWorkers
<1>6. \A f \in Goroutines : Owns(f)' <=> Owns(f) /\ f # g
  BY <1>5 DEF Owns
<1>7. Owns(g)
  BY <1>1 DEF Owns
<1> HIDE DEF w
<1>8. \A m \in Starts, r \in Queues : wq'[m][r] = IF m = n /\ r = q THEN w ELSE wq[m][r]
  BY <1>1 DEF Inv, TypeOK
<1>9. \A m \in Starts, r \in Queues, i \in Keys :
        /\ i \in wq[m][r].processing
        /\ ~(m = n /\ r = q /\ i = k)
        => i \in wq'[m][r].processing
  BY <1>3, <1>8
<1>10. QueuesOk'
  BY <1>3, <1>8 DEF Inv, QueuesOk
<1>11. TypeOK'
  <2>1. w \in WQType(Keys)
    BY <1>3, WQWiden
  <2>2. wq' \in [Starts -> [Queues -> WQType(Keys)]]
    BY <1>1, <1>2, <2>1 DEF Inv, TypeOK
  <2>3. QED
    BY <1>1, <1>5, <2>2 DEF Inv, TypeOK
<1>12. KeyExclusive'
  BY <1>5, <1>6 DEF Inv, KeyExclusive
<1>13. WorkerOk'
  <2> SUFFICES ASSUME NEW f \in Goroutines, worker'[f].pc # "idle"
               PROVE  /\ worker'[f].run \in Starts
                      /\ worker'[f].key \in Keys
                      /\ Owns(f)' => worker'[f].key \in wq'[worker'[f].run][Split[worker'[f].key]].processing
    BY DEF WorkerOk
  <2>1. /\ worker[f].run \in Starts
        /\ worker[f].key \in Keys
        /\ Owns(f) => worker[f].key \in wq[worker[f].run][Split[worker[f].key]].processing
    BY <1>4, <1>5 DEF Inv, WorkerOk
  <2>2. Split[worker[f].key] \in Queues
    BY <2>1, ControllerAssumption DEF ControllerAssumption
  <2>3. Owns(f)' => ~(worker[f].run = n /\ worker[f].key = k)
    BY <1>6, <1>7 DEF Inv, KeyExclusive
  <2>4. QED
    BY <1>5, <1>6, <1>9, <2>1, <2>2, <2>3
<1>14. DispOk'
  <2> SUFFICES ASSUME NEW m \in Starts, NEW r \in Queues, Held(m, r)
               PROVE  /\ disp[m][r].item \in KeysOf(r)
                      /\ disp[m][r].item \in wq'[m][r].processing
                      /\ \A f \in Goroutines : Owns(f)' /\ worker'[f].run = m
                                              => worker'[f].key # disp[m][r].item
    BY <1>1 DEF DispOk, Held
  <2>1. /\ disp[m][r].item \in KeysOf(r)
        /\ disp[m][r].item \in wq[m][r].processing
        /\ \A f \in Goroutines : Owns(f) /\ worker[f].run = m => worker[f].key # disp[m][r].item
    BY DEF Inv, DispOk
  <2>2. disp[m][r].item \in Keys /\ (m = n => disp[m][r].item # k)
    BY <1>7, <2>1 DEF KeysOf
  <2>3. QED
    BY <1>5, <1>6, <1>9, <2>1, <2>2
<1>15. FreshRuns'
  BY <1>1, <1>4, <1>5 DEF Inv, FreshRuns
<1>16. TokensOk' /\ WaitGroupOk'
  BY <1>1, <1>5 DEF Inv, TokensOk, Ahead, WaitGroupOk
<1>17. QED
  BY <1>10, <1>11, <1>12, <1>13, <1>14, <1>15, <1>16 DEF Inv

\* The worker takes its token out of the semaphore and ends.
LEMMA ReleaseStep ==
    ASSUME Inv, NEW g \in Goroutines, Release(g)
    PROVE  Inv'
<1> USE DEF ctlVars, queueVars
<1> DEFINE k == worker[g].key
           n == worker[g].run
           q == Split[k]
<1>1. /\ worker[g].pc = "release" /\ worker' = [worker EXCEPT ![g] = Idle]
      /\ running' = [running EXCEPT ![n][q] = running[n][q] - 1]
      /\ wg' = [wg EXCEPT ![n] = wg[n] - 1]
      /\ UNCHANGED <<ctlVars, queueVars, disp, notify, runPc, want, handled>>
  BY DEF Release
<1>2. n \in Starts /\ k \in Keys /\ q \in Queues
  BY <1>1, ControllerAssumption DEF Inv, WorkerOk, ControllerAssumption
<1>3. Idle.pc = "idle" /\ Idle \in [pc : WorkerPc, run : 0..MaxStarts, key : Keys \cup {NoKey}]
  BY ControllerAssumption DEF Idle, WorkerPc, ControllerAssumption
<1>4. \A f \in Goroutines : worker'[f] = IF f = g THEN Idle ELSE worker[f]
  BY <1>1 DEF Inv, TypeOK
<1>5. \A f \in Goroutines : worker'[f].pc # "idle" => f # g /\ worker'[f] = worker[f]
  BY <1>3, <1>4
<1>6. /\ \A m \in Starts, r \in Queues :
            Busy(m, r)' = IF m = n /\ r = q THEN Busy(m, r) \ {g} ELSE Busy(m, r)
      /\ \A m \in Starts : InRun(m)' = IF m = n THEN InRun(m) \ {g} ELSE InRun(m)
      /\ g \in Busy(n, q) /\ g \in InRun(n)
  BY <1>1, <1>3, <1>4 DEF Busy, InRun
<1>7. /\ Cardinality(Busy(n, q) \ {g}) = Cardinality(Busy(n, q)) - 1
      /\ Cardinality(InRun(n) \ {g}) = Cardinality(InRun(n)) - 1
      /\ Cardinality(Busy(n, q) \ {g}) \in Nat
      /\ Cardinality(InRun(n) \ {g}) \in Nat
  <2>1. /\ IsFiniteSet(Busy(n, q)) /\ IsFiniteSet(InRun(n))
        /\ Busy(n, q) \ {g} \subseteq Goroutines /\ InRun(n) \ {g} \subseteq Goroutines
    BY FiniteWorkers DEF Busy, InRun
  <2>2. QED
    BY <1>6, <2>1, FiniteWorkers, FS_RemoveElement
<1>8. \A m \in Starts, r \in Queues :
         running'[m][r] = IF m = n /\ r = q THEN running[m][r] - 1 ELSE running[m][r]
  BY <1>1 DEF Inv, TypeOK
<1>9. running[n][q] - 1 \in Nat /\ wg[n] - 1 \in Nat
  <2>1. /\ Cardinality(Busy(n, q)) + Ahead(n, q) <= running[n][q]
        /\ wg[n] = Cardinality(InRun(n))
        /\ running[n][q] \in Nat /\ Ahead(n, q) \in Nat
    BY <1>2 DEF Inv, TokensOk, WaitGroupOk, TypeOK, Ahead
  <2>2. /\ Cardinality(Busy(n, q)) = Cardinality(Busy(n, q) \ {g}) + 1
        /\ Cardinality(InRun(n)) = Cardinality(InRun(n) \ {g}) + 1
    <3>1. Cardinality(Busy(n, q)) \in Nat /\ Cardinality(InRun(n)) \in Nat
      BY FiniteWorkers DEF Busy, InRun
    <3>2. QED
      BY <1>7, <3>1
  <2>3. QED
    BY <1>7, <2>1, <2>2
<1>10. TypeOK'
  <2>1. worker' \in [Goroutines -> [pc : WorkerPc, run : 0..MaxStarts, key : Keys \cup {NoKey}]]
    BY <1>1, <1>3 DEF Inv, TypeOK
  <2>2. running' \in [Starts -> [Queues -> Nat]] /\ wg' \in [Starts -> Nat]
    BY <1>1, <1>9 DEF Inv, TypeOK
  <2>3. QED
    BY <1>1, <2>1, <2>2 DEF Inv, TypeOK
<1>11. QueuesOk'
  BY <1>1 DEF Inv, QueuesOk
<1>12. WorkerOk' /\ KeyExclusive'
  BY <1>1, <1>5 DEF Inv, WorkerOk, KeyExclusive, Owns
<1>13. DispOk'
  BY <1>1, <1>5 DEF Inv, DispOk, Held, Owns
<1>14. FreshRuns'
  BY <1>1, <1>5 DEF Inv, FreshRuns
<1>15. TokensOk'
  <2> SUFFICES ASSUME NEW m \in Starts, NEW r \in Queues
               PROVE  /\ Cardinality(Busy(m, r)') + Ahead(m, r) <= running'[m][r]
                      /\ running'[m][r] <= PerQueue
    BY <1>1 DEF TokensOk, Ahead
  <2>1. /\ Cardinality(Busy(m, r)) + Ahead(m, r) <= running[m][r]
        /\ running[m][r] <= PerQueue
        /\ running[m][r] \in Nat /\ Ahead(m, r) \in Nat /\ PerQueue \in Nat
    BY ControllerAssumption DEF Inv, TokensOk, TypeOK, Ahead, PerQueue, ControllerAssumption
  <2>2. Cardinality(Busy(m, r)) \in Nat
    BY FiniteWorkers DEF Busy
  <2>3. CASE m = n /\ r = q
    <3>1. Cardinality(Busy(m, r)') = Cardinality(Busy(m, r)) - 1
      BY <1>6, <1>7, <2>3
    <3>2. running'[m][r] = running[m][r] - 1
      BY <1>8, <2>3
    <3>3. QED
      BY <2>1, <2>2, <3>1, <3>2
  <2>4. CASE ~(m = n /\ r = q)
    BY <1>6, <1>8, <2>1, <2>4
  <2>5. QED
    BY <2>3, <2>4
<1>16. WaitGroupOk'
  <2>1. \A m \in Starts : wg'[m] = IF m = n THEN wg[m] - 1 ELSE wg[m]
    BY <1>1 DEF Inv, TypeOK
  <2>2. QED
    BY <1>6, <1>7, <2>1 DEF Inv, WaitGroupOk
<1>17. QED
  BY <1>10, <1>11, <1>12, <1>13, <1>14, <1>15, <1>16 DEF Inv

-------------------------------------------------------------------------------
(* The theorems                                                            *)

\* Inv holds before the controller is first started.
LEMMA InitInv == Init => Inv
<1> SUFFICES ASSUME Init PROVE Inv
  OBVIOUS
<1> USE ControllerAssumption DEF ControllerAssumption
<1>1. TypeOK
  <2>1. NewQueue \in WQType(Keys)
    BY NewQueueOk DEF WQOk
  <2>2. Idle \in [pc : WorkerPc, run : 0..MaxStarts, key : Keys \cup {NoKey}]
    BY DEF Idle, WorkerPc
  <2>3. [pc |-> "off", item |-> NoKey] \in [pc : DispPc, item : Keys \cup {NoKey}]
    BY DEF DispPc
  <2>4. /\ wq \in [Starts -> [Queues -> WQType(Keys)]]
        /\ disp \in [Starts -> [Queues -> [pc : DispPc, item : Keys \cup {NoKey}]]]
        /\ worker \in [Goroutines -> [pc : WorkerPc, run : 0..MaxStarts, key : Keys \cup {NoKey}]]
    BY <2>1, <2>2, <2>3 DEF Init
  <2>5. /\ running \in [Starts -> [Queues -> Nat]] /\ wg \in [Starts -> Nat]
        /\ want \in [Keys -> 0..MaxDemand] /\ handled \in [Keys -> 0..MaxDemand]
        /\ ctxDone \in [Starts -> BOOLEAN] /\ runPc \in [Starts -> RunPc]
    BY DEF Init, RunPc
  <2>6. /\ startLock \in {"free", "start", "run"} /\ startKeys \subseteq StartKey
        /\ registration \in {"nil", "active", "removed"} /\ notify \subseteq Objects
        /\ cache \in {"new", "started", "synced"} /\ started \in BOOLEAN
    BY Zenon DEF Init
  <2>7. attempt \in 0..MaxStarts /\ current \in 0..MaxStarts
    BY DEF Init
  <2>8. QED
    BY <2>4, <2>5, <2>6, <2>7 DEF TypeOK
<1>2. \A g \in Goroutines : worker[g].pc = "idle"
  BY DEF Init, Idle
<1>3. \A n \in Starts, q \in Queues : disp[n][q].pc = "off" /\ running[n][q] = 0 /\ wg[n] = 0
  BY DEF Init
<1>4. QueuesOk
  BY NewQueueOk DEF Init, QueuesOk
<1>5. DispOk /\ WorkerOk /\ KeyExclusive
  BY <1>2, <1>3 DEF DispOk, Held, WorkerOk, KeyExclusive, Owns
<1>6. FreshRuns
  BY <1>2, <1>3 DEF Init, FreshRuns
<1>7. TokensOk
  <2>1. \A n \in Starts, q \in Queues : Busy(n, q) = {} /\ Ahead(n, q) = 0
    BY <1>2, <1>3 DEF Busy, Ahead
  <2>2. PerQueue \in Nat
    BY DEF PerQueue
  <2>3. QED
    <3>1. \A n \in Starts, q \in Queues : Cardinality(Busy(n, q)) = 0
      BY <2>1, FS_EmptySet
    <3>2. QED
      BY <1>3, <2>1, <2>2, <3>1 DEF TokensOk
<1>8. WaitGroupOk
  <2>1. \A n \in Starts : InRun(n) = {} /\ wg[n] = 0
    BY <1>2 DEF InRun, Init
  <2>2. QED
    BY <2>1, FS_EmptySet DEF WaitGroupOk
<1>9. QED
  BY <1>1, <1>4, <1>5, <1>6, <1>7, <1>8 DEF Inv

\* No step of the controller, of its goroutines or of its environment breaks
\* the invariant.
LEMMA NextInv == Inv /\ [Next]_vars => Inv'
<1> SUFFICES ASSUME Inv, [Next]_vars PROVE Inv'
  OBVIOUS
<1>1. CASE Start
  BY <1>1, ControlStep
<1>2. CASE Informer
  BY <1>2, ControlStep, EnqueueStep DEF Informer
<1>3. ASSUME NEW n \in Starts, Cancel(n) \/ Run(n)
      PROVE  Inv'
  BY <1>3, ControlStep, RunQueueStep, RunBeginStep DEF Run
<1>4. ASSUME NEW k \in Keys, NEW after \in BOOLEAN, EnqueueKeyAfter(k, after)
      PROVE  Inv'
  BY <1>4, EnqueueStep
<1>5. ASSUME NEW n \in Starts, NEW q \in Queues, Dispatch(n, q)
      PROVE  Inv'
  BY <1>5, DispatchGetStep, DispatchTokenStep, DispatchSpawnStep DEF Dispatch
<1>6. ASSUME NEW n \in Starts, NEW q \in Queues, NEW k \in Keys, DelayEnds(n, q, k)
      PROVE  Inv'
  BY <1>6, RunQueueStep
<1>7. ASSUME NEW g \in Goroutines, Work(g)
      PROVE  Inv'
  BY <1>7, SyncStep, QueueDoneStep, ReleaseStep DEF Work
<1>8. CASE UNCHANGED vars
  <2>1. TypeOK' /\ QueuesOk' /\ FreshRuns' /\ UNCHANGED <<wq, workVars>>
    BY <1>8 DEF Inv, TypeOK, QueuesOk, FreshRuns, vars, ctlVars, queueVars, workVars
  <2>2. QED
    BY <2>1, KeepWork
<1>9. QED
  BY <1>1, <1>2, <1>3, <1>4, <1>5, <1>6, <1>7, <1>8 DEF Next

\* The invariant holds in every reachable state, for any keys, splitter,
\* number of queues, workers and goroutines.
THEOREM Invariance == Spec => []Inv
BY InitInv, NextInv, PTL DEF Spec

\* The fields of the controller and its goroutines hold values of their types:
\* in particular neither a semaphore nor a WaitGroup counter goes negative.
THEOREM TypeCorrect == Spec => []TypeOK
<1>1. Inv => TypeOK
  BY DEF Inv
<1>2. QED
  BY <1>1, Invariance, PTL

\* No two goroutines of a run work on the same key at the same time.
THEOREM Exclusion == Spec => []KeyExclusive
<1>1. Inv => KeyExclusive
  BY DEF Inv
<1>2. QED
  BY <1>1, Invariance, PTL

\* A queue never has more workers than its share.
THEOREM BoundedWorkers == Spec => []WorkerBound
<1>1. Inv => WorkerBound
  <2> SUFFICES ASSUME Inv, NEW n \in Starts, NEW q \in Queues
               PROVE  Cardinality(Busy(n, q)) <= PerQueue
    BY DEF WorkerBound
  <2>1. Cardinality(Busy(n, q)) \in Nat
    BY FiniteWorkers DEF Busy
  <2>2. /\ Cardinality(Busy(n, q)) + Ahead(n, q) <= running[n][q]
        /\ running[n][q] <= PerQueue
        /\ running[n][q] \in Nat /\ Ahead(n, q) \in Nat /\ PerQueue \in Nat
    BY ControllerAssumption DEF Inv, TokensOk, TypeOK, Ahead, PerQueue, ControllerAssumption
  <2>3. QED
    BY <2>1, <2>2
<1>2. QED
  BY <1>1, Invariance, PTL

-------------------------------------------------------------------------------
(* What waits in a work queue                                              *)

Waits(w) == w.dirty \cup w.delayed

\* Only a queue that was shut down refuses a key.
LEMMA AddWaits ==
    ASSUME NEW K, NEW w \in WQType(K), NEW k \in K
    PROVE  /\ Waits(Add(w, k)) = IF w.down THEN Waits(w) ELSE Waits(w) \cup {k}
           /\ Add(w, k).down = w.down
BY DEF Waits, Add, WQType

LEMMA AddAfterWaits ==
    ASSUME NEW K, NEW w \in WQType(K), NEW k \in K, NEW after \in BOOLEAN
    PROVE  /\ Waits(AddAfter(w, k, after)) = IF w.down THEN Waits(w) ELSE Waits(w) \cup {k}
           /\ AddAfter(w, k, after).down = w.down
<1>1. CASE w.down
  BY <1>1 DEF AddAfter
<1>2. CASE ~w.down /\ ~after
  BY <1>2, AddWaits DEF AddAfter
<1>3. CASE ~w.down /\ after
  <2>1. AddAfter(w, k, after) = [w EXCEPT !.delayed = @ \cup {k}]
    BY <1>3 DEF AddAfter
  <2>2. QED
    BY <1>3, <2>1 DEF Waits, WQType
<1>4. QED
  BY <1>1, <1>2, <1>3

\* A key whose delay ends does not get lost on its way to the queue.
LEMMA MatureWaits ==
    ASSUME NEW K, NEW w \in WQType(K), NEW k \in K, k \in w.delayed, ~w.down
    PROVE  Waits(Mature(w, k)) = Waits(w) /\ Mature(w, k).down = w.down
<1> DEFINE v == [w EXCEPT !.delayed = @ \ {k}]
<1>1. v \in WQType(K) /\ v.down = w.down /\ v.dirty = w.dirty /\ v.delayed = w.delayed \ {k}
  BY DEF WQType
<1> HIDE DEF v
<1>2. Waits(Add(v, k)) = Waits(v) \cup {k} /\ Add(v, k).down = v.down
  BY <1>1, AddWaits
<1>3. Mature(w, k) = Add(v, k)
  BY DEF Mature, v
<1>4. Waits(v) \cup {k} = Waits(w)
  BY <1>1 DEF Waits
<1>5. QED
  BY <1>1, <1>2, <1>3, <1>4

\* Get takes out its head and nothing else.
LEMMA GetWaits ==
    ASSUME NEW K, NEW w, WQOk(w, K), w.queue # << >>
    PROVE  /\ Head(w.queue) \in Waits(w)
           /\ Waits(Get(w)) \cup {Head(w.queue)} = Waits(w)
           /\ Get(w).down = w.down
<1>1. w.queue \in Seq(K) /\ Head(w.queue) = w.queue[1] /\ 1 \in DOMAIN w.queue
  BY DEF WQOk, WQType
<1>2. Head(w.queue) \in w.dirty
  BY <1>1 DEF WQOk
<1>3. /\ Get(w).dirty = w.dirty \ {Head(w.queue)}
      /\ Get(w).delayed = w.delayed /\ Get(w).down = w.down
  BY DEF WQOk, WQType, Get
<1>4. QED
  BY <1>2, <1>3 DEF Waits

LEMMA DoneWaits ==
    ASSUME NEW K, NEW w \in WQType(K), NEW k
    PROVE  Waits(Done(w, k)) = Waits(w) /\ Done(w, k).down = w.down
BY DEF Waits, Done, WQType

LEMMA ShutDownWaits ==
    ASSUME NEW K, NEW w \in WQType(K)
    PROVE  Waits(ShutDown(w)) = Waits(w)
BY DEF Waits, ShutDown, WQType

-------------------------------------------------------------------------------
(* The inductive invariant                                                 *)

Undisturbed == \A n \in Starts : ~ctxDone[n]

\* No invocation saw more than there was to see.
HandledOk == \A k \in Keys : handled[k] <= want[k]

\* As long as no context is cancelled there is one run, its queues are open and
\* are the ones that keys are enqueued to from their creation on, and the
\* informer keeps the event handler.
OnlyRun ==
    /\ registration # "removed"
    /\ \A n \in Starts, q \in Queues : ~wq[n][q].down
    /\ attempt # 0 => started \/ startLock = "start"
    /\ \A n \in Starts : runPc[n] # "none" =>
           started /\ n = attempt /\ runPc[n] \in {"init", "fill", "workers"}
    /\ \A n \in Starts : runPc[n] \in {"fill", "workers"} <=> current = n

DemandInv ==
    /\ HandledOk
    /\ startLock = "start" => ~started /\ attempt # 0
    /\ Undisturbed => OnlyRun

-------------------------------------------------------------------------------
(* Where a key is                                                          *)

\* A key waits for a queue or in one,
Listed(k) ==
    \/ \E s \in startKeys : s.key = k
    \/ current # 0 /\ k \in Waits(wq[current][Split[k]])

\* a dispatcher has it,
Carried(k) == current # 0 /\ Held(current, Split[k]) /\ disp[current][Split[k]].item = k

\* or a worker is going to call the handler with it.
Starting(k) == \E g \in Goroutines : worker[g].pc = "start" /\ worker[g].key = k

LEMMA PendingParts ==
    ASSUME NEW k
    PROVE  /\ Pending(k) <=> k \in notify \/ Listed(k) \/ Carried(k) \/ Starting(k)
           /\ (Pending(k) <=> k \in notify \/ Listed(k) \/ Carried(k) \/ Starting(k))'
BY DEF Pending, Listed, Carried, Starting, Held, Waits

\* The queue a step replaces, and the others.
LEMMA QueueAt ==
    ASSUME Inv, NEW n \in Starts, NEW q \in Queues, NEW w, wq' = [wq EXCEPT ![n][q] = w]
    PROVE  \A m \in Starts, r \in Queues : wq'[m][r] = IF m = n /\ r = q THEN w ELSE wq[m][r]
BY DEF Inv, TypeOK

LEMMA Places ==
    ASSUME Inv
    PROVE  /\ current # 0 => current \in Starts
           /\ \A k \in Keys : Split[k] \in Queues
           /\ \A n \in Starts, q \in Queues : wq[n][q] \in WQType(Keys)
BY ControllerAssumption DEF Inv, TypeOK, Starts, ControllerAssumption

\* Steps that only change a queue, and not what waits in it.
LEMMA SameWaits ==
    ASSUME Inv, NEW n \in Starts, NEW q \in Queues, NEW w, wq' = [wq EXCEPT ![n][q] = w],
           Waits(w) = Waits(wq[n][q]), UNCHANGED <<current, startKeys>>, NEW k \in Keys
    PROVE  Listed(k)' <=> Listed(k)
<1>1. \A m \in Starts, r \in Queues : Waits(wq'[m][r]) = Waits(wq[m][r])
  BY QueueAt
<1>2. QED
  BY <1>1, Places DEF Listed

\* enqueue: the key is listed afterwards, unless its queue was shut down.
LEMMA EnqueueLists ==
    ASSUME Inv, NEW k \in Keys, NEW after \in BOOLEAN, EnqueueTo(k, after)
    PROVE  /\ \A m \in Starts, r \in Queues : wq'[m][r].down = wq[m][r].down
           /\ \A j \in Keys : j # k => (Listed(j)' <=> Listed(j))
           /\ Listed(k) => Listed(k)'
           /\ current = 0 \/ ~wq[current][Split[k]].down => Listed(k)'
<1>1. UNCHANGED current
  BY DEF EnqueueTo
<1>2. CASE current = 0
  <2>1. startKeys' = startKeys \cup {[key |-> k, after |-> after]} /\ wq' = wq
    BY <1>2 DEF EnqueueTo
  <2>2. \A j : (\E s \in startKeys' : s.key = j) <=> (\E s \in startKeys : s.key = j) \/ j = k
    <3> DEFINE new == [key |-> k, after |-> after]
    <3>1. new.key = k /\ startKeys' = startKeys \cup {new}
      BY <2>1
    <3> HIDE DEF new
    <3>2. QED
      BY <3>1
  <2>3. QED
    BY <1>1, <1>2, <2>1, <2>2 DEF Listed
<1>3. CASE current # 0
  <2> DEFINE v == wq[current][Split[k]]
             w == AddAfter(v, k, after)
  <2>1. wq' = [wq EXCEPT ![current][Split[k]] = w] /\ UNCHANGED startKeys
    BY <1>3 DEF EnqueueTo
  <2>2. current \in Starts /\ Split[k] \in Queues /\ v \in WQType(Keys)
    BY <1>3, Places
  <2>3. /\ Waits(w) = IF v.down THEN Waits(v) ELSE Waits(v) \cup {k}
        /\ w.down = v.down
    BY <2>2, AddAfterWaits
  <2>4. \A m \in Starts, r \in Queues :
           wq'[m][r] = IF m = current /\ r = Split[k] THEN w ELSE wq[m][r]
    <3> HIDE DEF w
    <3>1. QED
      BY <2>1, <2>2 DEF Inv, TypeOK
  <2> HIDE DEF w
  <2>5. \A m \in Starts, r \in Queues : wq'[m][r].down = wq[m][r].down
    BY <2>3, <2>4
  <2>6. ASSUME NEW j \in Keys PROVE /\ j # k => (Listed(j)' <=> Listed(j))
                                    /\ Listed(j) => Listed(j)'
                                    /\ j = k /\ ~v.down => Listed(j)'
    <3>1. Split[j] \in Queues
      BY Places
    <3>2. /\ Waits(wq[current][Split[j]]) \subseteq Waits(wq'[current][Split[j]])
          /\ Waits(wq'[current][Split[j]]) \subseteq Waits(wq[current][Split[j]]) \cup {k}
          /\ j = k /\ ~v.down => k \in Waits(wq'[current][Split[j]])
      BY <2>2, <2>3, <2>4, <3>1
    <3>3. QED
      BY <1>1, <1>3, <2>1, <3>2 DEF Listed
  <2>7. QED
    BY <1>3, <2>5, <2>6
<1>4. QED
  BY <1>2, <1>3

\* The loop of run moves a key from the start keys to its queue.
LEMMA AddStartKeyLists ==
    ASSUME Inv, NEW n \in Starts, NEW s \in StartKey, RunAddStartKey(n, s)
    PROVE  /\ \A m \in Starts, r \in Queues : wq'[m][r].down = wq[m][r].down
           /\ \A j \in Keys : Listed(j)' => Listed(j)
           /\ n = current /\ ~wq[n][Split[s.key]].down
              => \A j \in Keys : Listed(j) => Listed(j)'
<1> DEFINE k == s.key
           v == wq[n][Split[k]]
           w == AddAfter(v, k, s.after)
<1>1. /\ s \in startKeys /\ startKeys' = startKeys \ {s} /\ UNCHANGED current
      /\ wq' = [wq EXCEPT ![n][Split[k]] = w]
  BY DEF RunAddStartKey
<1>2. Split[k] \in Queues /\ v \in WQType(Keys) /\ k \in Keys /\ s.after \in BOOLEAN
  BY Places DEF StartKey
<1>3. /\ Waits(w) = IF v.down THEN Waits(v) ELSE Waits(v) \cup {k}
      /\ w.down = v.down
  BY <1>2, AddAfterWaits
<1>4. \A m \in Starts, r \in Queues : wq'[m][r] = IF m = n /\ r = Split[k] THEN w ELSE wq[m][r]
  <2> HIDE DEF w, k
  <2>1. QED
    BY <1>1, <1>2 DEF Inv, TypeOK
<1> HIDE DEF w
<1>5. \A m \in Starts, r \in Queues : wq'[m][r].down = wq[m][r].down
  BY <1>3, <1>4
<1>6. ASSUME NEW j \in Keys PROVE Listed(j)' => Listed(j)
  <2>1. current \in Starts => Waits(wq'[current][Split[j]]) \subseteq Waits(wq[current][Split[j]]) \cup {k}
    BY <1>2, <1>3, <1>4, Places
  <2>2. QED
    BY <1>1, <2>1, Places DEF Listed
<1>7. ASSUME n = current, ~v.down, NEW j \in Keys, Listed(j) PROVE Listed(j)'
  <2>1. /\ Waits(wq[current][Split[j]]) \subseteq Waits(wq'[current][Split[j]])
        /\ k \in Waits(wq'[current][Split[k]])
    BY <1>2, <1>3, <1>4, <1>7, Places
  <2>2. current # 0
    BY <1>7, ControllerAssumption DEF Starts
  <2>3. QED
    BY <1>1, <1>7, <2>1, <2>2 DEF Listed
<1>8. QED
  BY <1>5, <1>6, <1>7
-------------------------------------------------------------------------------
(* What the steps do to the keys that are pending                          *)

\* Steps that move no key.
LEMMA ControlPending ==
    ASSUME Inv, NEW k \in Keys,
           \/ StartSynced \/ StartCancelled \/ CacheSync
           \/ \E n \in Starts : \/ Cancel(n) \/ RunWait(n) \/ RunEnd(n) \/ RunDeregister(n)
                                \/ RunStartWorkers(n)
    PROVE  Pending(k)' <=> Pending(k)
<1> USE DEF ctlVars, queueVars, workVars
<1>1. UNCHANGED <<startKeys, current, wq, notify, worker>>
  BY DEF StartSynced, StartCancelled, CacheSync, Cancel, RunWait, RunEnd, RunDeregister,
         RunStartWorkers
<1>2. CASE UNCHANGED disp
  BY <1>1, <1>2 DEF Pending
<1>3. ASSUME NEW n \in Starts, RunStartWorkers(n)
      PROVE  Pending(k)' <=> Pending(k)
  <2>1. \A m \in Starts, q \in Queues : Held(m, q)' => Held(m, q) /\ disp'[m][q] = disp[m][q]
    BY <1>3 DEF RunStartWorkers, Held, Inv, TypeOK
  <2>2. \A m \in Starts, q \in Queues : Held(m, q) => disp'[m][q] = disp[m][q]
    BY <1>3 DEF RunStartWorkers, Held, Inv, TypeOK, FreshRuns
  <2>3. Carried(k)' <=> Carried(k)
    BY <1>1, <2>1, <2>2, Places DEF Carried, Held
  <2>4. (Listed(k)' <=> Listed(k)) /\ (Starting(k)' <=> Starting(k))
    BY <1>1 DEF Listed, Starting
  <2>5. QED
    BY <1>1, <2>3, <2>4, PendingParts
<1>4. QED
  BY <1>1, <1>2, <1>3 DEF StartSynced, StartCancelled, CacheSync, Cancel, RunWait, RunEnd,
         RunDeregister

\* Shutting a queue down and the end of a delay.
LEMMA QueuePending ==
    ASSUME Inv, NEW k \in Keys, NEW n \in Starts, NEW q \in Queues,
           RunShutDownQueue(n, q) \/ \E j \in Keys : DelayEnds(n, q, j)
    PROVE  Pending(k)' <=> Pending(k)
<1> USE DEF ctlVars, workVars
<1>1. UNCHANGED <<startKeys, current, notify, worker, disp>>
  BY DEF RunShutDownQueue, DelayEnds
<1>2. PICK w : wq' = [wq EXCEPT ![n][q] = w] /\ Waits(w) = Waits(wq[n][q])
  <2>1. wq[n][q] \in WQType(Keys)
    BY Places
  <2>2. CASE RunShutDownQueue(n, q)
    BY <2>1, <2>2, ShutDownWaits DEF RunShutDownQueue
  <2>3. ASSUME NEW j \in Keys, DelayEnds(n, q, j)
        PROVE  \E w : wq' = [wq EXCEPT ![n][q] = w] /\ Waits(w) = Waits(wq[n][q])
    <3>1. wq' = [wq EXCEPT ![n][q] = Mature(wq[n][q], j)]
      BY <2>3 DEF DelayEnds
    <3>2. Waits(Mature(wq[n][q], j)) = Waits(wq[n][q])
      BY <2>1, <2>3, MatureWaits DEF DelayEnds
    <3>3. QED
      BY <3>1, <3>2
  <2>4. QED
    BY <2>2, <2>3
<1>3. Listed(k)' <=> Listed(k)
  BY <1>1, <1>2, SameWaits
<1>4. (Carried(k)' <=> Carried(k)) /\ (Starting(k)' <=> Starting(k))
  BY <1>1 DEF Carried, Held, Starting
<1>5. QED
  BY <1>1, <1>3, <1>4, PendingParts

\* The dispatcher takes a key out of its queue and keeps it.
LEMMA GetPending ==
    ASSUME Inv, NEW k \in Keys, NEW n \in Starts, NEW q \in Queues, DispatchGet(n, q)
    PROVE  Pending(k)' <=> Pending(k)
<1> USE DEF ctlVars, workVars
<1> DEFINE h == Head(wq[n][q].queue)
           w == Get(wq[n][q])
<1>1. /\ UNCHANGED <<startKeys, current, notify, worker>> /\ disp[n][q].pc = "get"
      /\ wq[n][q].queue # << >>
      /\ disp' = [disp EXCEPT ![n][q] = [pc |-> "acquire", item |-> h]]
      /\ wq' = [wq EXCEPT ![n][q] = w]
  BY DEF DispatchGet
<1>2. WQOk(wq[n][q], KeysOf(q))
  BY DEF Inv, QueuesOk
<1>3. h \in Waits(wq[n][q]) /\ Waits(w) \cup {h} = Waits(wq[n][q]) /\ h \in KeysOf(q)
  BY <1>1, <1>2, GetWaits, GetOk
<1> HIDE DEF w, h
<1>4. /\ \A m \in Starts, r \in Queues : wq'[m][r] = IF m = n /\ r = q THEN w ELSE wq[m][r]
      /\ \A m \in Starts, r \in Queues :
            disp'[m][r] = IF m = n /\ r = q THEN [pc |-> "acquire", item |-> h] ELSE disp[m][r]
  BY <1>1 DEF Inv, TypeOK
<1>5. Starting(k)' <=> Starting(k)
  BY <1>1 DEF Starting
<1>6. Listed(k)' \/ Carried(k)' <=> Listed(k) \/ Carried(k)
  <2>1. CASE ~(current = n /\ Split[k] = q)
    <3>1. current # 0 => /\ wq'[current][Split[k]] = wq[current][Split[k]]
                         /\ disp'[current][Split[k]] = disp[current][Split[k]]
      BY <1>4, <2>1, Places
    <3>2. QED
      BY <1>1, <3>1 DEF Listed, Carried, Held
  <2>2. CASE current = n /\ Split[k] = q
    <3>1. n # 0
      BY DEF Starts
    <3>2. ~Carried(k)
      BY <1>1, <2>2 DEF Carried, Held
    <3>3. Carried(k)' <=> k = h
      BY <1>1, <1>4, <2>2, <3>1 DEF Carried, Held
    <3>4. Listed(k) <=> (\E s \in startKeys : s.key = k) \/ k \in Waits(wq[n][q])
      BY <2>2, <3>1 DEF Listed
    <3>5. Listed(k)' <=> (\E s \in startKeys : s.key = k) \/ k \in Waits(w)
      BY <1>1, <1>4, <2>2, <3>1 DEF Listed
    <3>6. QED
      BY <1>3, <3>2, <3>3, <3>4, <3>5
  <2>3. QED
    BY <2>1, <2>2
<1>7. QED
  BY <1>1, <1>5, <1>6, PendingParts

\* The other steps of a dispatcher keep its key, except that DispatchCheck drops
\* it if the queue was shut down and DispatchSpawn passes it to a worker.
LEMMA DispatchPending ==
    ASSUME Inv, NEW k \in Keys, NEW n \in Starts, NEW q \in Queues,
           DispatchShutdown(n, q) \/ DispatchAcquire(n, q) \/ DispatchCheck(n, q)
    PROVE  /\ Pending(k)' => Pending(k)
           /\ ~wq[n][q].down => (Pending(k) => Pending(k)')
           /\ ~DispatchCheck(n, q) => (Pending(k) => Pending(k)')
<1> USE DEF ctlVars, queueVars
<1>1. UNCHANGED <<startKeys, current, wq, notify, worker>>
  BY DEF DispatchShutdown, DispatchAcquire, DispatchCheck
<1>2. disp[n][q] \in [pc : DispPc, item : Keys \cup {NoKey}]
  BY DEF Inv, TypeOK
<1>3. /\ \A m \in Starts, r \in Queues : ~(m = n /\ r = q) => disp'[m][r] = disp[m][r]
      /\ Held(n, q)' => disp'[n][q].item = disp[n][q].item /\ Held(n, q)
      /\ Held(n, q) => \/ Held(n, q)' /\ disp'[n][q].item = disp[n][q].item
                       \/ DispatchCheck(n, q) /\ wq[n][q].down
  <2>1. CASE DispatchShutdown(n, q)
    BY <2>1 DEF DispatchShutdown, Held, Inv, TypeOK
  <2>2. CASE DispatchAcquire(n, q)
    <3>1. /\ disp[n][q].pc = "acquire"
          /\ \A m \in Starts, r \in Queues :
                disp'[m][r] = IF m = n /\ r = q THEN [disp[n][q] EXCEPT !.pc = "check"] ELSE disp[m][r]
      BY <2>2 DEF DispatchAcquire, Inv, TypeOK
    <3>2. disp'[n][q].pc = "check" /\ disp'[n][q].item = disp[n][q].item
      BY <1>2, <3>1
    <3>3. QED
      BY <3>1, <3>2 DEF Held
  <2>3. CASE DispatchCheck(n, q) /\ wq[n][q].down
    <3>1. \A m \in Starts, r \in Queues :
             disp'[m][r] = IF m = n /\ r = q THEN [pc |-> "exited", item |-> NoKey] ELSE disp[m][r]
      BY <2>3 DEF DispatchCheck, Inv, TypeOK
    <3>2. QED
      BY <2>3, <3>1 DEF Held
  <2>4. CASE DispatchCheck(n, q) /\ ~wq[n][q].down
    <3>1. /\ disp[n][q].pc = "check"
          /\ \A m \in Starts, r \in Queues :
                disp'[m][r] = IF m = n /\ r = q THEN [disp[n][q] EXCEPT !.pc = "add"] ELSE disp[m][r]
      BY <2>4 DEF DispatchCheck, Inv, TypeOK
    <3>2. disp'[n][q].pc = "add" /\ disp'[n][q].item = disp[n][q].item
      BY <1>2, <3>1
    <3>3. QED
      BY <3>1, <3>2 DEF Held
  <2>5. QED
    BY <2>1, <2>2, <2>3, <2>4
<1>4. (Listed(k)' <=> Listed(k)) /\ (Starting(k)' <=> Starting(k))
  BY <1>1 DEF Listed, Starting
<1>5. Carried(k)' => Carried(k)
  BY <1>1, <1>3, Places DEF Carried, Held
<1>6. ~wq[n][q].down \/ ~DispatchCheck(n, q) => (Carried(k) => Carried(k)')
  BY <1>1, <1>3, Places DEF Carried, Held
<1>7. QED
  BY <1>1, <1>4, <1>5, <1>6, PendingParts

\* wait.Add(1) and the go statement: the worker has the key of the dispatcher.
LEMMA SpawnPending ==
    ASSUME Inv, NEW k \in Keys, NEW n \in Starts, NEW q \in Queues, NEW g \in Goroutines,
           DispatchSpawn(n, q, g)
    PROVE  /\ Pending(k) => Pending(k)'
           /\ k # disp[n][q].item => (Pending(k)' => Pending(k))
           /\ disp[n][q].item \in Keys
<1> USE DEF ctlVars, queueVars
<1> DEFINE h == disp[n][q].item
           idle == [pc |-> "get", item |-> NoKey]
           new == [pc |-> "start", run |-> n, key |-> h]
<1>1. /\ UNCHANGED <<startKeys, current, wq, notify>> /\ disp[n][q].pc = "add"
      /\ worker[g].pc = "idle"
      /\ worker' = [worker EXCEPT ![g] = new]
      /\ disp' = [disp EXCEPT ![n][q] = idle]
  BY DEF DispatchSpawn
<1>2. h \in Keys /\ new.pc = "start" /\ new.key = h /\ idle.pc = "get"
  BY <1>1 DEF Inv, DispOk, Held, KeysOf
<1> HIDE DEF h, new, idle
<1>3. /\ \A m \in Starts, r \in Queues : disp'[m][r] = IF m = n /\ r = q THEN idle ELSE disp[m][r]
      /\ \A f \in Goroutines : worker'[f] = IF f = g THEN new ELSE worker[f]
  BY <1>1 DEF Inv, TypeOK
<1>4. Listed(k)' <=> Listed(k)
  BY <1>1 DEF Listed
<1>5. Starting(k)' <=> Starting(k) \/ k = h
  BY <1>1, <1>2, <1>3 DEF Starting
<1>6. /\ Carried(k)' => Carried(k)
      /\ Carried(k) /\ k # h => Carried(k)'
  BY <1>1, <1>2, <1>3, Places DEF Carried, Held, h
<1>7. QED
  BY <1>1, <1>2, <1>4, <1>5, <1>6, PendingParts DEF h

\* A worker that moves on, and whether it was or is about to call the handler.
LEMMA WorkerPending ==
    ASSUME Inv, NEW g \in Goroutines, NEW new, worker' = [worker EXCEPT ![g] = new],
           new.pc # "start", NEW k, UNCHANGED <<current, notify, disp>>
    PROVE  /\ Carried(k)' <=> Carried(k)
           /\ Starting(k)' => Starting(k)
           /\ worker[g].pc # "start" \/ worker[g].key # k => (Starting(k)' <=> Starting(k))
<1>1. \A f \in Goroutines : worker'[f] = IF f = g THEN new ELSE worker[f]
  BY DEF Inv, TypeOK
<1>2. QED
  BY <1>1 DEF Carried, Held, Starting

\* A worker that has called the handler, or is just about to.
LEMMA WorkPending ==
    ASSUME Inv, NEW k \in Keys, NEW g \in Goroutines,
           SyncHandler(g) \/ SyncOk(g) \/ QueueDone(g) \/ Release(g)
    PROVE  /\ Pending(k)' => Pending(k)
           /\ ~SyncHandler(g) \/ worker[g].key # k => (Pending(k) => Pending(k)')
<1> USE DEF ctlVars, queueVars
<1>1. UNCHANGED <<current, startKeys, notify, disp>>
  BY DEF SyncHandler, SyncOk, QueueDone, Release
<1>2. worker[g] \in [pc : WorkerPc, run : 0..MaxStarts, key : Keys \cup {NoKey}]
  BY DEF Inv, TypeOK
<1>3. PICK new : worker' = [worker EXCEPT ![g] = new] /\ new.pc # "start"
  <2>1. /\ [worker[g] EXCEPT !.pc = "sync"].pc = "sync"
        /\ [worker[g] EXCEPT !.pc = "done"].pc = "done"
        /\ [worker[g] EXCEPT !.pc = "release"].pc = "release"
        /\ Idle.pc = "idle"
    BY <1>2 DEF Idle
  <2>2. \/ worker' = [worker EXCEPT ![g] = [worker[g] EXCEPT !.pc = "sync"]]
        \/ worker' = [worker EXCEPT ![g] = [worker[g] EXCEPT !.pc = "done"]]
        \/ worker' = [worker EXCEPT ![g] = [worker[g] EXCEPT !.pc = "release"]]
        \/ worker' = [worker EXCEPT ![g] = Idle]
    BY DEF SyncHandler, SyncOk, QueueDone, Release
  <2>3. QED
    BY <2>1, <2>2
<1>4. /\ Carried(k)' <=> Carried(k)
      /\ Starting(k)' => Starting(k)
      /\ worker[g].pc # "start" \/ worker[g].key # k => (Starting(k)' <=> Starting(k))
  BY <1>1, <1>3, WorkerPending
<1>5. Listed(k)' <=> Listed(k)
  <2>1. CASE UNCHANGED wq
    BY <1>1, <2>1 DEF Listed
  <2>2. CASE QueueDone(g)
    <3> DEFINE n == worker[g].run
               q == Split[worker[g].key]
               w == Done(wq[n][q], worker[g].key)
    <3>1. n \in Starts /\ q \in Queues /\ wq' = [wq EXCEPT ![n][q] = w]
      BY <2>2, Places DEF QueueDone, Inv, WorkerOk
    <3>2. Waits(w) = Waits(wq[n][q])
      BY <3>1, Places, DoneWaits
    <3> HIDE DEF n, q, w
    <3>3. QED
      BY <1>1, <3>1, <3>2, SameWaits
  <2>3. QED
    BY <2>1, <2>2 DEF SyncHandler, SyncOk, Release
<1>6. ~SyncHandler(g) => worker[g].pc # "start"
  BY DEF SyncOk, QueueDone, Release
<1>7. QED
  BY <1>1, <1>4, <1>5, <1>6, PendingParts

\* AddRateLimited: the key of a worker that failed waits in the queue again.
LEMMA ErrorPending ==
    ASSUME Inv, NEW k \in Keys, NEW g \in Goroutines, SyncError(g)
    PROVE  /\ Pending(k) => Pending(k)'
           /\ worker[g].key # k => (Pending(k)' => Pending(k))
           /\ /\ worker[g].key = k /\ worker[g].run = current
              /\ ~wq[current][Split[k]].down
              => Pending(k)'
<1> USE DEF ctlVars
<1> DEFINE j == worker[g].key
           n == worker[g].run
           v == wq[n][Split[j]]
           w == AddAfter(v, j, TRUE)
           new == [worker[g] EXCEPT !.pc = "done"]
<1>1. /\ UNCHANGED <<current, startKeys, notify, disp>> /\ worker[g].pc = "sync"
      /\ worker' = [worker EXCEPT ![g] = new]
      /\ wq' = [wq EXCEPT ![n][Split[j]] = w]
  BY DEF SyncError
<1>2. n \in Starts /\ j \in Keys /\ Split[j] \in Queues /\ v \in WQType(Keys)
  BY <1>1, Places DEF Inv, WorkerOk
<1>3. Waits(w) = IF v.down THEN Waits(v) ELSE Waits(v) \cup {j}
  <2> HIDE DEF v, j, n
  <2>1. \A after \in BOOLEAN : Waits(AddAfter(v, j, after)) = IF v.down THEN Waits(v) ELSE Waits(v) \cup {j}
    BY <1>2, AddAfterWaits
  <2>2. QED
    BY <2>1, Zenon
<1>4. new.pc = "done"
  BY DEF Inv, TypeOK
<1>5. (Carried(k)' <=> Carried(k)) /\ (Starting(k)' <=> Starting(k))
  <2> HIDE DEF new
  <2>1. QED
    BY <1>1, <1>4, WorkerPending
<1>6. \A m \in Starts, r \in Queues : wq'[m][r] = IF m = n /\ r = Split[j] THEN w ELSE wq[m][r]
  <2> HIDE DEF w, n, j
  <2>1. QED
    BY <1>1, <1>2 DEF Inv, TypeOK
<1> HIDE DEF w, n, j
<1>7. current # 0 => /\ Waits(wq[current][Split[k]]) \subseteq Waits(wq'[current][Split[k]])
                     /\ Waits(wq'[current][Split[k]]) \subseteq Waits(wq[current][Split[k]]) \cup {j}
                     /\ k = j /\ n = current /\ ~v.down => k \in Waits(wq'[current][Split[k]])
  BY <1>2, <1>3, <1>6, Places
<1>8. /\ Listed(k) => Listed(k)'
      /\ k # j => (Listed(k)' => Listed(k))
      /\ k = j /\ n = current /\ ~v.down => Listed(k)'
  <2>1. n # 0
    BY <1>2 DEF Starts
  <2>2. QED
    BY <1>1, <1>7, <2>1 DEF Listed
<1>9. QED
  BY <1>1, <1>5, <1>8, PendingParts DEF j, n

\* The notifications of the informer: the key moves to the start keys or to its
\* queue.
LEMMA HandlePending ==
    ASSUME Inv, NEW k \in Keys, NEW j \in Objects, HandleObject(j)
    PROVE  /\ Pending(k)' => Pending(k)
           /\ current = 0 \/ ~wq[current][Split[j]].down => (Pending(k) => Pending(k)')
<1> USE DEF ctlVars, workVars
<1>1. /\ UNCHANGED <<disp, worker, current>> /\ j \in notify /\ notify' = notify \ {j}
      /\ EnqueueTo(j, FALSE) /\ j \in Keys
  BY ControllerAssumption DEF HandleObject, EnqueueTo, ControllerAssumption
<1>2. /\ \A i \in Keys : i # j => (Listed(i)' <=> Listed(i))
      /\ Listed(j) => Listed(j)'
      /\ current = 0 \/ ~wq[current][Split[j]].down => Listed(j)'
  <2>1. PICK after \in BOOLEAN : EnqueueTo(j, after)
    BY <1>1
  <2>2. QED
    BY <1>1, <2>1, EnqueueLists
<1>3. (Carried(k)' <=> Carried(k)) /\ (Starting(k)' <=> Starting(k))
  BY <1>1 DEF Carried, Held, Starting
<1>4. QED
  BY <1>1, <1>2, <1>3, PendingParts

\* The four Enqueue functions.
LEMMA EnqueuePending ==
    ASSUME Inv, NEW k \in Keys, NEW j \in Keys, NEW after \in BOOLEAN, EnqueueKeyAfter(j, after)
    PROVE  /\ Pending(k) => Pending(k)'
           /\ k # j => (Pending(k)' => Pending(k))
           /\ k = j /\ (current = 0 \/ ~wq[current][Split[j]].down) => Pending(k)'
<1> USE DEF ctlVars, workVars
<1>1. UNCHANGED <<disp, worker, current, notify>> /\ EnqueueTo(j, after)
  BY DEF EnqueueKeyAfter, EnqueueTo
<1>2. /\ \A i \in Keys : i # j => (Listed(i)' <=> Listed(i))
      /\ Listed(j) => Listed(j)'
      /\ current = 0 \/ ~wq[current][Split[j]].down => Listed(j)'
  BY <1>1, EnqueueLists
<1>3. (Carried(k)' <=> Carried(k)) /\ (Starting(k)' <=> Starting(k))
  BY <1>1 DEF Carried, Held, Starting
<1>4. QED
  BY <1>1, <1>2, <1>3, PendingParts

\* Steps that only change the notifications.
LEMMA NotifyPending ==
    ASSUME NEW k, UNCHANGED <<startKeys, current, wq, disp, worker>>
    PROVE  /\ k \in notify' => Pending(k)'
           /\ (k \in notify' <=> k \in notify) => (Pending(k)' <=> Pending(k))
           /\ k \notin notify' => (Pending(k)' => Pending(k))
BY DEF Pending

\* run creates its queues: what waited in those of an earlier run is forgotten.
LEMMA CreatePending ==
    ASSUME Inv, NEW k \in Keys, NEW n \in Starts, RunCreateQueues(n)
    PROVE  /\ Pending(k)' => Pending(k)
           /\ current = 0 => (Pending(k) => Pending(k)')
<1> USE DEF ctlVars, workVars
<1>1. /\ runPc[n] = "init" /\ current' = n /\ UNCHANGED <<startKeys, disp, worker, notify>>
      /\ wq' = [wq EXCEPT ![n] = [q \in Queues |-> NewQueue]]
  BY DEF RunCreateQueues
<1>2. Split[k] \in Queues /\ n # 0
  BY Places DEF Starts
<1>3. wq'[n][Split[k]] = NewQueue /\ disp[n][Split[k]].pc = "off"
  BY <1>1, <1>2 DEF Inv, TypeOK, FreshRuns
<1>4. Waits(NewQueue) = {}
  BY DEF Waits, NewQueue
<1>5. Listed(k)' <=> \E s \in startKeys : s.key = k
  BY <1>1, <1>3, <1>4 DEF Listed
<1>6. ~Carried(k)'
  BY <1>1, <1>3 DEF Carried, Held
<1>7. Starting(k)' <=> Starting(k)
  BY <1>1 DEF Starting
<1>8. /\ (\E s \in startKeys : s.key = k) => Listed(k)
      /\ current = 0 => (Listed(k) => \E s \in startKeys : s.key = k) /\ ~Carried(k)
  BY DEF Listed, Carried
<1>9. QED
  BY <1>1, <1>5, <1>6, <1>7, <1>8, PendingParts

\* run moves one start key to its queue.
LEMMA FillPending ==
    ASSUME Inv, NEW k \in Keys, NEW n \in Starts, NEW s \in StartKey, RunAddStartKey(n, s)
    PROVE  /\ Pending(k)' => Pending(k)
           /\ n = current /\ ~wq[n][Split[s.key]].down => (Pending(k) => Pending(k)')
<1> USE DEF ctlVars, workVars
<1>1. UNCHANGED <<disp, worker, current, notify>>
  BY DEF RunAddStartKey
<1>2. /\ Listed(k)' => Listed(k)
      /\ n = current /\ ~wq[n][Split[s.key]].down => (Listed(k) => Listed(k)')
  BY AddStartKeyLists
<1>3. (Carried(k)' <=> Carried(k)) /\ (Starting(k)' <=> Starting(k))
  BY <1>1 DEF Carried, Held, Starting
<1>4. QED
  BY <1>1, <1>2, <1>3, PendingParts

-------------------------------------------------------------------------------
(* The invariant                                                           *)

\* The steps that leave the control state alone and shut no queue down.
OpenStep ==
    \/ \E k \in Objects : HandleObject(k) \/ Change(k) \/ DropNotification(k)
    \/ CacheSync
    \/ \E k \in Keys, after \in BOOLEAN : EnqueueKeyAfter(k, after)
    \/ \E n \in Starts, s \in StartKey : RunAddStartKey(n, s)
    \/ \E n \in Starts, q \in Queues : Dispatch(n, q) \/ \E k \in Keys : DelayEnds(n, q, k)
    \/ \E g \in Goroutines : Work(g)
    \/ UNCHANGED vars

\* The steps of Next, grouped as the proofs treat them.
LEMMA NextCases ==
    ASSUME [Next]_vars
    PROVE  \/ OpenStep \/ StartBegin \/ StartSynced \/ StartCancelled
           \/ \E n \in Starts : \/ Cancel(n) \/ RunCreateQueues(n) \/ RunStartWorkers(n)
                                \/ \E q \in Queues : RunShutDownQueue(n, q)
                                \/ RunWait(n) \/ RunEnd(n) \/ RunDeregister(n)
<1>1. CASE Start
  BY <1>1 DEF Start
<1>2. CASE Informer
  BY <1>2 DEF Informer, OpenStep
<1>3. ASSUME NEW n \in Starts, Cancel(n) \/ Run(n)
      PROVE  \/ OpenStep
             \/ \E m \in Starts : \/ Cancel(m) \/ RunCreateQueues(m) \/ RunStartWorkers(m)
                                  \/ \E q \in Queues : RunShutDownQueue(m, q)
                                  \/ RunWait(m) \/ RunEnd(m) \/ RunDeregister(m)
  BY <1>3 DEF Run, OpenStep
<1>4. ASSUME NEW k \in Keys, NEW after \in BOOLEAN, EnqueueKeyAfter(k, after)
      PROVE  OpenStep
  BY <1>4 DEF OpenStep
<1>5. ASSUME NEW n \in Starts, NEW q \in Queues, Dispatch(n, q) \/ \E k \in Keys : DelayEnds(n, q, k)
      PROVE  OpenStep
  BY <1>5 DEF OpenStep
<1>6. ASSUME NEW g \in Goroutines, Work(g)
      PROVE  OpenStep
  BY <1>6 DEF OpenStep
<1>7. CASE UNCHANGED vars
  BY <1>7 DEF OpenStep
<1>8. QED
  BY <1>1, <1>2, <1>3, <1>4, <1>5, <1>6, <1>7 DEF Next

LEMMA OpenKeepsDown ==
    ASSUME Inv, OpenStep
    PROVE  /\ \A m \in Starts, r \in Queues : wq'[m][r].down = wq[m][r].down
           /\ UNCHANGED <<startLock, attempt, ctxDone, started, registration, current, runPc>>
<1> USE DEF ctlVars, queueVars, workVars, vars
<1> DEFINE Same == \A m \in Starts, r \in Queues : wq'[m][r].down = wq[m][r].down
<1>1. UNCHANGED <<startLock, attempt, ctxDone, started, registration, current, runPc>>
  <2> DEFINE Still == UNCHANGED <<startLock, attempt, ctxDone, started, registration, current, runPc>>
  <2>1. ASSUME NEW k \in Objects, HandleObject(k) \/ Change(k) \/ DropNotification(k) PROVE Still
    BY <2>1 DEF HandleObject, EnqueueTo, Change, DropNotification
  <2>2. ASSUME NEW k \in Keys, NEW after \in BOOLEAN, EnqueueKeyAfter(k, after) PROVE Still
    BY <2>2 DEF EnqueueKeyAfter, EnqueueTo
  <2>3. ASSUME NEW n \in Starts, NEW s \in StartKey, RunAddStartKey(n, s) PROVE Still
    BY <2>3 DEF RunAddStartKey
  <2>4. ASSUME NEW n \in Starts, NEW q \in Queues, Dispatch(n, q) PROVE Still
    BY <2>4 DEF Dispatch, DispatchGet, DispatchShutdown, DispatchAcquire, DispatchCheck, DispatchSpawn
  <2>5. ASSUME NEW n \in Starts, NEW q \in Queues, NEW k \in Keys, DelayEnds(n, q, k) PROVE Still
    BY <2>5 DEF DelayEnds
  <2>6. ASSUME NEW g \in Goroutines, Work(g) PROVE Still
    BY <2>6 DEF Work, SyncHandler, SyncOk, SyncError, QueueDone, Release
  <2>7. CacheSync \/ UNCHANGED vars => Still
    BY DEF CacheSync
  <2> HIDE DEF Still
  <2>8. Still
    BY <2>1, <2>2, <2>3, <2>4, <2>5, <2>6, <2>7 DEF OpenStep
  <2>9. QED
    BY <2>8 DEF Still
<1>2. ASSUME NEW n \in Starts, NEW q \in Queues, NEW w, wq' = [wq EXCEPT ![n][q] = w],
             w.down = wq[n][q].down
      PROVE  Same
  BY <1>2, QueueAt
<1>3. ASSUME NEW k \in Objects, HandleObject(k) PROVE Same
  <2>1. PICK after \in BOOLEAN : EnqueueTo(k, after)
    BY <1>3 DEF HandleObject
  <2>2. QED
    BY <2>1, EnqueueLists, ControllerAssumption DEF ControllerAssumption
<1>4. ASSUME NEW k \in Keys, NEW after \in BOOLEAN, EnqueueKeyAfter(k, after) PROVE Same
  BY <1>4, EnqueueLists DEF EnqueueKeyAfter
<1>5. ASSUME NEW n \in Starts, NEW s \in StartKey, RunAddStartKey(n, s) PROVE Same
  BY <1>5, AddStartKeyLists
<1>6. ASSUME NEW n \in Starts, NEW q \in Queues, NEW k \in Keys, DelayEnds(n, q, k) PROVE Same
  <2>1. wq[n][q] \in WQType(Keys)
    BY Places
  <2>2. Mature(wq[n][q], k).down = wq[n][q].down
    BY <1>6, <2>1, MatureWaits DEF DelayEnds
  <2>3. wq' = [wq EXCEPT ![n][q] = Mature(wq[n][q], k)]
    BY <1>6 DEF DelayEnds
  <2>4. QED
    BY <1>2, <2>2, <2>3
<1>7. ASSUME NEW n \in Starts, NEW q \in Queues, Dispatch(n, q) PROVE Same
  <2>1. CASE DispatchGet(n, q)
    <3>1. WQOk(wq[n][q], KeysOf(q))
      BY DEF Inv, QueuesOk
    <3>2. Get(wq[n][q]).down = wq[n][q].down
      BY <2>1, <3>1, GetWaits DEF DispatchGet
    <3>3. wq' = [wq EXCEPT ![n][q] = Get(wq[n][q])]
      BY <2>1 DEF DispatchGet
    <3>4. QED
      BY <1>2, <3>2, <3>3
  <2>2. CASE UNCHANGED wq
    BY <2>2
  <2>3. QED
    BY <1>7, <2>1, <2>2 DEF Dispatch, DispatchShutdown, DispatchAcquire, DispatchCheck, DispatchSpawn
<1>8. ASSUME NEW g \in Goroutines, Work(g) PROVE Same
  <2> DEFINE k == worker[g].key
             n == worker[g].run
             q == Split[k]
  <2>1. CASE UNCHANGED wq
    BY <2>1
  <2>2. CASE SyncError(g) \/ QueueDone(g)
    <3>1. n \in Starts /\ k \in Keys /\ q \in Queues /\ wq[n][q] \in WQType(Keys)
      BY <2>2, Places DEF SyncError, QueueDone, Inv, WorkerOk
    <3>2. \/ wq' = [wq EXCEPT ![n][q] = AddAfter(wq[n][q], k, TRUE)]
          \/ wq' = [wq EXCEPT ![n][q] = Done(wq[n][q], k)]
      BY <2>2 DEF SyncError, QueueDone
    <3> HIDE DEF n, k, q
    <3>3. /\ \A after \in BOOLEAN : AddAfter(wq[n][q], k, after).down = wq[n][q].down
          /\ Done(wq[n][q], k).down = wq[n][q].down
      BY <3>1, AddAfterWaits, DoneWaits
    <3>4. AddAfter(wq[n][q], k, TRUE).down = wq[n][q].down
      BY <3>3, Zenon
    <3>5. QED
      BY <1>2, <3>1, <3>2, <3>3, <3>4
  <2>3. QED
    BY <1>8, <2>1, <2>2 DEF Work, SyncHandler, SyncOk, Release
<1>9. CASE UNCHANGED wq
  BY <1>1, <1>9
<1>10. QED
  BY <1>1, <1>3, <1>4, <1>5, <1>6, <1>7, <1>8, <1>9
     DEF OpenStep, Change, DropNotification, CacheSync

\* An invocation sees what there is; changes and enqueues only add to it.
LEMMA HandledStep ==
    ASSUME Inv, HandledOk, [Next]_vars
    PROVE  HandledOk'
<1> USE DEF ctlVars, queueVars, workVars, vars
<1>1. want \in [Keys -> Nat] /\ handled \in [Keys -> Nat]
  BY ControllerAssumption DEF Inv, TypeOK, ControllerAssumption
<1>2. CASE UNCHANGED <<want, handled>>
  BY <1>2 DEF HandledOk
<1>3. ASSUME NEW k \in Keys, want' = [want EXCEPT ![k] = @ + 1], UNCHANGED handled
      PROVE  HandledOk'
  BY <1>1, <1>3 DEF HandledOk
<1>4. ASSUME NEW k \in Keys, NEW i \in {0, want[k]}, handled' = [handled EXCEPT ![k] = i],
             UNCHANGED want
      PROVE  HandledOk'
  BY <1>1, <1>4 DEF HandledOk
<1>5. CASE OpenStep
  <2>1. ASSUME NEW k \in Objects, HandleObject(k) \/ Change(k) \/ DropNotification(k)
        PROVE  HandledOk'
    BY <1>2, <1>3, <2>1, ControllerAssumption
       DEF HandleObject, Change, DropNotification, ControllerAssumption
  <2>2. ASSUME NEW k \in Keys, NEW after \in BOOLEAN, EnqueueKeyAfter(k, after)
        PROVE  HandledOk'
    BY <1>3, <2>2 DEF EnqueueKeyAfter
  <2>3. ASSUME NEW n \in Starts, NEW s \in StartKey, RunAddStartKey(n, s)
        PROVE  HandledOk'
    BY <1>2, <2>3 DEF RunAddStartKey
  <2>4. ASSUME NEW n \in Starts, NEW q \in Queues, Dispatch(n, q)
        PROVE  HandledOk'
    BY <1>2, <2>4 DEF Dispatch, DispatchGet, DispatchShutdown, DispatchAcquire, DispatchCheck,
                      DispatchSpawn
  <2>5. ASSUME NEW n \in Starts, NEW q \in Queues, NEW k \in Keys, DelayEnds(n, q, k)
        PROVE  HandledOk'
    BY <1>2, <2>5 DEF DelayEnds
  <2>6. ASSUME NEW g \in Goroutines, Work(g)
        PROVE  HandledOk'
    <3>1. CASE SyncOk(g) \/ QueueDone(g) \/ Release(g)
      BY <1>2, <3>1 DEF SyncOk, QueueDone, Release
    <3>2. CASE SyncHandler(g) \/ SyncError(g)
      <4>1. worker[g].key \in Keys
        BY <3>2 DEF SyncHandler, SyncError, Inv, WorkerOk
      <4>2. QED
        BY <1>4, <3>2, <4>1 DEF SyncHandler, SyncError
    <3>3. QED
      BY <2>6, <3>1, <3>2 DEF Work
  <2>7. CASE CacheSync \/ UNCHANGED vars
    BY <1>2, <2>7 DEF CacheSync
  <2>8. QED
    BY <1>5, <2>1, <2>2, <2>3, <2>4, <2>5, <2>6, <2>7 DEF OpenStep
<1>6. CASE ~OpenStep
  <2>1. UNCHANGED <<want, handled>>
    BY <1>6, NextCases DEF StartBegin, StartSynced, StartCancelled, Cancel, RunCreateQueues,
       RunStartWorkers, RunShutDownQueue, RunWait, RunEnd, RunDeregister
  <2>2. QED
    BY <1>2, <2>1
<1>7. QED
  BY <1>5, <1>6

\* Start holds startLock while it waits, and only one call does.
LEMMA StartLockStep ==
    ASSUME Inv, DemandInv, [Next]_vars
    PROVE  (startLock = "start" => ~started /\ attempt # 0)'
<1> USE DEF ctlVars, queueVars
<1>1. attempt \in Nat
  BY ControllerAssumption DEF Inv, TypeOK, ControllerAssumption
<1>2. CASE OpenStep
  BY <1>2, OpenKeepsDown DEF DemandInv
<1>3. CASE StartBegin
  BY <1>1, <1>3 DEF StartBegin
<1>4. CASE StartSynced \/ StartCancelled
  BY <1>4 DEF StartSynced, StartCancelled
<1>5. ASSUME NEW n \in Starts,
             \/ Cancel(n) \/ RunCreateQueues(n) \/ RunStartWorkers(n)
             \/ \E q \in Queues : RunShutDownQueue(n, q)
             \/ RunWait(n) \/ RunEnd(n) \/ RunDeregister(n)
      PROVE  (startLock = "start" => ~started /\ attempt # 0)'
  BY <1>5 DEF DemandInv, Cancel, RunCreateQueues, RunStartWorkers, RunShutDownQueue, RunWait,
              RunEnd, RunDeregister
<1>6. QED
  BY <1>2, <1>3, <1>4, <1>5, NextCases

\* A cancelled context stays cancelled, and without one nothing ends a run.
LEMMA OnlyRunStep ==
    ASSUME Inv, DemandInv, [Next]_vars, Undisturbed'
    PROVE  Undisturbed /\ OnlyRun'
<1> USE DEF ctlVars, queueVars
<1>1. ~\E n \in Starts : Cancel(n)
  BY DEF Cancel, Undisturbed, Inv, TypeOK
<1>2. ctxDone' = ctxDone
  <2>1. CASE OpenStep
    BY <2>1, OpenKeepsDown
  <2>2. CASE ~OpenStep
    BY <1>1, <2>2, NextCases DEF StartBegin, StartSynced, StartCancelled, RunCreateQueues,
       RunStartWorkers, RunShutDownQueue, RunWait, RunEnd, RunDeregister
  <2>3. QED
    BY <2>1, <2>2
<1>3. Undisturbed /\ OnlyRun
  BY <1>2 DEF Undisturbed, DemandInv
<1>4. attempt \in 0..MaxStarts /\ MaxStarts \in Nat /\ (startLock = "start" => ~started /\ attempt # 0)
  BY ControllerAssumption DEF Inv, TypeOK, ControllerAssumption, DemandInv
<1>5. CASE OpenStep
  BY <1>3, <1>5, OpenKeepsDown DEF OnlyRun
<1>6. CASE StartBegin
  <2>1. /\ attempt = 0 /\ attempt' = attempt + 1 /\ startLock' = "start"
        /\ registration' # "removed" /\ UNCHANGED <<started, current, wq, runPc>>
    BY <1>3, <1>6 DEF StartBegin, OnlyRun
  <2>2. ~started
    BY <1>6 DEF StartBegin
  <2>3. QED
    BY <1>3, <2>1, <2>2 DEF OnlyRun
<1>7. CASE StartSynced
  <2>1. /\ startLock = "start" /\ runPc' = [runPc EXCEPT ![attempt] = "init"] /\ started' = TRUE
        /\ UNCHANGED <<attempt, registration, current, wq>>
    BY <1>7 DEF StartSynced
  <2>2. attempt \in Starts /\ ~started
    BY <1>4, <2>1 DEF Starts
  <2>3. \A n \in Starts : runPc[n] = "none" /\ current # n
    BY <1>3, <2>2 DEF OnlyRun
  <2>4. \A n \in Starts : runPc'[n] = IF n = attempt THEN "init" ELSE "none"
    BY <2>1, <2>2, <2>3 DEF Inv, TypeOK
  <2>5. QED
    BY <1>3, <2>1, <2>3, <2>4 DEF OnlyRun
<1>8. CASE StartCancelled
  <2>1. attempt \in Starts /\ ctxDone[attempt]
    BY <1>4, <1>8 DEF StartCancelled, Starts
  <2>2. QED
    BY <1>3, <2>1 DEF Undisturbed
<1>9. ASSUME NEW n \in Starts, RunCreateQueues(n) PROVE OnlyRun'
  <2>1. /\ runPc[n] = "init" /\ current' = n /\ startLock' = "run"
        /\ wq' = [wq EXCEPT ![n] = [q \in Queues |-> NewQueue]]
        /\ runPc' = [runPc EXCEPT ![n] = "fill"]
        /\ UNCHANGED <<attempt, registration, started>>
    BY <1>9 DEF RunCreateQueues
  <2>2. started /\ n = attempt /\ \A m \in Starts : m # n => runPc[m] = "none"
    BY <1>3, <2>1 DEF OnlyRun
  <2>3. \A m \in Starts : runPc'[m] = IF m = n THEN "fill" ELSE "none"
    BY <2>1, <2>2 DEF Inv, TypeOK
  <2>4. ASSUME NEW m \in Starts, NEW q \in Queues PROVE ~wq'[m][q].down
    <3>1. CASE m = n
      BY <2>1, <3>1 DEF Inv, TypeOK, NewQueue
    <3>2. CASE m # n
      BY <1>3, <2>1, <3>2 DEF Inv, TypeOK, OnlyRun
    <3>3. QED
      BY <3>1, <3>2
  <2>5. QED
    BY <1>3, <2>1, <2>2, <2>3, <2>4 DEF OnlyRun
<1>10. ASSUME NEW n \in Starts, RunStartWorkers(n) PROVE OnlyRun'
  <2>1. /\ runPc[n] = "fill" /\ runPc' = [runPc EXCEPT ![n] = "workers"]
        /\ UNCHANGED <<attempt, registration, started, current, wq>>
    BY <1>10 DEF RunStartWorkers
  <2>2. \A m \in Starts : runPc'[m] = IF m = n THEN "workers" ELSE runPc[m]
    BY <2>1 DEF Inv, TypeOK
  <2>3. started /\ n = attempt /\ current = n
    BY <1>3, <2>1 DEF OnlyRun
  <2>4. QED
    BY <1>3, <2>1, <2>2, <2>3 DEF OnlyRun
<1>11. ASSUME NEW n \in Starts,
              \/ \E q \in Queues : RunShutDownQueue(n, q)
              \/ RunWait(n) \/ RunEnd(n) \/ RunDeregister(n)
       PROVE  FALSE
  <2>1. runPc[n] \notin {"ended", "deregister"} /\ ~ctxDone[n]
    BY <1>3 DEF OnlyRun, Undisturbed
  <2>2. 1 \in Queues /\ ~wq[n][1].down
    BY <1>3, ControllerAssumption DEF ControllerAssumption, Queues, OnlyRun
  <2>3. QED
    BY <1>11, <2>1, <2>2 DEF RunShutDownQueue, RunWait, RunEnd, RunDeregister
<1>12. QED
  BY <1>1, <1>3, <1>5, <1>6, <1>7, <1>8, <1>9, <1>10, <1>11, NextCases

LEMMA DemandInvStep ==
    ASSUME Inv, DemandInv, [Next]_vars
    PROVE  DemandInv'
<1>1. HandledOk'
  BY HandledStep DEF DemandInv
<1>2. QED
  BY <1>1, StartLockStep, OnlyRunStep DEF DemandInv

-------------------------------------------------------------------------------
(* No demand is lost                                                       *)

\* What NoDemandLost says of key k.
Remembered(k) ==
    handled[k] # want[k] /\ (k \in Objects => registration # "nil") => Pending(k)

LEMMA RememberedStep ==
    ASSUME Inv, DemandInv, NoDemandLost, [Next]_vars, Undisturbed', NEW k \in Keys
    PROVE  Remembered(k)'
<1> USE DEF ctlVars, queueVars, workVars
<1>1. OnlyRun /\ HandledOk /\ Remembered(k)
  BY OnlyRunStep DEF DemandInv, NoDemandLost, Undisturbed, Remembered
<1>2. \A n \in Starts : runPc[n] = "init" => current = 0
  <2>1. ASSUME NEW n \in Starts, runPc[n] = "init" PROVE current = 0
    <3>1. \A m \in Starts : current # m
      BY <1>1, <2>1 DEF OnlyRun
    <3>2. QED
      BY <3>1, Places
  <2>2. QED
    BY <2>1
<1>3. \A j \in Keys : current = 0 \/ ~wq[current][Split[j]].down
  BY <1>1, Places DEF OnlyRun
<1>4. ASSUME UNCHANGED <<registration, want, handled>>, Pending(k) => Pending(k)'
      PROVE  Remembered(k)'
  BY <1>1, <1>4 DEF Remembered
<1>5. want \in [Keys -> Nat] /\ handled \in [Keys -> Nat]
  BY ControllerAssumption DEF Inv, TypeOK, ControllerAssumption
<1>6. CASE StartBegin
  <2>1. /\ UNCHANGED <<startKeys, current, wq, disp, worker, want, handled>>
        /\ registration' # "nil"
        /\ notify \subseteq notify'
        /\ registration = "nil" => notify' = notify \cup {j \in Objects : want[j] > 0}
    BY <1>6 DEF StartBegin
  <2>2. handled[k] # want[k] => want[k] > 0
    BY <1>1, <1>5 DEF HandledOk
  <2>3. Pending(k) => Pending(k)'
    BY <2>1 DEF Pending
  <2>4. k \in notify' => Pending(k)'
    BY DEF Pending
  <2>5. QED
    BY <1>1, <2>1, <2>2, <2>3, <2>4 DEF Remembered
<1>7. CASE StartSynced \/ StartCancelled
  BY <1>4, <1>7, ControlPending DEF StartSynced, StartCancelled
<1>8. ASSUME NEW n \in Starts,
             \/ Cancel(n) \/ RunCreateQueues(n) \/ RunStartWorkers(n)
             \/ \E q \in Queues : RunShutDownQueue(n, q)
             \/ RunWait(n) \/ RunEnd(n) \/ RunDeregister(n)
      PROVE  Remembered(k)'
  <2>1. CASE RunCreateQueues(n)
    BY <1>2, <1>4, <2>1, CreatePending DEF RunCreateQueues
  <2>2. CASE Cancel(n) \/ RunStartWorkers(n) \/ RunWait(n) \/ RunEnd(n)
    BY <1>4, <2>2, ControlPending DEF Cancel, RunStartWorkers, RunWait, RunEnd
  <2>3. CASE \E q \in Queues : RunShutDownQueue(n, q)
    BY <1>4, <2>3, QueuePending DEF RunShutDownQueue
  <2>4. CASE RunDeregister(n)
    BY <1>1, <2>4 DEF RunDeregister, OnlyRun
  <2>5. QED
    BY <1>8, <2>1, <2>2, <2>3, <2>4
<1>9. CASE OpenStep
  <2>1. ASSUME NEW j \in Objects, HandleObject(j)
        PROVE  Remembered(k)'
    <3>1. j \in Keys
      BY ControllerAssumption DEF ControllerAssumption
    <3>2. Pending(k) => Pending(k)'
      BY <1>3, <2>1, <3>1, HandlePending
    <3>3. QED
      BY <1>4, <2>1, <3>2 DEF HandleObject
  <2>2. ASSUME NEW j \in Objects, Change(j)
        PROVE  Remembered(k)'
    <3>1. /\ UNCHANGED <<startKeys, current, wq, disp, worker, handled, registration>>
          /\ want' = [want EXCEPT ![j] = @ + 1]
          /\ notify' = IF registration = "active" THEN notify \cup {j} ELSE notify
      BY <2>2 DEF Change
    <3>2. Pending(k) => Pending(k)'
      BY <3>1 DEF Pending
    <3>3. CASE j # k
      BY <1>1, <1>5, <3>1, <3>2, <3>3 DEF Remembered
    <3>4. CASE j = k
      <4>1. registration \in {"nil", "active"}
        BY <1>1 DEF OnlyRun, Inv, TypeOK
      <4>2. k \in notify' => Pending(k)'
        BY DEF Pending
      <4>3. QED
        BY <3>1, <3>4, <4>1, <4>2 DEF Remembered
    <3>5. QED
      BY <3>3, <3>4
  <2>3. ASSUME NEW j \in Objects, DropNotification(j)
        PROVE  Remembered(k)'
    BY <1>1, <2>3 DEF DropNotification, OnlyRun
  <2>4. ASSUME NEW j \in Keys, NEW after \in BOOLEAN, EnqueueKeyAfter(j, after)
        PROVE  Remembered(k)'
    <3>1. want' = [want EXCEPT ![j] = @ + 1] /\ UNCHANGED <<handled, registration>>
      BY <2>4 DEF EnqueueKeyAfter
    <3>2. (Pending(k) => Pending(k)') /\ (k = j => Pending(k)')
      BY <1>3, <2>4, EnqueuePending
    <3>3. QED
      BY <1>1, <1>5, <3>1, <3>2 DEF Remembered
  <2>5. ASSUME NEW n \in Starts, NEW s \in StartKey, RunAddStartKey(n, s)
        PROVE  Remembered(k)'
    <3>1. n = current /\ s.key \in Keys
      BY <1>1, <2>5 DEF RunAddStartKey, OnlyRun, StartKey
    <3>2. ~wq[n][Split[s.key]].down
      BY <1>1, <3>1, Places DEF OnlyRun
    <3>3. QED
      BY <1>4, <2>5, <3>1, <3>2, FillPending DEF RunAddStartKey
  <2>6. ASSUME NEW n \in Starts, NEW q \in Queues, Dispatch(n, q)
        PROVE  Remembered(k)'
    <3>1. UNCHANGED <<registration, want, handled>>
      BY <2>6 DEF Dispatch, DispatchGet, DispatchShutdown, DispatchAcquire, DispatchCheck,
                  DispatchSpawn
    <3>2. ~wq[n][q].down
      BY <1>1 DEF OnlyRun
    <3>3. Pending(k) => Pending(k)'
      BY <2>6, <3>2, GetPending, DispatchPending, SpawnPending DEF Dispatch
    <3>4. QED
      BY <1>4, <3>1, <3>3
  <2>7. ASSUME NEW n \in Starts, NEW q \in Queues, NEW j \in Keys, DelayEnds(n, q, j)
        PROVE  Remembered(k)'
    BY <1>4, <2>7, QueuePending DEF DelayEnds
  <2>8. ASSUME NEW g \in Goroutines, Work(g)
        PROVE  Remembered(k)'
    <3>1. CASE SyncOk(g) \/ QueueDone(g) \/ Release(g)
      <4>1. ~SyncHandler(g)
        BY <3>1 DEF SyncHandler, SyncOk, QueueDone, Release
      <4>2. UNCHANGED <<registration, want, handled>>
        BY <3>1 DEF SyncOk, QueueDone, Release
      <4>3. QED
        BY <1>4, <3>1, <4>1, <4>2, WorkPending
    <3>2. CASE SyncHandler(g)
      <4>1. handled' = [handled EXCEPT ![worker[g].key] = want[worker[g].key]]
            /\ UNCHANGED <<registration, want>>
        BY <3>2 DEF SyncHandler
      <4>2. CASE worker[g].key = k
        BY <1>5, <4>1, <4>2 DEF Remembered
      <4>3. CASE worker[g].key # k
        <5>1. handled'[k] = handled[k]
          BY <1>5, <4>1, <4>3
        <5>2. Pending(k) => Pending(k)'
          BY <3>2, <4>3, WorkPending
        <5>3. QED
          BY <1>1, <4>1, <5>1, <5>2 DEF Remembered
      <4>4. QED
        BY <4>2, <4>3
    <3>3. CASE SyncError(g)
      <4>1. handled' = [handled EXCEPT ![worker[g].key] = 0] /\ UNCHANGED <<registration, want>>
            /\ worker[g].pc = "sync"
        BY <3>3 DEF SyncError
      <4>2. worker[g].run \in Starts /\ worker[g].run = current
        BY <1>1, <4>1 DEF OnlyRun, Inv, WorkerOk, FreshRuns
      <4>3. (Pending(k) => Pending(k)') /\ (worker[g].key = k => Pending(k)')
        <5>1. ~wq[current][Split[k]].down
          BY <1>1, <4>2, Places DEF OnlyRun
        <5>2. QED
          BY <3>3, <4>2, <5>1, ErrorPending
      <4>4. CASE worker[g].key = k
        BY <4>3, <4>4 DEF Remembered
      <4>5. CASE worker[g].key # k
        <5>1. handled'[k] = handled[k]
          BY <1>5, <4>1, <4>5
        <5>2. QED
          BY <1>1, <4>1, <4>3, <5>1 DEF Remembered
      <4>6. QED
        BY <4>4, <4>5
    <3>4. QED
      BY <2>8, <3>1, <3>2, <3>3 DEF Work
  <2>9. CASE CacheSync
    BY <1>4, <2>9, ControlPending DEF CacheSync
  <2>10. CASE UNCHANGED vars
    BY <1>1, <2>10 DEF Remembered, Pending, vars
  <2>11. QED
    BY <1>9, <2>1, <2>2, <2>3, <2>4, <2>5, <2>6, <2>7, <2>8, <2>9, <2>10 DEF OpenStep
<1>10. QED
  BY <1>6, <1>7, <1>8, <1>9, NextCases

LEMMA DemandInit == Init => DemandInv /\ NoDemandLost
<1> SUFFICES ASSUME Init PROVE DemandInv /\ NoDemandLost
  OBVIOUS
<1>1. HandledOk /\ NoDemandLost
  BY DEF Init, HandledOk, NoDemandLost
<1>2. OnlyRun
  <2>1. \A n \in Starts, q \in Queues : ~wq[n][q].down
    BY DEF Init, NewQueue
  <2>2. \A n \in Starts : runPc[n] = "none" /\ current # n
    BY DEF Init, Starts
  <2>3. QED
    BY <2>1, <2>2 DEF Init, OnlyRun
<1>3. QED
  BY <1>1, <1>2 DEF DemandInv, Init

\* The invariant of this module, for any number of calls of Start.
THEOREM DemandInvariance == Spec => [](DemandInv /\ NoDemandLost)
<1> DEFINE Known == DemandInv /\ NoDemandLost
<1>1. Inv /\ Known /\ [Next]_vars => Known'
  <2> SUFFICES ASSUME Inv, DemandInv, NoDemandLost, [Next]_vars
               PROVE  DemandInv' /\ NoDemandLost'
    OBVIOUS
  <2>1. DemandInv'
    BY DemandInvStep
  <2>2. Undisturbed' => \A k \in Keys : Remembered(k)'
    BY RememberedStep
  <2>3. QED
    BY <2>1, <2>2 DEF NoDemandLost, Undisturbed, Remembered
<1>2. QED
  BY <1>1, DemandInit, Invariance, PTL DEF Spec

\* No key that was changed, enqueued or failed since its last invocation is lost
\* while no context has been cancelled, for any keys, queues, workers and
\* sequence of events.
THEOREM DemandKept == Spec => []NoDemandLost
<1>1. DemandInv /\ NoDemandLost => NoDemandLost
  OBVIOUS
<1>2. QED
  BY <1>1, DemandInvariance, PTL

-------------------------------------------------------------------------------
(* The controller is a Reconciler                                          *)

LEMMA DueIs ==
    ASSUME NEW k \in Keys
    PROVE  /\ k \in Due <=> handled[k] # want[k] \/ Pending(k)
           /\ (k \in Due <=> handled[k] # want[k] \/ Pending(k))'
BY DEF Due

LEMMA InHandlerIs ==
    ASSUME NEW k
    PROVE  /\ k \in InHandler <=> \E g \in Goroutines : worker[g].pc = "sync" /\ worker[g].key = k
           /\ (k \in InHandler <=> \E g \in Goroutines : worker[g].pc = "sync" /\ worker[g].key = k)'
BY DEF InHandler

\* Steps that begin and end no invocation: keys become due, or a controller that
\* is being stopped drops them.
LEMMA DueStep ==
    ASSUME UNCHANGED <<started, ctxDone>>, InHandler' = InHandler,
           Due \subseteq Due' \/ (~Undisturbed /\ Due' \subseteq Due)
    PROVE  Abstract!Next
<1>1. Phase' = Phase /\ (~Undisturbed => Phase = "stopped")
  BY DEF Phase, Undisturbed
<1>2. Due' \subseteq Keys
  BY DEF Due
<1>3. CASE Due \subseteq Due'
  BY <1>1, <1>2, <1>3 DEF Abstract!Next, Abstract!Demand
<1>4. CASE ~Undisturbed /\ Due' \subseteq Due
  BY <1>1, <1>4 DEF Abstract!Next, Abstract!Drop
<1>5. QED
  BY <1>3, <1>4

\* A worker that neither enters nor leaves the handler.
LEMMA SameHandler ==
    ASSUME Inv, NEW g \in Goroutines, NEW new, worker' = [worker EXCEPT ![g] = new],
           new.pc # "sync", worker[g].pc # "sync"
    PROVE  InHandler' = InHandler
<1>1. \A f \in Goroutines : worker'[f] = IF f = g THEN new ELSE worker[f]
  BY DEF Inv, TypeOK
<1>2. \A k : k \in InHandler' <=> k \in InHandler
  BY <1>1, InHandlerIs
<1>3. QED
  BY <1>2

\* StartBegin, the informer and the enqueue functions.
LEMMA DemandRefines ==
    ASSUME Inv, DemandInv, NoDemandLost,
           \/ StartBegin
           \/ \E k \in Objects : HandleObject(k) \/ Change(k) \/ DropNotification(k)
           \/ \E k \in Keys, after \in BOOLEAN : EnqueueKeyAfter(k, after)
    PROVE  Abstract!Next
<1> USE DEF ctlVars, queueVars, workVars
<1>1. UNCHANGED <<started, ctxDone, worker>>
  BY DEF StartBegin, HandleObject, Change, DropNotification, EnqueueKeyAfter
<1>2. InHandler' = InHandler
  BY <1>1 DEF InHandler
<1>3. /\ want \in [Keys -> Nat] /\ handled \in [Keys -> Nat] /\ HandledOk
      /\ Undisturbed => OnlyRun
  BY ControllerAssumption DEF Inv, TypeOK, ControllerAssumption, DemandInv
<1>4. CASE StartBegin
  <2>1. \A k \in Keys : Pending(k) => Pending(k)'
    BY <1>4 DEF StartBegin, Pending
  <2>2. UNCHANGED <<want, handled>>
    BY <1>4 DEF StartBegin
  <2>3. Due \subseteq Due'
    BY <2>1, <2>2 DEF Due
  <2>4. QED
    BY <1>1, <1>2, <2>3, DueStep
<1>5. ASSUME NEW k \in Objects, HandleObject(k) PROVE Abstract!Next
  <2>1. k \in Keys /\ UNCHANGED <<want, handled>>
    BY <1>5, ControllerAssumption DEF ControllerAssumption, HandleObject
  <2>2. \A j \in Keys : Pending(j)' => Pending(j)
    BY <1>5, HandlePending
  <2>3. Undisturbed => \A j \in Keys : Pending(j) => Pending(j)'
    <3>1. Undisturbed => current = 0 \/ ~wq[current][Split[k]].down
      BY <1>3, <2>1, Places DEF OnlyRun
    <3>2. QED
      BY <1>5, <3>1, HandlePending
  <2>4. Due' \subseteq Due /\ (Undisturbed => Due \subseteq Due')
    BY <2>1, <2>2, <2>3 DEF Due
  <2>5. QED
    BY <1>1, <1>2, <2>4, DueStep
<1>6. ASSUME NEW k \in Objects, Change(k) PROVE Abstract!Next
  <2>1. /\ UNCHANGED <<startKeys, current, wq, disp, worker, handled>>
        /\ want' = [want EXCEPT ![k] = @ + 1] /\ notify \subseteq notify'
    BY <1>6 DEF Change
  <2>2. \A j \in Keys : Pending(j) => Pending(j)'
    BY <2>1 DEF Pending
  <2>3. \A j \in Keys : handled[j] # want[j] => handled'[j] # want'[j]
    BY <1>3, <2>1 DEF HandledOk
  <2>4. Due \subseteq Due'
    BY <2>2, <2>3 DEF Due
  <2>5. QED
    BY <1>1, <1>2, <2>4, DueStep
<1>7. ASSUME NEW k \in Objects, DropNotification(k) PROVE Abstract!Next
  <2>1. /\ UNCHANGED <<startKeys, current, wq, disp, worker, handled, want>>
        /\ notify' \subseteq notify /\ registration = "removed"
    BY <1>7 DEF DropNotification
  <2>2. ~Undisturbed
    BY <1>3, <2>1 DEF OnlyRun
  <2>3. \A j \in Keys : Pending(j)' => Pending(j)
    BY <2>1 DEF Pending
  <2>4. Due' \subseteq Due
    BY <2>1, <2>3 DEF Due
  <2>5. QED
    BY <1>1, <1>2, <2>2, <2>4, DueStep
<1>8. ASSUME NEW k \in Keys, NEW after \in BOOLEAN, EnqueueKeyAfter(k, after) PROVE Abstract!Next
  <2>1. want' = [want EXCEPT ![k] = @ + 1] /\ UNCHANGED handled
    BY <1>8 DEF EnqueueKeyAfter
  <2>2. \A j \in Keys : Pending(j) => Pending(j)'
    BY <1>8, EnqueuePending
  <2>3. \A j \in Keys : handled[j] # want[j] => handled'[j] # want'[j]
    BY <1>3, <2>1 DEF HandledOk
  <2>4. Due \subseteq Due'
    BY <2>2, <2>3 DEF Due
  <2>5. QED
    BY <1>1, <1>2, <2>4, DueStep
<1>9. QED
  BY <1>4, <1>5, <1>6, <1>7, <1>8

\* Start, Cancel, CacheSync and the steps of run.
LEMMA ControlRefines ==
    ASSUME Inv, DemandInv,
           \/ StartSynced \/ StartCancelled \/ CacheSync
           \/ \E n \in Starts : Cancel(n) \/ Run(n)
    PROVE  [Abstract!Next]_(Abstract!vars)
<1> USE DEF ctlVars, queueVars, workVars
<1>1. UNCHANGED <<worker, want, handled>>
  BY DEF StartSynced, StartCancelled, CacheSync, Cancel, Run, RunCreateQueues, RunStartWorkers,
         RunAddStartKey, RunShutDownQueue, RunWait, RunEnd, RunDeregister
<1>2. InHandler' = InHandler
  BY <1>1 DEF InHandler
<1>3. Undisturbed => OnlyRun
  BY DEF DemandInv
<1>4. ASSUME \A k \in Keys : Pending(k)' <=> Pending(k)
      PROVE  Due' = Due
  BY <1>1, <1>4 DEF Due
<1>5. CASE StartSynced
  <2>1. Due' = Due
    BY <1>4, <1>5, ControlPending
  <2>2. ~started /\ started' /\ UNCHANGED ctxDone
    BY <1>5 DEF StartSynced, DemandInv
  <2>3. CASE Undisturbed
    <3>1. Phase = "new" /\ Phase' = "serving"
      BY <2>2, <2>3 DEF Phase, Undisturbed
    <3>2. QED
      BY <1>2, <2>1, <3>1 DEF Abstract!Next, Abstract!Serve
  <2>4. CASE ~Undisturbed
    <3>1. Phase' = Phase
      BY <2>2, <2>4 DEF Phase, Undisturbed
    <3>2. QED
      BY <1>2, <2>1, <3>1 DEF Abstract!vars
  <2>5. QED
    BY <2>3, <2>4
<1>6. CASE StartCancelled \/ CacheSync
  <2>1. Due' = Due
    BY <1>4, <1>6, ControlPending
  <2>2. UNCHANGED <<started, ctxDone>>
    BY <1>6 DEF StartCancelled, CacheSync
  <2>3. QED
    BY <1>2, <2>1, <2>2, DueStep
<1>7. ASSUME NEW n \in Starts, Cancel(n) PROVE [Abstract!Next]_(Abstract!vars)
  <2>1. Due' = Due
    BY <1>4, <1>7, ControlPending
  <2>2. \E m \in Starts : ctxDone'[m]
    BY <1>7 DEF Cancel, Inv, TypeOK
  <2>3. Phase' = "stopped"
    BY <2>2 DEF Phase
  <2>4. CASE Phase = "stopped"
    BY <1>2, <2>1, <2>3, <2>4 DEF Abstract!vars
  <2>5. CASE Phase # "stopped"
    BY <1>2, <2>1, <2>3, <2>5 DEF Abstract!Next, Abstract!Stop
  <2>6. QED
    BY <2>4, <2>5
<1>8. ASSUME NEW n \in Starts, RunCreateQueues(n) PROVE [Abstract!Next]_(Abstract!vars)
  <2>1. UNCHANGED <<started, ctxDone>> /\ runPc[n] = "init"
    BY <1>8 DEF RunCreateQueues
  <2>2. \A k \in Keys : Pending(k)' => Pending(k)
    BY <1>8, CreatePending
  <2>3. Undisturbed => \A k \in Keys : Pending(k)' <=> Pending(k)
    <3>1. Undisturbed => \A m \in Starts : current # m
      BY <1>3, <2>1 DEF OnlyRun
    <3>2. Undisturbed => current = 0
      BY <3>1, Places
    <3>3. QED
      BY <1>8, <3>2, CreatePending
  <2>4. Due' \subseteq Due /\ (Undisturbed => Due' = Due)
    BY <1>1, <2>2, <2>3 DEF Due
  <2>5. QED
    BY <1>2, <2>1, <2>4, DueStep
<1>9. ASSUME NEW n \in Starts, NEW s \in StartKey, RunAddStartKey(n, s)
      PROVE  [Abstract!Next]_(Abstract!vars)
  <2>1. UNCHANGED <<started, ctxDone>> /\ runPc[n] = "fill" /\ s.key \in Keys
    BY <1>9 DEF RunAddStartKey, StartKey
  <2>2. \A k \in Keys : Pending(k)' => Pending(k)
    BY <1>9, FillPending
  <2>3. Undisturbed => \A k \in Keys : Pending(k)' <=> Pending(k)
    <3>1. Undisturbed => n = current /\ ~wq[n][Split[s.key]].down
      BY <1>3, <2>1, Places DEF OnlyRun
    <3>2. QED
      BY <1>9, <3>1, FillPending
  <2>4. Due' \subseteq Due /\ (Undisturbed => Due' = Due)
    BY <1>1, <2>2, <2>3 DEF Due
  <2>5. QED
    BY <1>2, <2>1, <2>4, DueStep
<1>10. ASSUME NEW n \in Starts,
              RunStartWorkers(n) \/ RunWait(n) \/ RunDeregister(n)
              \/ \E q \in Queues : RunShutDownQueue(n, q)
       PROVE  [Abstract!Next]_(Abstract!vars)
  <2>1. UNCHANGED <<started, ctxDone>>
    BY <1>10 DEF RunStartWorkers, RunWait, RunDeregister, RunShutDownQueue
  <2>2. \A k \in Keys : Pending(k)' <=> Pending(k)
    BY <1>10, ControlPending, QueuePending
  <2>3. Due' = Due
    BY <1>4, <2>2
  <2>4. QED
    BY <1>2, <2>1, <2>3, DueStep
<1>11. ASSUME NEW n \in Starts, RunEnd(n) PROVE [Abstract!Next]_(Abstract!vars)
  <2>1. UNCHANGED ctxDone /\ runPc[n] = "ended"
    BY <1>11 DEF RunEnd
  <2>2. ~Undisturbed
    BY <1>3, <2>1 DEF OnlyRun
  <2>3. Phase' = Phase
    BY <2>1, <2>2 DEF Phase, Undisturbed
  <2>4. \A k \in Keys : Pending(k)' <=> Pending(k)
    BY <1>11, ControlPending
  <2>5. QED
    BY <1>2, <1>4, <2>3, <2>4 DEF Abstract!vars
<1>12. QED
  BY <1>5, <1>6, <1>7, <1>8, <1>9, <1>10, <1>11 DEF Run

\* The dispatchers and the delays of the queues.
LEMMA DispatchRefines ==
    ASSUME Inv, DemandInv, NEW n \in Starts, NEW q \in Queues,
           Dispatch(n, q) \/ \E k \in Keys : DelayEnds(n, q, k)
    PROVE  Abstract!Next
<1> USE DEF ctlVars, queueVars, workVars
<1>1. UNCHANGED <<started, ctxDone, want, handled>>
  BY DEF Dispatch, DispatchGet, DispatchShutdown, DispatchAcquire, DispatchCheck, DispatchSpawn,
         DelayEnds
<1>2. InHandler' = InHandler
  <2>1. CASE UNCHANGED worker
    BY <2>1 DEF InHandler
  <2>2. ASSUME NEW g \in Goroutines, DispatchSpawn(n, q, g)
        PROVE  InHandler' = InHandler
    <3> DEFINE new == [pc |-> "start", run |-> n, key |-> disp[n][q].item]
    <3>1. worker' = [worker EXCEPT ![g] = new] /\ worker[g].pc = "idle" /\ new.pc = "start"
      BY <2>2 DEF DispatchSpawn
    <3> HIDE DEF new
    <3>2. QED
      BY <3>1, SameHandler
  <2>3. QED
    BY <2>1, <2>2 DEF Dispatch, DispatchGet, DispatchShutdown, DispatchAcquire, DispatchCheck,
                      DelayEnds
<1>3. Undisturbed => ~wq[n][q].down
  BY DEF DemandInv, OnlyRun
<1>4. CASE DispatchCheck(n, q)
  <2>1. \A k \in Keys : Pending(k)' => Pending(k)
    BY <1>4, DispatchPending
  <2>2. Undisturbed => \A k \in Keys : Pending(k) => Pending(k)'
    BY <1>3, <1>4, DispatchPending
  <2>3. Due' \subseteq Due /\ (Undisturbed => Due \subseteq Due')
    BY <1>1, <2>1, <2>2 DEF Due
  <2>4. QED
    BY <1>1, <1>2, <2>3, DueStep
<1>5. CASE ~DispatchCheck(n, q)
  <2>1. \A k \in Keys : Pending(k) => Pending(k)'
    BY <1>5, GetPending, DispatchPending, SpawnPending, QueuePending DEF Dispatch
  <2>2. Due \subseteq Due'
    BY <1>1, <2>1 DEF Due
  <2>3. QED
    BY <1>1, <1>2, <2>2, DueStep
<1>6. QED
  BY <1>4, <1>5

\* The workers: entering the handler begins an invocation, and leaving it ends
\* the only one of the key.
LEMMA WorkRefines ==
    ASSUME MaxStarts = 1, Inv, DemandInv, NEW g \in Goroutines, Work(g)
    PROVE  Abstract!Next
<1> USE DEF ctlVars, queueVars, workVars
<1> DEFINE k == worker[g].key
<1>1. /\ UNCHANGED <<started, ctxDone, want>> /\ worker[g].pc # "idle"
      /\ want \in [Keys -> Nat] /\ handled \in [Keys -> Nat] /\ HandledOk
  BY ControllerAssumption DEF Work, SyncHandler, SyncOk, SyncError, QueueDone, Release, Inv, TypeOK,
         ControllerAssumption, DemandInv
<1>2. /\ worker[g] \in [pc : WorkerPc, run : 0..MaxStarts, key : Keys \cup {NoKey}]
      /\ k \in Keys /\ worker[g].run \in Starts
  BY <1>1 DEF Inv, TypeOK, WorkerOk
<1>3. \A f \in Goroutines : f # g /\ Owns(f) /\ Owns(g) => worker[f].key # k
  <2>1. \A f \in Goroutines : Owns(f) => worker[f].run = 1
    BY DEF Owns, Inv, WorkerOk, Starts
  <2>2. QED
    BY <2>1 DEF Inv, KeyExclusive
<1>4. Phase' = Phase /\ Phase # "new"
  <2>1. Undisturbed => started
    BY <1>1, <1>2 DEF DemandInv, OnlyRun, Inv, FreshRuns
  <2>2. QED
    BY <1>1, <2>1 DEF Phase, Undisturbed
<1>5. CASE SyncHandler(g)
  <2> DEFINE new == [worker[g] EXCEPT !.pc = "sync"]
  <2>1. /\ worker[g].pc = "start" /\ worker' = [worker EXCEPT ![g] = new]
        /\ handled' = [handled EXCEPT ![k] = want[k]]
    BY <1>5 DEF SyncHandler
  <2>2. new.pc = "sync" /\ new.key = k
    BY <1>2
  <2> HIDE DEF new, k
  <2>3. \A f \in Goroutines : worker'[f] = IF f = g THEN new ELSE worker[f]
    BY <2>1 DEF Inv, TypeOK
  <2>4. k \in Due
    <3>1. Pending(k)
      BY <2>1 DEF Pending, k
    <3>2. QED
      BY <1>2, <3>1, DueIs
  <2>5. k \notin InHandler
    <3>1. \A f \in Goroutines : worker[f].pc = "sync" => worker[f].key # k
      BY <1>3, <2>1 DEF Owns
    <3>2. QED
      BY <3>1, InHandlerIs
  <2>6. InHandler' = InHandler \cup {k}
    <3>1. \A j : j \in InHandler' <=> j \in InHandler \/ j = k
      BY <2>1, <2>2, <2>3, InHandlerIs
    <3>2. QED
      BY <3>1
  <2>7. \A j \in Keys : j # k => (j \in Due' <=> j \in Due)
    <3>1. \A j \in Keys : j # k => handled'[j] = handled[j] /\ (Pending(j)' <=> Pending(j))
      BY <1>1, <1>5, <2>1, WorkPending DEF k
    <3>2. QED
      BY <1>1, <3>1, DueIs
  <2>8. Due' \in {Due, Due \ {k}}
    <3>1. Due \subseteq Keys /\ Due' \subseteq Keys
      BY DEF Due
    <3>2. CASE k \in Due'
      BY <2>4, <2>7, <3>1, <3>2
    <3>3. CASE k \notin Due'
      BY <2>4, <2>7, <3>1, <3>3
    <3>4. QED
      BY <3>2, <3>3
  <2>9. Abstract!Begin(k)
    BY <1>4, <2>4, <2>5, <2>6, <2>8 DEF Abstract!Begin
  <2>10. QED
    BY <1>2, <2>9 DEF Abstract!Next
<1>6. CASE SyncOk(g) \/ SyncError(g)
  <2> DEFINE new == [worker[g] EXCEPT !.pc = "done"]
  <2>1. worker[g].pc = "sync" /\ worker' = [worker EXCEPT ![g] = new]
    BY <1>6 DEF SyncOk, SyncError
  <2>2. new.pc = "done"
    BY <1>2
  <2> HIDE DEF new, k
  <2>3. \A f \in Goroutines : worker'[f] = IF f = g THEN new ELSE worker[f]
    BY <2>1 DEF Inv, TypeOK
  <2>4. k \in InHandler
    BY <2>1, InHandlerIs DEF k
  <2>5. InHandler' = InHandler \ {k}
    <3>1. \A f \in Goroutines : f # g /\ worker[f].pc = "sync" => worker[f].key # k
      BY <1>3, <2>1 DEF Owns
    <3>2. \A j : j \in InHandler' <=> j \in InHandler /\ j # k
      <4>1. ASSUME NEW j PROVE j \in InHandler' <=> j \in InHandler /\ j # k
        <5>1. j \in InHandler' <=> \E f \in Goroutines : worker'[f].pc = "sync" /\ worker'[f].key = j
          BY InHandlerIs
        <5>2. j \in InHandler <=> \E f \in Goroutines : worker[f].pc = "sync" /\ worker[f].key = j
          BY InHandlerIs
        <5>3. \A f \in Goroutines : worker'[f].pc = "sync" <=> f # g /\ worker[f].pc = "sync"
          BY <2>2, <2>3
        <5>4. QED
          BY <2>3, <3>1, <5>1, <5>2, <5>3 DEF k
      <4>2. QED
        BY <4>1
    <3>3. QED
      BY <3>2
  <2>6. CASE SyncOk(g)
    <3>1. UNCHANGED handled
      BY <2>6 DEF SyncOk
    <3>2. ~SyncHandler(g)
      BY <2>1 DEF SyncHandler
    <3>3. \A j \in Keys : Pending(j)' <=> Pending(j)
      BY <2>6, <3>2, WorkPending
    <3>4. Due' = Due
      BY <1>1, <3>1, <3>3 DEF Due
    <3>5. Abstract!End(k)
      BY <1>4, <2>4, <2>5, <3>4 DEF Abstract!End
    <3>6. QED
      BY <1>2, <3>5 DEF Abstract!Next
  <2>7. CASE SyncError(g)
    <3>1. handled' = [handled EXCEPT ![k] = 0]
      BY <2>7 DEF SyncError, k
    <3>2. \A j \in Keys : j # k => (j \in Due' <=> j \in Due)
      <4>1. \A j \in Keys : j # k => handled'[j] = handled[j] /\ (Pending(j)' <=> Pending(j))
        BY <1>1, <2>7, <3>1, ErrorPending DEF k
      <4>2. QED
        BY <1>1, <4>1, DueIs
    <3>3. k \in Due => k \in Due'
      <4>1. handled[k] # want[k] => handled'[k] # want'[k]
        BY <1>1, <1>2, <3>1 DEF HandledOk
      <4>2. \A j \in Keys : Pending(j) => Pending(j)'
        BY <2>7, ErrorPending
      <4>3. QED
        BY <1>2, <4>1, <4>2, DueIs
    <3>4. Due \subseteq Keys /\ Due' \subseteq Keys
      BY DEF Due
    <3>5. CASE k \in Due'
      <4>1. Due' = Due \cup {k}
        BY <3>2, <3>4, <3>5
      <4>2. Abstract!Fail(k)
        BY <1>4, <2>4, <2>5, <4>1 DEF Abstract!Fail
      <4>3. QED
        BY <1>2, <4>2 DEF Abstract!Next
    <3>6. CASE k \notin Due'
      <4>1. Due' = Due
        BY <3>2, <3>3, <3>4, <3>6
      <4>2. Abstract!End(k)
        BY <1>4, <2>4, <2>5, <4>1 DEF Abstract!End
      <4>3. QED
        BY <1>2, <4>2 DEF Abstract!Next
    <3>7. QED
      BY <3>5, <3>6
  <2>8. QED
    BY <1>6, <2>6, <2>7
<1>7. CASE QueueDone(g) \/ Release(g)
  <2>1. UNCHANGED handled /\ worker[g].pc \in {"done", "release"}
    BY <1>7 DEF QueueDone, Release
  <2>2. \A j \in Keys : Pending(j)' <=> Pending(j)
    <3>1. ~SyncHandler(g)
      BY <2>1 DEF SyncHandler
    <3>2. QED
      BY <1>7, <3>1, WorkPending
  <2>3. Due' = Due
    BY <1>1, <2>1, <2>2 DEF Due
  <2>4. PICK new : worker' = [worker EXCEPT ![g] = new] /\ new.pc # "sync"
    <3>1. [worker[g] EXCEPT !.pc = "release"].pc = "release" /\ Idle.pc = "idle"
      BY <1>2 DEF Idle
    <3>2. \/ worker' = [worker EXCEPT ![g] = [worker[g] EXCEPT !.pc = "release"]]
          \/ worker' = [worker EXCEPT ![g] = Idle]
      BY <1>7 DEF QueueDone, Release
    <3>3. QED
      BY <3>1, <3>2
  <2>5. InHandler' = InHandler
    BY <2>1, <2>4, SameHandler
  <2>6. QED
    BY <1>1, <2>3, <2>5, DueStep
<1>8. QED
  BY <1>5, <1>6, <1>7 DEF Work

\* With one call of Start, every step of the controller is a step of the
\* Reconciler or changes nothing that it shows: the safety part of
\* ImplementsReconciler, for any keys, queues, workers and goroutines.
THEOREM RefinesReconciler ==
    ASSUME MaxStarts = 1
    PROVE  Spec => Abstract!Safety
<1>1. Init => Abstract!Init
  <2> SUFFICES ASSUME Init PROVE Abstract!Init
    OBVIOUS
  <2>1. Phase = "new"
    BY DEF Init, Phase
  <2>2. Due = {}
    <3>1. ASSUME NEW k \in Keys PROVE ~Pending(k) /\ handled[k] = want[k]
      BY DEF Init, Pending, Idle
    <3>2. QED
      BY <3>1 DEF Due
  <2>3. InHandler = {}
    BY DEF Init, InHandler, Idle
  <2>4. QED
    BY <2>1, <2>2, <2>3 DEF Abstract!Init
<1>2. Inv /\ (DemandInv /\ NoDemandLost) /\ [Next]_vars => [Abstract!Next]_(Abstract!vars)
  <2> SUFFICES ASSUME Inv, DemandInv, NoDemandLost, [Next]_vars
               PROVE  [Abstract!Next]_(Abstract!vars)
    OBVIOUS
  <2>1. CASE Start
    BY <2>1, DemandRefines, ControlRefines DEF Start
  <2>2. CASE Informer
    BY <2>2, DemandRefines, ControlRefines DEF Informer
  <2>3. ASSUME NEW n \in Starts, Cancel(n) \/ Run(n)
        PROVE  [Abstract!Next]_(Abstract!vars)
    BY <2>3, ControlRefines
  <2>4. ASSUME NEW k \in Keys, NEW after \in BOOLEAN, EnqueueKeyAfter(k, after)
        PROVE  Abstract!Next
    BY <2>4, DemandRefines
  <2>5. ASSUME NEW n \in Starts, NEW q \in Queues,
               Dispatch(n, q) \/ \E k \in Keys : DelayEnds(n, q, k)
        PROVE  Abstract!Next
    BY <2>5, DispatchRefines
  <2>6. ASSUME NEW g \in Goroutines, Work(g)
        PROVE  Abstract!Next
    BY <2>6, WorkRefines
  <2>7. CASE UNCHANGED vars
    BY <2>7 DEF vars, ctlVars, queueVars, workVars, Abstract!vars, Phase, Due, InHandler, Pending
  <2>8. QED
    BY <2>1, <2>2, <2>3, <2>4, <2>5, <2>6, <2>7 DEF Next
<1>3. QED
  BY <1>1, <1>2, Invariance, DemandInvariance, PTL DEF Spec, Abstract!Safety
===============================================================================
