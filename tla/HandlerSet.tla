------------------------------ MODULE HandlerSet ------------------------------
(***************************************************************************)
(* HandlerSet.onChange, checkDelay, forgetBackoff and handle of            *)
(* pkg/router/handler.go, and save of pkg/router/save.go, for the objects  *)
(* of one kind.                                                            *)
(*                                                                         *)
(* The same object is in the controller's queue under up to three items:   *)
(* its key ("event"), the key with TriggerPrefix ("trigger") and the key   *)
(* with TriggerPrefix and ReplayPrefix ("replay").  The queue never hands  *)
(* out one item twice at a time, but it does hand out the three items of   *)
(* an object to three workers; the locker of the HandlerSet serialises     *)
(* them.  The handler is the simplest level-triggered one: it writes the   *)
(* spec it sees to the status.                                             *)
(***************************************************************************)
EXTENDS Integers, FiniteSets

CONSTANTS Keys,        \* the objects
          Specs,       \* the values of their specs
          NoStatus,    \* the status of a new object
          Absent,      \* an object that does not exist; nil
          Burst,       \* the burst of the limiter, 10 in the code
          MayRetry,    \* whether handlers call RetryAfter
          Swallows,    \* whether the ErrorHandler returns nil for errors
          MaxChanges,  \* bound: changes of objects and triggers by other objects
          MaxErrors    \* bound: failed reads and failed handlers

ASSUME HandlerSetAssumption ==
    /\ NoStatus \notin Specs
    /\ Burst \in Nat \ {0}
    /\ MayRetry \in BOOLEAN /\ Swallows \in BOOLEAN
    /\ MaxChanges \in Nat /\ MaxErrors \in Nat

VARIABLES
    srv,      \* the objects at the API server
    cache,    \* the objects in the informer cache
    changes,  \* changes so far
    errors,   \* failures so far
    queue,    \* items waiting in the controller's queue or for a delay to end
    call,     \* call[i]: the onChange call for item i
    locker,   \* locker[k]: the item whose call holds the lock of k, as a set
    tokens,   \* tokens[k]: tokens of the limiter of k; a new limiter has Burst
    waiting,  \* m.waiting: the keys with a sleeping back-off goroutine
    told      \* history: the object last handed to Trigger or UnregisterAndTrigger

vars == <<srv, cache, changes, errors, queue, call, locker, tokens, waiting, told>>

Froms == {"event", "trigger", "replay"}
Items == Keys \X Froms
Key(i) == i[1]
From(i) == i[2]
ItemsOf(k) == {i \in Items : Key(i) = k}

Object == [spec : Specs, status : Specs \cup {NoStatus}, rv : Nat]

\* pc: where the call is; arg: the object syncHandler passed; obj: the object
\* as read under the lock; new: the status the handler left.
IdleCall == [pc |-> "idle", arg |-> Absent, obj |-> Absent, new |-> NoStatus]

Init ==
    /\ srv \in [Keys -> {[spec |-> s, status |-> NoStatus, rv |-> 0] : s \in Specs} \cup {Absent}]
    /\ cache = [k \in Keys |-> Absent]
    /\ changes = 0
    /\ errors = 0
    /\ queue = {}
    /\ call = [i \in Items |-> IdleCall]
    /\ locker = [k \in Keys |-> {}]
    /\ tokens = [k \in Keys |-> Burst]
    /\ waiting = {}
    /\ told = [k \in Keys |-> Absent]

-------------------------------------------------------------------------------
(* The cluster and the informer (external)                                 *)

\* Somebody else creates, updates or deletes the object.
ChangeSpec(k, s) ==
    /\ changes < MaxChanges
    /\ changes' = changes + 1
    /\ IF srv[k] = Absent
       THEN srv' = [srv EXCEPT ![k] = [spec |-> s, status |-> NoStatus, rv |-> changes + 1]]
       ELSE /\ srv[k].spec # s
            /\ srv' = [srv EXCEPT ![k].spec = s, ![k].rv = @ + 1]
    /\ UNCHANGED <<errors, cache, queue, call, locker, tokens, waiting, told>>

Delete(k) ==
    /\ changes < MaxChanges
    /\ srv[k] # Absent
    /\ changes' = changes + 1
    /\ srv' = [srv EXCEPT ![k] = Absent]
    /\ UNCHANGED <<errors, cache, queue, call, locker, tokens, waiting, told>>

\* The informer catches up with the server and notifies the controller.
Inform(k) ==
    /\ cache[k] # srv[k]
    /\ cache' = [cache EXCEPT ![k] = srv[k]]
    /\ queue' = queue \cup {<<k, "event">>}
    /\ UNCHANGED <<srv, changes, errors, call, locker, tokens, waiting, told>>

\* Another object triggers k.
Triggered(k) ==
    /\ changes < MaxChanges
    /\ changes' = changes + 1
    /\ queue' = queue \cup {<<k, "trigger">>}
    /\ UNCHANGED <<srv, cache, errors, call, locker, tokens, waiting, told>>

-------------------------------------------------------------------------------
(* onChange                                                                *)

Return(i) == call' = [call EXCEPT ![i] = IdleCall]
Unlock(i) == locker' = [locker EXCEPT ![Key(i)] = @ \ {i}]
Goto(i, pc) == call' = [call EXCEPT ![i].pc = pc]

\* A worker takes the item; syncHandler reads the object unless the key is a
\* special key, and onChange takes the prefixes off.  Only a key without a
\* prefix goes through the limiter.
Begin(i) ==
    /\ i \in queue
    /\ call[i].pc = "idle"
    /\ queue' = queue \ {i}
    /\ call' = [call EXCEPT ![i] = [IdleCall EXCEPT
                    !.pc  = IF From(i) = "event" THEN "delay" ELSE "lock",
                    !.arg = IF From(i) = "event" THEN cache[Key(i)] ELSE Absent]]
    /\ UNCHANGED <<srv, cache, changes, errors, locker, tokens, waiting, told>>

\* Mutant: a key that is backing off reserves again.
CheckDelayAgain(i) ==
    LET k == Key(i) IN
    /\ call[i].pc = "delay"
    /\ tokens' = [tokens EXCEPT ![k] = @ - 1]
    /\ IF tokens[k] > 0 THEN Goto(i, "lock") /\ UNCHANGED waiting
       ELSE Return(i) /\ waiting' = waiting \cup {k}
    /\ UNCHANGED <<srv, cache, changes, errors, queue, locker, told>>

\* checkDelay: a key that is backing off is dropped; a key without a token
\* reserves the next one, starts a back-off goroutine and is dropped.
CheckDelay(i) ==
    LET k == Key(i) IN
    /\ call[i].pc = "delay"
    /\ IF k \in waiting THEN Return(i) /\ UNCHANGED <<tokens, waiting>>
       ELSE /\ tokens' = [tokens EXCEPT ![k] = @ - 1]
            /\ IF tokens[k] > 0 THEN Goto(i, "lock") /\ UNCHANGED waiting
               ELSE Return(i) /\ waiting' = waiting \cup {k}
    /\ UNCHANGED <<srv, cache, changes, errors, queue, locker, told>>

\* Time passes and the limiter gets a token.
Refill(k) ==
    /\ tokens[k] < Burst
    /\ tokens' = [tokens EXCEPT ![k] = @ + 1]
    /\ UNCHANGED <<srv, cache, changes, errors, queue, call, locker, waiting, told>>

\* Mutant: the back-off goroutine only ends the back-off.
BackoffEndsSilently(k) ==
    /\ k \in waiting
    /\ tokens[k] >= 0
    /\ waiting' = waiting \ {k}
    /\ UNCHANGED <<srv, cache, changes, errors, queue, call, locker, tokens, told>>

\* The back-off goroutine wakes up when the token it reserved is there.
BackoffEnds(k) ==
    /\ k \in waiting
    /\ tokens[k] >= 0
    /\ waiting' = waiting \ {k}
    /\ queue' = queue \cup {<<k, "replay">>}
    /\ UNCHANGED <<srv, cache, changes, errors, call, locker, tokens, told>>

\* Mutant: the lock key is the item, prefixes included.
LockItem(i) ==
    /\ call[i].pc = "lock"
    /\ i \notin locker[Key(i)]
    /\ locker' = [locker EXCEPT ![Key(i)] = @ \cup {i}]
    /\ Goto(i, "get")
    /\ UNCHANGED <<srv, cache, changes, errors, queue, tokens, waiting, told>>

\* m.locker.Lock(lockKey)
Lock(i) ==
    /\ call[i].pc = "lock"
    /\ locker[Key(i)] = {}
    /\ locker' = [locker EXCEPT ![Key(i)] = {i}]
    /\ Goto(i, "get")
    /\ UNCHANGED <<srv, cache, changes, errors, queue, tokens, waiting, told>>

\* backend.Get.  When it finds nothing the object of syncHandler is used; if
\* there is none either, the object is gone and its limiter is forgotten.
Get(i) ==
    LET k == Key(i)
        obj == IF cache[k] # Absent THEN cache[k] ELSE call[i].arg
    IN  /\ call[i].pc = "get"
        /\ call' = [call EXCEPT ![i].pc = "handle", ![i].obj = obj,
                                ![i].new = IF obj = Absent THEN NoStatus ELSE obj.status]
        /\ tokens' = IF obj = Absent THEN [tokens EXCEPT ![k] = Burst] ELSE tokens
        /\ UNCHANGED <<srv, cache, changes, errors, queue, locker, waiting, told>>

\* backend.Get, a handler or the status update fails, and the ErrorHandler
\* passes the error on: the controller requeues the item.
Fail(i) ==
    /\ queue' = queue \cup {i}
    /\ Return(i)
    /\ Unlock(i)
    /\ UNCHANGED <<srv, cache, changes, tokens, waiting, told>>

GetError(i) ==
    /\ call[i].pc = "get"
    /\ errors < MaxErrors
    /\ errors' = errors + 1
    /\ Fail(i)

-------------------------------------------------------------------------------
(* handle                                                                  *)

\* The handlers run and succeed.  They see a copy of the object.
HandleOk(i) ==
    /\ call[i].pc = "handle"
    /\ call' = [call EXCEPT ![i].pc = "trigger",
                            ![i].new = IF call[i].obj = Absent THEN @ ELSE call[i].obj.spec]
    /\ UNCHANGED <<srv, cache, changes, errors, queue, locker, tokens, waiting, told>>

\* A handler fails.  An error the ErrorHandler swallows does not stop handle.
HandleError(i) ==
    /\ call[i].pc = "handle"
    /\ errors < MaxErrors
    /\ errors' = errors + 1
    /\ IF Swallows THEN Goto(i, "trigger") /\ UNCHANGED <<srv, cache, changes, queue, locker, tokens, waiting, told>>
       ELSE Fail(i)

\* Mutant: a replay counts as a trigger.
FireTriggersEvents(i) ==
    /\ call[i].pc = "trigger"
    /\ told' = IF call[i].obj = Absent \/ From(i) = "event"
               THEN [told EXCEPT ![Key(i)] = call[i].obj] ELSE told
    /\ Goto(i, "save")
    /\ UNCHANGED <<srv, cache, changes, errors, queue, locker, tokens, waiting>>

\* UnregisterAndTrigger for an object that is gone, Trigger unless the call
\* comes from a trigger.
FireTriggers(i) ==
    /\ call[i].pc = "trigger"
    /\ told' = IF call[i].obj = Absent \/ From(i) # "trigger"
               THEN [told EXCEPT ![Key(i)] = call[i].obj] ELSE told
    /\ Goto(i, "save")
    /\ UNCHANGED <<srv, cache, changes, errors, queue, locker, tokens, waiting>>

StatusChanged(i) == call[i].obj # Absent /\ call[i].new # call[i].obj.status

\* Nothing to save.
SaveNothing(i) ==
    /\ call[i].pc = "save"
    /\ ~StatusChanged(i)
    /\ Goto(i, "retry")
    /\ UNCHANGED <<srv, cache, changes, errors, queue, locker, tokens, waiting, told>>

\* Status().Update succeeds for the version that was read only.
SaveStatus(i) ==
    LET k == Key(i) IN
    /\ call[i].pc = "save"
    /\ StatusChanged(i)
    /\ srv[k] = call[i].obj
    /\ srv' = [srv EXCEPT ![k].status = call[i].new, ![k].rv = @ + 1]
    /\ Goto(i, "retry")
    /\ UNCHANGED <<cache, changes, errors, queue, locker, tokens, waiting, told>>

\* It fails with a conflict, because the object has changed or is gone.
SaveConflict(i) ==
    /\ call[i].pc = "save"
    /\ StatusChanged(i)
    /\ srv[Key(i)] # call[i].obj
    /\ IF Swallows THEN Goto(i, "retry") /\ UNCHANGED <<srv, cache, changes, queue, locker, tokens, waiting, told>>
       ELSE Fail(i)
    /\ UNCHANGED errors

\* RetryAfter becomes a trigger of the key itself; then unlock and return.
Finish(i, retry) ==
    /\ call[i].pc = "retry"
    /\ retry => MayRetry
    /\ queue' = IF retry THEN queue \cup {<<Key(i), "trigger">>} ELSE queue
    /\ Return(i)
    /\ Unlock(i)
    /\ UNCHANGED <<srv, cache, changes, errors, tokens, waiting, told>>

-------------------------------------------------------------------------------
Step(i) ==
    \/ Begin(i) \/ CheckDelay(i) \/ Lock(i) \/ Get(i)
    \/ HandleOk(i) \/ FireTriggers(i) \/ SaveNothing(i) \/ SaveStatus(i) \/ SaveConflict(i)
    \/ \E retry \in BOOLEAN : Finish(i, retry)

Error(i) == GetError(i) \/ HandleError(i)

Cluster(k) == Delete(k) \/ Triggered(k) \/ \E s \in Specs : ChangeSpec(k, s)

Next ==
    \/ \E k \in Keys : Cluster(k) \/ Inform(k) \/ Refill(k) \/ BackoffEnds(k)
    \/ \E i \in Items : Step(i) \/ Error(i)

\* Calls, the informer and the clock make progress.
Fairness ==
    /\ \A k \in Keys : WF_vars(Inform(k)) /\ WF_vars(Refill(k)) /\ WF_vars(BackoffEnds(k))
    /\ \A i \in Items : WF_vars(Step(i))

Spec == Init /\ [][Next]_vars
FairSpec == Spec /\ Fairness

-------------------------------------------------------------------------------
(* Properties                                                              *)

\* The values of the objects, calls and limiters; a limiter is in debt for at
\* most the one token that a back-off goroutine has reserved.
TypeOK ==
    /\ srv \in [Keys -> Object \cup {Absent}]
    /\ cache \in [Keys -> Object \cup {Absent}]
    /\ changes \in 0..MaxChanges
    /\ errors \in 0..MaxErrors
    /\ queue \subseteq Items
    /\ call \in [Items -> [pc : {"idle", "delay", "lock", "get", "handle", "trigger", "save", "retry"},
                           arg : Object \cup {Absent}, obj : Object \cup {Absent},
                           new : Specs \cup {NoStatus}]]
    /\ locker \in [Keys -> SUBSET Items]
    /\ tokens \in [Keys -> -1..Burst]
    /\ waiting \subseteq Keys
    /\ told \in [Keys -> Object \cup {Absent}]

Critical(i) == call[i].pc \in {"get", "handle", "trigger", "save", "retry"}

\* The handlers of one object never run twice at the same time, although its
\* event, trigger and replay items are processed by different workers.
HandlerExclusive ==
    \A i, j \in Items : Critical(i) /\ Critical(j) /\ Key(i) = Key(j) => i = j

\* The item of a call that has yet to read the object, and will handle it
\* and tell the watchers.
Fresh(i) ==
    \/ i \in queue
    \/ call[i].pc \in {"lock", "get"}
    \/ call[i].pc = "delay"
    \/ call[i].pc \in {"handle", "trigger"} /\ call[i].obj = cache[Key(i)]

\* What the limiter drops is not lost: as long as the watchers of an object
\* have not been told of its cached state, an event or a replay of it is
\* pending or its back-off goroutine is asleep.
WatchersTold ==
    \A k \in Keys : told[k] # cache[k] => k \in waiting \/ Fresh(<<k, "event">>) \/ Fresh(<<k, "replay">>)

\* Level triggering: whatever is dropped, delayed, failed or overtaken by a
\* newer version, the status of every object ends up describing its spec.
StatusConverges ==
    \A k \in Keys : []<>(srv[k] = Absent \/ srv[k].status = srv[k].spec)
===============================================================================
