------------------------------- MODULE Triggers -------------------------------
(***************************************************************************)
(* The cross-object triggers of pkg/router/trigger.go and matcher.go.  A   *)
(* handler that reads other objects through its request registers, with    *)
(* every read, a matcher (client.go); when an object that matches changes, *)
(* the object of the handler is enqueued.  The module follows an object    *)
(* from its change over HandlerSet.onChange to the trigger goroutine and   *)
(* back into the queues of its watchers.                                   *)
(*                                                                         *)
(* An object is identified by its triggerKey, a record of group/version/   *)
(* kind, namespace and name.  Its content is a member of Vals, or Absent.  *)
(***************************************************************************)
EXTENDS Naturals, FiniteSets

CONSTANTS Objs,        \* triggerKeys: records [gvk, ns, name]
          Vals,        \* contents of objects, labels included
          Absent,      \* content of an object that does not exist; a nil object
          NoVal,       \* "no entry" in the map toTrigger
          Reads,       \* Reads[o]: the matchers of the reads of o's handler
          Val0,        \* the contents at the start
          Deletable,   \* bound: the objects that may be deleted
          MaxChanges   \* bound: changes of all objects together

\* The empty string: no namespace, or no name, in a matcher.
Any == ""

ASSUME TriggersAssumption ==
    /\ \A o \in Objs : o.name # Any
    /\ Absent \notin Vals
    /\ NoVal \notin Vals \cup {Absent}
    /\ Reads \in [Objs -> SUBSET [gvk : {o.gvk : o \in Objs}, ns : {o.ns : o \in Objs} \cup {Any},
                                  name : {o.name : o \in Objs} \cup {Any},
                                  sel : SUBSET (Vals \cup {Absent})]]
    /\ Val0 \in [Objs -> Vals \cup {Absent}]
    /\ Deletable \subseteq Objs
    /\ MaxChanges \in Nat

VARIABLES
    val,        \* content of every object in the cluster
    changes,    \* number of changes so far
    queued,     \* pending keys: pairs of an object and "event" or "trigger"
    hs,         \* hs[o]: the onChange call for o, serialised by m.locker
    matchers,   \* registrations: records of target object and matcher
    toTrigger,  \* m.toTrigger
    tg,         \* the trigger goroutine
    seen,       \* history: seen[o][mt], what the handler of o last read
    gone        \* history: the objects that have been deleted

vars == <<val, changes, queued, hs, matchers, toTrigger, tg, seen, gone>>

Gvks == {o.gvk : o \in Objs}
Alive(o) == val[o] # Absent

AllReads == UNION {Reads[o] : o \in Objs}
Registrations == [target : Objs, mt : AllReads]

\* An empty toTrigger: no key has an entry.
NoTriggers == [o \in Objs |-> NoVal]

-------------------------------------------------------------------------------
(* Matchers                                                                *)

\* A matcher with a name is exact.  One without accepts a namespace, or all
\* if it has none, and the contents its label and field selectors accept;
\* sel contains Absent, the nil object, only when there is no selector.
Match(mt, o, obj) ==
    IF mt.name # Any THEN mt.name = o.name /\ mt.ns = o.ns
    ELSE (mt.ns = Any \/ mt.ns = o.ns) /\ obj \in mt.sel

\* The matcher that UnregisterAndTrigger deletes for object o.
ExactMatcher(o) == [gvk |-> o.gvk, ns |-> o.ns, name |-> o.name, sel |-> Vals \cup {Absent}]

\* What a Get or List for mt returns (the API server, external).
Result(mt) == {<<o, val[o]>> : o \in {p \in Objs : Alive(p) /\ p.gvk = mt.gvk /\ Match(mt, p, val[p])}}

-------------------------------------------------------------------------------
IdleCall == [pc |-> "idle", from |-> "event", own |-> Absent, todo |-> {}, cur |-> {}, orphan |-> FALSE]
IdleTg == [pc |-> "off", batch |-> NoTriggers, gvks |-> {}, past |-> {}, cur |-> {}, must |-> {}, visited |-> {}]

Init ==
    /\ val = Val0
    /\ changes = 0
    /\ queued = {<<o, "event">> : o \in {p \in Objs : Val0[p] # Absent}}
    /\ hs = [o \in Objs |-> IdleCall]
    /\ matchers = {}
    /\ toTrigger = NoTriggers
    /\ tg = IdleTg
    /\ seen = [o \in Objs |-> [mt \in Reads[o] |-> {}]]
    /\ gone = {}

\* An object is created, updated or deleted; its controller gets an event.
Change(o, v) ==
    /\ changes < MaxChanges
    /\ v # val[o]
    /\ v = Absent => o \in Deletable
    /\ val' = [val EXCEPT ![o] = v]
    /\ changes' = changes + 1
    /\ queued' = queued \cup {<<o, "event">>}
    /\ gone' = IF v = Absent THEN gone \cup {o} ELSE gone
    /\ UNCHANGED <<hs, matchers, toTrigger, tg, seen>>

-------------------------------------------------------------------------------
(* onChange and handle                                                     *)

\* Take a key, lock the object and read it.  The handler of an object that
\* is gone is not called (IgnoreNilHandler).
OnChange(o, from) ==
    /\ <<o, from>> \in queued
    /\ hs[o].pc = "idle"
    /\ queued' = queued \ {<<o, from>>}
    /\ hs' = [hs EXCEPT ![o] = [pc |-> IF Alive(o) THEN "handle" ELSE "fire", from |-> from,
                                own |-> val[o], todo |-> Reads[o], cur |-> {}, orphan |-> FALSE]]
    /\ UNCHANGED <<val, changes, matchers, toTrigger, tg, seen, gone>>

\* The handler reads through its request, which registers first.  register
\* looks the map of the target up, or creates it, ...
RegisterLoad(o, mt) ==
    /\ hs[o].pc = "handle"
    /\ mt \in hs[o].todo
    /\ hs' = [hs EXCEPT ![o].pc = "store", ![o].todo = @ \ {mt}, ![o].cur = {mt}, ![o].orphan = FALSE]
    /\ UNCHANGED <<val, changes, queued, matchers, toTrigger, tg, seen, gone>>

\* Mutant: the matcher is made of the key of the target.
RegisterStoreOwn(o) ==
    /\ hs[o].pc = "store"
    /\ matchers' = matchers \cup {[target |-> o, mt |-> ExactMatcher(o)]}
    /\ hs' = [hs EXCEPT ![o].pc = "read"]
    /\ UNCHANGED <<val, changes, queued, toTrigger, tg, seen, gone>>

\* ... and stores the matcher in it, even if process has deleted it since.
RegisterStore(o) ==
    /\ hs[o].pc = "store"
    /\ matchers' = IF hs[o].orphan THEN matchers
                   ELSE matchers \cup {[target |-> o, mt |-> mt] : mt \in hs[o].cur}
    /\ hs' = [hs EXCEPT ![o].pc = "read"]
    /\ UNCHANGED <<val, changes, queued, toTrigger, tg, seen, gone>>

\* The read itself.
Read(o) ==
    /\ hs[o].pc = "read"
    /\ seen' = [seen EXCEPT ![o] = [mt \in Reads[o] |-> IF mt \in hs[o].cur THEN Result(mt) ELSE @[mt]]]
    /\ hs' = [hs EXCEPT ![o].pc = "handle", ![o].cur = {}]
    /\ UNCHANGED <<val, changes, queued, matchers, toTrigger, tg, gone>>

\* The handler returns nil.
HandlerOk(o) ==
    /\ hs[o].pc = "handle"
    /\ hs[o].todo = {}
    /\ hs' = [hs EXCEPT ![o].pc = "fire"]
    /\ UNCHANGED <<val, changes, queued, matchers, toTrigger, tg, seen, gone>>

\* A registration, a read or the handler fails: handle returns the error
\* before it triggers, and the controller requeues the key.
HandlerError(o) ==
    /\ hs[o].pc \in {"handle", "read"}
    /\ queued' = queued \cup {<<o, hs[o].from>>}
    /\ hs' = [hs EXCEPT ![o] = IdleCall]
    /\ UNCHANGED <<val, changes, matchers, toTrigger, tg, seen, gone>>

\* Mutant: Broadcast is left out.
KickNoBroadcast(t) == [t EXCEPT !.pc = IF @ = "off" THEN "check" ELSE @]

\* kick: start the trigger goroutine, or wake it up.
Kick(t) == [t EXCEPT !.pc = IF @ \in {"off", "waiting"} THEN "check" ELSE @]

\* The end of handle: UnregisterAndTrigger for an object that is gone,
\* Trigger for one that was not itself enqueued by a trigger.
Fire(o) ==
    /\ hs[o].pc = "fire"
    /\ IF hs[o].own = Absent \/ hs[o].from # "trigger"
       THEN /\ toTrigger' = [toTrigger EXCEPT ![o] = hs[o].own]
            /\ tg' = Kick(tg)
       ELSE UNCHANGED <<toTrigger, tg>>
    /\ hs' = [hs EXCEPT ![o] = IdleCall]
    /\ UNCHANGED <<val, changes, queued, matchers, seen, gone>>

-------------------------------------------------------------------------------
(* The trigger goroutine                                                   *)

\* Wait on the condition variable: nothing to do.
TgWait ==
    /\ tg.pc = "check"
    /\ toTrigger = NoTriggers
    /\ tg' = [tg EXCEPT !.pc = "waiting"]
    /\ UNCHANGED <<val, changes, queued, hs, matchers, toTrigger, seen, gone>>

\* Take the whole map and release the lock.
TgTake ==
    /\ tg.pc = "check"
    /\ toTrigger # NoTriggers
    /\ tg' = [tg EXCEPT !.pc = "next", !.batch = toTrigger, !.gvks = {r.mt.gvk : r \in matchers}]
    /\ toTrigger' = NoTriggers
    /\ UNCHANGED <<val, changes, queued, hs, matchers, seen, gone>>

\* process: the next kind of the outer Range, or the end of it.  A kind that
\* is first registered while process runs may be visited or missed.
TgNextGvk(g) ==
    /\ tg.pc = "next"
    /\ g \in {r.mt.gvk : r \in matchers} \ tg.past
    /\ tg' = [tg EXCEPT !.pc = "scan", !.past = @ \cup {g}, !.cur = {g},
                        !.must = {r \in matchers : r.mt.gvk = g}, !.visited = {}]
    /\ UNCHANGED <<val, changes, queued, hs, matchers, toTrigger, seen, gone>>

\* Mutant: what arrived while process ran is cleared, too.
TgEndClears ==
    /\ tg.pc = "next"
    /\ tg.gvks \cap {r.mt.gvk : r \in matchers} \subseteq tg.past
    /\ tg' = [IdleTg EXCEPT !.pc = "check"]
    /\ toTrigger' = NoTriggers
    /\ UNCHANGED <<val, changes, queued, hs, matchers, seen, gone>>

TgEnd ==
    /\ tg.pc = "next"
    /\ tg.gvks \cap {r.mt.gvk : r \in matchers} \subseteq tg.past
    /\ tg' = [IdleTg EXCEPT !.pc = "check"]
    /\ UNCHANGED <<val, changes, queued, hs, matchers, toTrigger, seen, gone>>

\* Matcher r of the current kind is matched by an object of the batch.
Matched(r) ==
    \E o \in Objs :
        /\ tg.batch[o] # NoVal
        /\ o.gvk = r.mt.gvk
        /\ Match(r.mt, o, tg.batch[o])

\* Range visits a registration; if it matches, its target is triggered.
\* sync.Map.Range visits what was there all along, and may visit the rest.
TgVisit(r) ==
    /\ tg.pc = "scan"
    /\ r \in matchers \ tg.visited
    /\ r.mt.gvk \in tg.cur
    /\ tg' = [tg EXCEPT !.visited = @ \cup {r}]
    /\ queued' = IF Matched(r) THEN queued \cup {<<r.target, "trigger">>} ELSE queued
    /\ UNCHANGED <<val, changes, hs, matchers, toTrigger, seen, gone>>

TgVisited ==
    /\ tg.pc = "scan"
    /\ tg.must \cap matchers \subseteq tg.visited
    /\ tg' = [tg EXCEPT !.pc = "targets"]
    /\ UNCHANGED <<val, changes, queued, hs, matchers, toTrigger, seen, gone>>

Removed == {o \in Objs : tg.batch[o] = Absent}

\* Mutant: the registrations of removed objects stay.
TgDeleteTargetsKeeps ==
    /\ tg.pc = "targets"
    /\ tg' = [tg EXCEPT !.pc = "exact"]
    /\ UNCHANGED <<val, changes, queued, hs, matchers, toTrigger, seen, gone>>

\* "Do deletes after the fact": first the removed objects as targets.  A
\* registration in progress keeps the map that is deleted here.
TgDeleteTargets ==
    /\ tg.pc = "targets"
    /\ matchers' = {r \in matchers : ~(r.mt.gvk \in tg.cur /\ r.target \in Removed)}
    /\ hs' = [o \in Objs |->
                IF o \in Removed /\ hs[o].pc = "store" /\ (\E mt \in hs[o].cur : mt.gvk \in tg.cur)
                THEN [hs[o] EXCEPT !.orphan = TRUE] ELSE hs[o]]
    /\ tg' = [tg EXCEPT !.pc = "exact"]
    /\ UNCHANGED <<val, changes, queued, toTrigger, seen, gone>>

\* Then every exact matcher for a removed object, whoever registered it.
TgDeleteExact ==
    /\ tg.pc = "exact"
    /\ matchers' = {r \in matchers : ~(r.mt.gvk \in tg.cur /\ r.mt \in {ExactMatcher(o) : o \in Removed})}
    /\ tg' = [tg EXCEPT !.pc = "next", !.cur = {}]
    /\ UNCHANGED <<val, changes, queued, hs, toTrigger, seen, gone>>

-------------------------------------------------------------------------------
Call(o) ==
    \/ \E from \in {"event", "trigger"} : OnChange(o, from)
    \/ \E mt \in Reads[o] : RegisterLoad(o, mt)
    \/ RegisterStore(o) \/ Read(o) \/ HandlerOk(o) \/ Fire(o)

Tg ==
    \/ TgWait \/ TgTake \/ TgEnd \/ TgVisited \/ TgDeleteTargets \/ TgDeleteExact
    \/ \E g \in Gvks : TgNextGvk(g)
    \/ \E r \in matchers : TgVisit(r)

Next ==
    \/ \E o \in Objs, v \in Vals \cup {Absent} : Change(o, v)
    \/ \E o \in Objs : Call(o) \/ HandlerError(o)
    \/ Tg

\* Calls and the trigger goroutine make progress, and no read and no handler
\* fails forever.  Nothing has to change an object.
Fairness ==
    /\ WF_vars(Tg)
    /\ \A o \in Objs : /\ WF_vars(Call(o))
                       /\ \A mt \in Reads[o] : SF_vars(RegisterLoad(o, mt))
                       /\ SF_vars(Read(o))
                       /\ SF_vars(HandlerOk(o))

Spec == Init /\ [][Next]_vars
FairSpec == Spec /\ Fairness

-------------------------------------------------------------------------------
(* Properties                                                              *)

Contents == Vals \cup {Absent}
Entries == [Objs -> Contents \cup {NoVal}]

Calls == [pc : {"idle", "handle", "store", "read", "fire"}, from : {"event", "trigger"},
          own : Contents, todo : SUBSET AllReads, cur : SUBSET AllReads, orphan : BOOLEAN]

Goroutines == [pc : {"off", "waiting", "check", "next", "scan", "targets", "exact"},
               batch : Entries, gvks : SUBSET Gvks, past : SUBSET Gvks, cur : SUBSET Gvks,
               must : SUBSET Registrations, visited : SUBSET Registrations]

\* The values of the maps and of the goroutines; a registration is always for
\* a read of its target's handler.
TypeOK ==
    /\ val \in [Objs -> Contents]
    /\ changes \in 0..MaxChanges
    /\ queued \subseteq Objs \X {"event", "trigger"}
    /\ hs \in [Objs -> Calls]
    /\ \A o \in Objs : hs[o].todo \cup hs[o].cur \subseteq Reads[o]
    /\ matchers \subseteq Registrations
    /\ \A r \in matchers : r.mt \in Reads[r.target]
    /\ toTrigger \in Entries
    /\ tg \in Goroutines
    /\ DOMAIN seen = Objs /\ \A o \in Objs : DOMAIN seen[o] = Reads[o]
    /\ gone \subseteq Objs

\* A change of p is on its way to the trigger goroutine or in its hands.
ChangeInFlight(p) ==
    \/ <<p, "event">> \in queued
    \/ hs[p].pc # "idle" /\ (hs[p].from = "event" \/ hs[p].own = Absent)
    \/ toTrigger[p] # NoVal
    \/ tg.batch[p] # NoVal /\ (p.gvk \in tg.past => tg.pc = "scan" /\ p.gvk \in tg.cur)

\* The handler of o will run, and read, again.
WillRead(o, mt) ==
    \/ <<o, "event">> \in queued \/ <<o, "trigger">> \in queued
    \/ hs[o].pc # "idle" /\ mt \in hs[o].todo
    \/ hs[o].pc \in {"store", "read"} /\ mt \in hs[o].cur

\* The reads the triggers keep fresh: lists without a selector, in the handler
\* of an object that has not been deleted.  A matcher by name or with a selector,
\* and the registrations of a target that is deleted and created again, may
\* be dropped or pass over a change (see the README).
Followed(o) == IF o \in gone THEN {} ELSE {mt \in Reads[o] : mt.name = Any /\ mt.sel = Vals \cup {Absent}}

\* Level triggering across objects: whenever what the handler of an object
\* read is no longer what a read would return, the handler is going to run
\* again or a change that will trigger it is still being processed.
NoMissedChange ==
    \A o \in Objs : Alive(o) =>
        \A mt \in Followed(o) :
            seen[o][mt] # Result(mt) => WillRead(o, mt) \/ \E p \in Objs : p.gvk = mt.gvk /\ ChangeInFlight(p)

Quiet == queued = {} /\ tg.pc \in {"off", "waiting"} /\ \A o \in Objs : hs[o].pc = "idle"

\* Once everything has come to rest, no object that is gone is left behind
\* as the target of a registration.
NoGhostTargets ==
    Quiet => \A r \in matchers : Alive(r.target)

\* Every handler eventually reads the state its objects come to rest in.
EventuallyFresh ==
    \A o \in Objs : []<>(Alive(o) => \A mt \in Followed(o) : seen[o][mt] = Result(mt))
===============================================================================
