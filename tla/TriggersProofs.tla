---------------------------- MODULE TriggersProofs ----------------------------
(***************************************************************************)
(* Proofs about Triggers: no interleaving of registration, read, trigger   *)
(* and process loses a change (NoMissedChange) or leaves a registration of *)
(* a removed object behind (NoGhostTargets), for every set of objects and  *)
(* reads and any number of changes.                                        *)
(***************************************************************************)
EXTENDS Triggers, TLAPS

(***************************************************************************)
(* The inductive invariant.                                                *)
(***************************************************************************)
\* An object that has never been deleted is nowhere recorded as removed, so
\* process deletes none of its registrations; before it is created it has
\* neither a key in a queue nor a call nor a registration.
PresentAt(o) ==
    /\ hs[o].pc # "idle" => hs[o].own # Absent
    /\ ~hs[o].orphan
    /\ toTrigger[o] # Absent
    /\ tg.batch[o] # Absent
    /\ ~Alive(o) => /\ hs[o].pc = "idle"
                    /\ <<o, "event">> \notin queued /\ <<o, "trigger">> \notin queued
                    /\ \A r \in matchers : r.target # o

PresentOk == \A o \in Objs \ gone : PresentAt(o)

\* A handler only runs for an object that was there, has read everything when
\* it triggers, and has an event waiting if the object is deleted meanwhile.
CallAt(o) ==
    /\ hs[o].pc \in {"handle", "store", "read"} => hs[o].own # Absent
    /\ hs[o].pc = "fire" /\ hs[o].own # Absent => hs[o].todo = {}
    /\ hs[o].pc # "idle" /\ hs[o].own # Absent /\ ~Alive(o) => <<o, "event">> \in queued

CallOk == \A o \in Objs : CallAt(o)

\* The trigger goroutine rests only when nothing is left to trigger, and has
\* no batch between two batches.
GoroutineOk ==
    /\ tg.pc \in {"off", "waiting"} => toTrigger = NoTriggers
    /\ tg.pc \in {"off", "waiting", "check"} => tg.batch = NoTriggers /\ tg.past = {}

\* The handler of o has not got past the registration of mt, or starts over.
Unregistered(o, mt) ==
    \/ <<o, "event">> \in queued \/ <<o, "trigger">> \in queued
    \/ hs[o].pc # "idle" /\ mt \in hs[o].todo
    \/ hs[o].pc = "store" /\ mt \in hs[o].cur

\* A handler that is past the registration of a followed read is registered.
RegisteredOk ==
    \A o \in Objs : Alive(o) => \A mt \in Followed(o) :
        [target |-> o, mt |-> mt] \in matchers \/ Unregistered(o, mt)

\* The kind and the namespace of p are those of mt.
InScope(mt, p) == p.gvk = mt.gvk /\ (mt.ns = Any \/ mt.ns = p.ns)

\* A change of p will still make the goroutine trigger registration r.  This
\* is stronger than ChangeInFlight: process has yet to come to a kind that it
\* knew when it took the batch, or to a registration that was there when it
\* came to the kind.  A registration that it may miss is so young that its
\* read comes after the change.
Coming(p, r) ==
    \/ <<p, "event">> \in queued
    \/ hs[p].pc # "idle" /\ (hs[p].from = "event" \/ hs[p].own = Absent)
    \/ toTrigger[p] # NoVal
    \/ /\ tg.batch[p] # NoVal
       /\ \/ r.mt.gvk \in tg.gvks \ tg.past
          \/ tg.pc = "scan" /\ r.mt.gvk \in tg.cur /\ r \in tg.must \ tg.visited

\* NoMissedChange with Coming instead of ChangeInFlight.
FreshOk ==
    \A o \in Objs : Alive(o) => \A mt \in Followed(o) :
        seen[o][mt] # Result(mt) =>
            WillRead(o, mt) \/ \E p \in Objs : InScope(mt, p) /\ Coming(p, [target |-> o, mt |-> mt])

\* The removal of o is still on its way to the registrations for kind g.
Unlisting(o, g) ==
    \/ <<o, "event">> \in queued
    \/ hs[o].pc # "idle" /\ hs[o].own = Absent
    \/ toTrigger[o] = Absent
    \/ /\ tg.batch[o] = Absent
       /\ g \in tg.gvks \ tg.past \/ (tg.pc \in {"scan", "targets"} /\ g \in tg.cur)

\* A registration of an object that is gone is going to be deleted.
GhostOk ==
    \A r \in matchers : Alive(r.target) \/ Unlisting(r.target, r.mt.gvk)

Inv == TypeOK /\ PresentOk /\ CallOk /\ GoroutineOk /\ RegisteredOk /\ FreshOk /\ GhostOk

-------------------------------------------------------------------------------
(* Types                                                                   *)

\* The reads of a handler are among all reads.
LEMMA ReadsInAll ==
    ASSUME NEW o \in Objs
    PROVE  Reads[o] \subseteq AllReads
  BY DEF AllReads

\* A read is of the kind of some object.
LEMMA ReadsHaveKinds ==
    ASSUME NEW o \in Objs, NEW mt \in Reads[o]
    PROVE  mt.gvk \in Gvks
  BY TriggersAssumption DEF Gvks

\* A registration is of the kind of some object.
LEMMA KindsOfMatchers ==
    ASSUME TypeOK
    PROVE  {r.mt.gvk : r \in matchers} \subseteq Gvks
<1> SUFFICES ASSUME NEW r \in matchers PROVE r.mt.gvk \in Gvks
  OBVIOUS
<1> r.target \in Objs /\ r.mt \in Reads[r.target]
  BY DEF TypeOK, Registrations
<1> QED
  BY ReadsHaveKinds

\* Every step keeps the types.
LEMMA TypeStep ==
    ASSUME TypeOK, [Next]_vars
    PROVE  TypeOK'
<1>1. ASSUME NEW o \in Objs, NEW v \in Vals \cup {Absent}, Change(o, v)
      PROVE  TypeOK'
  BY <1>1, TriggersAssumption DEF Change, TypeOK, Contents
<1>2. ASSUME NEW o \in Objs, NEW from \in {"event", "trigger"}, OnChange(o, from)
      PROVE  TypeOK'
  <2>1. hs' \in [Objs -> Calls]
    BY <1>2, ReadsInAll DEF OnChange, TypeOK, Calls, Contents
  <2>2. \A p \in Objs : hs'[p].todo \cup hs'[p].cur \subseteq Reads[p]
    BY <1>2, ReadsInAll DEF OnChange, TypeOK, Calls
  <2> QED
    BY <1>2, <2>1, <2>2, ReadsInAll DEF OnChange, TypeOK, Calls
<1>3. ASSUME NEW o \in Objs, NEW m \in Reads[o], RegisterLoad(o, m)
      PROVE  TypeOK'
  <2>1. hs' \in [Objs -> Calls]
    BY <1>3, ReadsInAll DEF RegisterLoad, TypeOK, Calls, Contents
  <2>2. \A p \in Objs : hs'[p].todo \cup hs'[p].cur \subseteq Reads[p]
    BY <1>3, ReadsInAll DEF RegisterLoad, TypeOK, Calls
  <2> QED
    BY <1>3, <2>1, <2>2, ReadsInAll DEF RegisterLoad, TypeOK, Calls
<1>4. ASSUME NEW o \in Objs, RegisterStore(o)
      PROVE  TypeOK'
  <2>1. hs' \in [Objs -> Calls] /\ \A p \in Objs : hs'[p].todo \cup hs'[p].cur \subseteq Reads[p]
    BY <1>4 DEF RegisterStore, TypeOK, Calls
  <2>2. hs[o].cur \subseteq Reads[o] /\ Reads[o] \subseteq AllReads
    BY ReadsInAll DEF TypeOK, Calls
  <2>3. matchers' \subseteq Registrations /\ \A r \in matchers' : r.mt \in Reads[r.target]
    BY <1>4, <2>2 DEF RegisterStore, TypeOK, Registrations
  <2> QED
    BY <1>4, <2>1, <2>3 DEF RegisterStore, TypeOK
<1>5. ASSUME NEW o \in Objs, Read(o)
      PROVE  TypeOK'
  <2>1. hs' = [hs EXCEPT ![o].pc = "handle", ![o].cur = {}]
    BY <1>5 DEF Read
  <2>2. hs' \in [Objs -> Calls]
    <3>1. hs[o] \in Calls
      BY DEF TypeOK
    <3>2. [hs[o] EXCEPT !.pc = "handle", !.cur = {}] \in Calls
      BY <3>1 DEF Calls
    <3>3. hs' = [hs EXCEPT ![o] = [hs[o] EXCEPT !.pc = "handle", !.cur = {}]]
      BY <2>1 DEF TypeOK
    <3> QED
      BY <3>2, <3>3 DEF TypeOK
  <2>3. \A p \in Objs : hs'[p].todo \cup hs'[p].cur \subseteq Reads[p]
    BY <2>1 DEF TypeOK, Calls
  <2>4. DOMAIN seen' = Objs /\ \A p \in Objs : DOMAIN seen'[p] = Reads[p]
    BY <1>5 DEF Read, TypeOK
  <2> QED
    BY <1>5, <2>2, <2>3, <2>4 DEF Read, TypeOK
<1>6. ASSUME NEW o \in Objs, HandlerOk(o)
      PROVE  TypeOK'
  <2>1. hs' \in [Objs -> Calls]
    BY <1>6 DEF HandlerOk, TypeOK, Calls, Contents
  <2>2. \A p \in Objs : hs'[p].todo \cup hs'[p].cur \subseteq Reads[p]
    BY <1>6 DEF HandlerOk, TypeOK, Calls
  <2> QED
    BY <1>6, <2>1, <2>2 DEF HandlerOk, TypeOK, Calls
<1>7. ASSUME NEW o \in Objs, HandlerError(o)
      PROVE  TypeOK'
  <2>1. hs' \in [Objs -> Calls]
    BY <1>7 DEF HandlerError, IdleCall, TypeOK, Calls, Contents
  <2>2. \A p \in Objs : hs'[p].todo \cup hs'[p].cur \subseteq Reads[p]
    BY <1>7 DEF HandlerError, IdleCall, TypeOK, Calls
  <2> QED
    BY <1>7, <2>1, <2>2 DEF HandlerError, IdleCall, TypeOK, Calls
<1>8. ASSUME NEW o \in Objs, Fire(o)
      PROVE  TypeOK'
  <2>1. hs' \in [Objs -> Calls] /\ \A p \in Objs : hs'[p].todo \cup hs'[p].cur \subseteq Reads[p]
    BY <1>8 DEF Fire, IdleCall, TypeOK, Calls, Contents
  <2>2. hs[o].own \in Contents
    BY DEF TypeOK, Calls
  <2>3. toTrigger' \in Entries
    BY <1>8, <2>2 DEF Fire, TypeOK, Entries
  <2>4. tg' \in Goroutines
    BY <1>8 DEF Fire, Kick, TypeOK, Goroutines
  <2> QED
    BY <1>8, <2>1, <2>3, <2>4 DEF Fire, TypeOK
<1>9. CASE TgWait
  <2>1. tg' \in Goroutines
    BY <1>9 DEF TgWait, TypeOK, Goroutines
  <2> QED
    BY <1>9, <2>1 DEF TgWait, TypeOK
<1>10. CASE TgTake
  <2>1. tg' \in Goroutines
    BY <1>10, KindsOfMatchers DEF TgTake, TypeOK, Goroutines
  <2>2. toTrigger' \in Entries
    BY <1>10 DEF TgTake, NoTriggers, Entries
  <2> QED
    BY <1>10, <2>1, <2>2 DEF TgTake, TypeOK
<1>11. ASSUME NEW g \in Gvks, TgNextGvk(g)
      PROVE  TypeOK'
  <2>1. tg' \in Goroutines
    BY <1>11 DEF TgNextGvk, TypeOK, Goroutines
  <2> QED
    BY <1>11, <2>1 DEF TgNextGvk, TypeOK
<1>12. CASE TgEnd
  <2>1. IdleTg \in Goroutines
    BY DEF IdleTg, Goroutines, NoTriggers, Entries
  <2>2. tg' \in Goroutines
    BY <1>12, <2>1 DEF TgEnd, Goroutines
  <2> QED
    BY <1>12, <2>2 DEF TgEnd, TypeOK
<1>13. ASSUME NEW r \in matchers, TgVisit(r)
      PROVE  TypeOK'
  <2>1. tg' \in Goroutines
    BY <1>13 DEF TgVisit, TypeOK, Goroutines
  <2>2. r.target \in Objs
    BY DEF TypeOK, Registrations
  <2>3. queued' \subseteq Objs \X {"event", "trigger"}
    BY <1>13, <2>2 DEF TgVisit, TypeOK
  <2> QED
    BY <1>13, <2>1, <2>3 DEF TgVisit, TypeOK
<1>14. CASE TgVisited
  <2>1. tg' \in Goroutines
    BY <1>14 DEF TgVisited, TypeOK, Goroutines
  <2> QED
    BY <1>14, <2>1 DEF TgVisited, TypeOK
<1>15. CASE TgDeleteTargets
  <2>1. ASSUME NEW p \in Objs
        PROVE  hs'[p] \in Calls /\ hs'[p].todo = hs[p].todo /\ hs'[p].cur = hs[p].cur
    <3>1. hs[p] \in Calls
      BY DEF TypeOK
    <3>2. hs'[p] = hs[p] \/ hs'[p] = [hs[p] EXCEPT !.orphan = TRUE]
      BY <1>15 DEF TgDeleteTargets
    <3> QED
      BY <3>1, <3>2 DEF Calls
  <2>2. hs' \in [Objs -> Calls]
    BY <1>15, <2>1 DEF TgDeleteTargets
  <2>3. tg' \in Goroutines
    BY <1>15 DEF TgDeleteTargets, TypeOK, Goroutines
  <2> QED
    BY <1>15, <2>1, <2>2, <2>3 DEF TgDeleteTargets, TypeOK
<1>16. CASE TgDeleteExact
  <2>1. tg' \in Goroutines
    BY <1>16 DEF TgDeleteExact, TypeOK, Goroutines
  <2> QED
    BY <1>16, <2>1 DEF TgDeleteExact, TypeOK
<1>17. CASE UNCHANGED vars
  BY <1>17, TriggersAssumption DEF vars, TypeOK, Contents
<1> QED
  BY <1>1, <1>2, <1>3, <1>4, <1>5, <1>6, <1>7, <1>8, <1>9, <1>10, <1>11, <1>12, <1>13, <1>14, <1>15,
     <1>16, <1>17 DEF Next, Call, Tg

-------------------------------------------------------------------------------
(* What the steps read and change, field by field: the actions without     *)
(* EXCEPT.  The proofs below cite these instead of the actions.            *)

\* The calls for other objects do not change.
Others(o) == \A p \in Objs \ {o} : hs'[p] = hs[p]
\* The call goes on for the same key.
SameCall(o) == hs'[o].from = hs[o].from /\ hs'[o].own = hs[o].own

\* onChange takes a key and reads the object.
LEMMA OnChangeEffect ==
    ASSUME TypeOK, NEW o \in Objs, NEW from \in {"event", "trigger"}, OnChange(o, from)
    PROVE  /\ <<o, from>> \in queued /\ hs[o].pc = "idle"
           /\ queued' = queued \ {<<o, from>>}
           /\ hs'[o].pc = IF val[o] # Absent THEN "handle" ELSE "fire"
           /\ hs'[o].from = from /\ hs'[o].own = val[o] /\ hs'[o].todo = Reads[o]
           /\ hs'[o].cur = {} /\ hs'[o].orphan = FALSE /\ Others(o)
           /\ UNCHANGED <<val, changes, matchers, toTrigger, tg, seen, gone>>
  BY DEF OnChange, TypeOK, Calls, Goroutines, Others, SameCall, Alive

\* register looks the map of the target up.
LEMMA RegisterLoadEffect ==
    ASSUME TypeOK, NEW o \in Objs, NEW m \in Reads[o], RegisterLoad(o, m)
    PROVE  /\ hs[o].pc = "handle" /\ m \in hs[o].todo
           /\ hs'[o].pc = "store" /\ SameCall(o)
           /\ hs'[o].todo = hs[o].todo \ {m} /\ hs'[o].cur = {m}
           /\ hs'[o].orphan = FALSE /\ Others(o)
           /\ UNCHANGED <<val, changes, queued, matchers, toTrigger, tg, seen, gone>>
  BY DEF RegisterLoad, TypeOK, Calls, Goroutines, Others, SameCall

\* register stores the matcher.
LEMMA RegisterStoreEffect ==
    ASSUME TypeOK, NEW o \in Objs, RegisterStore(o)
    PROVE  /\ hs[o].pc = "store"
           /\ matchers' = IF hs[o].orphan THEN matchers
                         ELSE matchers \cup {[target |-> o, mt |-> mt] : mt \in hs[o].cur}
           /\ hs'[o].pc = "read" /\ SameCall(o)
           /\ hs'[o].todo = hs[o].todo /\ hs'[o].cur = hs[o].cur
           /\ hs'[o].orphan = hs[o].orphan /\ Others(o)
           /\ UNCHANGED <<val, changes, queued, toTrigger, tg, seen, gone>>
  BY DEF RegisterStore, TypeOK, Calls, Goroutines, Others, SameCall

\* The read of the handler.
LEMMA ReadEffect ==
    ASSUME TypeOK, NEW o \in Objs, Read(o)
    PROVE  /\ hs[o].pc = "read"
           /\ hs'[o].pc = "handle" /\ SameCall(o)
           /\ hs'[o].todo = hs[o].todo /\ hs'[o].cur = {}
           /\ hs'[o].orphan = hs[o].orphan /\ Others(o)
           /\ UNCHANGED <<val, changes, queued, matchers, toTrigger, tg, gone>>
  BY DEF Read, TypeOK, Calls, Goroutines, Others, SameCall

\* The handler returns nil.
LEMMA HandlerOkEffect ==
    ASSUME TypeOK, NEW o \in Objs, HandlerOk(o)
    PROVE  /\ hs[o].pc = "handle" /\ hs[o].todo = {}
           /\ hs'[o].pc = "fire" /\ SameCall(o)
           /\ hs'[o].todo = {} /\ hs'[o].cur = hs[o].cur
           /\ hs'[o].orphan = hs[o].orphan /\ Others(o)
           /\ UNCHANGED <<val, changes, queued, matchers, toTrigger, tg, seen, gone>>
  BY DEF HandlerOk, TypeOK, Calls, Goroutines, Others, SameCall

\* The handler fails and its key is queued again.
LEMMA HandlerErrorEffect ==
    ASSUME TypeOK, NEW o \in Objs, HandlerError(o)
    PROVE  /\ hs[o].pc \in {"handle", "read"}
           /\ queued' = queued \cup {<<o, hs[o].from>>} /\ hs[o].from \in {"event", "trigger"}
           /\ hs'[o].pc = "idle" /\ hs'[o].orphan = FALSE /\ Others(o)
           /\ UNCHANGED <<val, changes, matchers, toTrigger, tg, seen, gone>>
  BY DEF HandlerError, TypeOK, Calls, Goroutines, Others, SameCall, IdleCall

\* handle triggers, or not, and ends the call.
LEMMA FireEffect ==
    ASSUME TypeOK, NEW o \in Objs, Fire(o)
    PROVE  /\ hs[o].pc = "fire"
           /\ hs'[o].pc = "idle" /\ hs'[o].orphan = FALSE /\ Others(o)
           /\ \/ /\ hs[o].own = Absent \/ hs[o].from = "event"
                 /\ toTrigger' = [toTrigger EXCEPT ![o] = hs[o].own]
                 /\ tg'.pc = IF tg.pc \in {"off", "waiting"} THEN "check" ELSE tg.pc
              \/ hs[o].own # Absent /\ hs[o].from = "trigger" /\ UNCHANGED <<toTrigger, tg>>
           /\ tg'.batch = tg.batch /\ tg'.gvks = tg.gvks /\ tg'.past = tg.past /\ tg'.cur = tg.cur
           /\ tg'.must = tg.must /\ tg'.visited = tg.visited
           /\ UNCHANGED <<val, changes, queued, matchers, seen, gone>>
<1>1. hs[o] \in Calls /\ tg \in Goroutines
  BY DEF TypeOK
<1>2. hs'[o].pc = "idle" /\ hs'[o].orphan = FALSE /\ Others(o)
  BY DEF Fire, TypeOK, IdleCall, Others
<1>3. CASE hs[o].own = Absent \/ hs[o].from # "trigger"
  <2>1. toTrigger' = [toTrigger EXCEPT ![o] = hs[o].own] /\ tg' = Kick(tg)
    BY <1>3 DEF Fire
  <2>2. hs[o].own = Absent \/ hs[o].from = "event"
    BY <1>1, <1>3 DEF Calls
  <2>3. /\ tg'.pc = IF tg.pc \in {"off", "waiting"} THEN "check" ELSE tg.pc
        /\ tg'.batch = tg.batch /\ tg'.gvks = tg.gvks /\ tg'.past = tg.past /\ tg'.cur = tg.cur
        /\ tg'.must = tg.must /\ tg'.visited = tg.visited
    BY <1>1, <2>1 DEF Kick, Goroutines
  <2>4. hs[o].pc = "fire" /\ UNCHANGED <<val, changes, queued, matchers, seen, gone>>
    BY DEF Fire
  <2> QED
    BY <1>2, <2>1, <2>2, <2>3, <2>4
<1>4. CASE ~(hs[o].own = Absent \/ hs[o].from # "trigger")
  BY <1>2, <1>4 DEF Fire
<1> QED
  BY <1>3, <1>4

\* The goroutine waits.
LEMMA TgWaitEffect ==
    ASSUME TypeOK, TgWait
    PROVE  /\ tg.pc = "check" /\ toTrigger = NoTriggers
           /\ tg'.pc = "waiting"
           /\ tg'.batch = tg.batch /\ tg'.gvks = tg.gvks /\ tg'.past = tg.past /\ tg'.cur = tg.cur
           /\ tg'.must = tg.must /\ tg'.visited = tg.visited
           /\ UNCHANGED <<val, changes, queued, hs, matchers, toTrigger, seen, gone>>
  BY DEF TgWait, TypeOK, Calls, Goroutines, Others, SameCall

\* The goroutine takes the map.
LEMMA TgTakeEffect ==
    ASSUME TypeOK, TgTake
    PROVE  /\ tg.pc = "check"
           /\ tg'.pc = "next" /\ tg'.batch = toTrigger /\ tg'.past = tg.past /\ tg'.cur = tg.cur
           /\ tg'.gvks = {r.mt.gvk : r \in matchers}
           /\ tg'.must = tg.must /\ tg'.visited = tg.visited
           /\ toTrigger' = NoTriggers
           /\ UNCHANGED <<val, changes, queued, hs, matchers, seen, gone>>
  BY DEF TgTake, TypeOK, Calls, Goroutines, Others, SameCall

\* process comes to a kind.
LEMMA TgNextGvkEffect ==
    ASSUME TypeOK, NEW g \in Gvks, TgNextGvk(g)
    PROVE  /\ tg.pc = "next"
           /\ tg'.pc = "scan" /\ tg'.batch = tg.batch /\ tg'.gvks = tg.gvks
           /\ tg'.past = tg.past \cup {g} /\ tg'.cur = {g}
           /\ tg'.must = {r \in matchers : r.mt.gvk = g} /\ tg'.visited = {}
           /\ UNCHANGED <<val, changes, queued, hs, matchers, toTrigger, seen, gone>>
  BY DEF TgNextGvk, TypeOK, Calls, Goroutines, Others, SameCall

\* process has been through all kinds.
LEMMA TgEndEffect ==
    ASSUME TypeOK, TgEnd
    PROVE  /\ tg.pc = "next" /\ tg.gvks \cap {r.mt.gvk : r \in matchers} \subseteq tg.past
           /\ tg'.pc = "check" /\ tg'.batch = NoTriggers /\ tg'.gvks = {} /\ tg'.past = {}
           /\ UNCHANGED <<val, changes, queued, hs, matchers, toTrigger, seen, gone>>
  BY DEF TgEnd, TypeOK, Calls, Goroutines, Others, SameCall, IdleTg

\* process visits a registration.
LEMMA TgVisitEffect ==
    ASSUME TypeOK, NEW r \in matchers, TgVisit(r)
    PROVE  /\ tg.pc = "scan" /\ r.mt.gvk \in tg.cur
           /\ queued' = IF Matched(r) THEN queued \cup {<<r.target, "trigger">>} ELSE queued
           /\ tg'.pc = tg.pc /\ tg'.must = tg.must /\ tg'.visited = tg.visited \cup {r}
           /\ tg'.batch = tg.batch /\ tg'.gvks = tg.gvks /\ tg'.past = tg.past /\ tg'.cur = tg.cur
           /\ UNCHANGED <<val, changes, hs, matchers, toTrigger, seen, gone>>
  BY DEF TgVisit, TypeOK, Calls, Goroutines, Others, SameCall

\* process has visited the registrations of a kind.
LEMMA TgVisitedEffect ==
    ASSUME TypeOK, TgVisited
    PROVE  /\ tg.pc = "scan" /\ tg.must \cap matchers \subseteq tg.visited
           /\ tg'.pc = "targets"
           /\ tg'.batch = tg.batch /\ tg'.gvks = tg.gvks /\ tg'.past = tg.past /\ tg'.cur = tg.cur
           /\ tg'.must = tg.must /\ tg'.visited = tg.visited
           /\ UNCHANGED <<val, changes, queued, hs, matchers, toTrigger, seen, gone>>
  BY DEF TgVisited, TypeOK, Calls, Goroutines, Others, SameCall

\* process deletes the exact matchers.
LEMMA TgDeleteExactEffect ==
    ASSUME TypeOK, TgDeleteExact
    PROVE  /\ tg.pc = "exact"
           /\ tg'.pc = "next" /\ tg'.batch = tg.batch /\ tg'.gvks = tg.gvks /\ tg'.past = tg.past
           /\ matchers' = {r \in matchers : ~(r.mt.gvk \in tg.cur /\ r.mt \in {ExactMatcher(o) : o \in Removed})}
           /\ UNCHANGED <<val, changes, queued, hs, toTrigger, seen, gone>>
  BY DEF TgDeleteExact, TypeOK, Calls, Goroutines, Others, SameCall

\* process deletes the removed targets.
LEMMA TgDeleteTargetsEffect ==
    ASSUME TypeOK, TgDeleteTargets
    PROVE  /\ tg.pc = "targets" /\ tg'.pc = "exact"
           /\ matchers' = {r \in matchers : ~(r.mt.gvk \in tg.cur /\ tg.batch[r.target] = Absent)}
           /\ \A p \in Objs : /\ hs'[p].pc = hs[p].pc /\ hs'[p].from = hs[p].from /\ hs'[p].own = hs[p].own
                              /\ hs'[p].todo = hs[p].todo /\ hs'[p].cur = hs[p].cur
                              /\ tg.batch[p] # Absent => hs'[p].orphan = hs[p].orphan
           /\ tg'.batch = tg.batch /\ tg'.gvks = tg.gvks /\ tg'.past = tg.past /\ tg'.cur = tg.cur
           /\ tg'.must = tg.must /\ tg'.visited = tg.visited
           /\ UNCHANGED <<val, changes, queued, toTrigger, seen, gone>>
<1>1. ASSUME NEW p \in Objs
      PROVE  /\ hs'[p].pc = hs[p].pc /\ hs'[p].from = hs[p].from /\ hs'[p].own = hs[p].own
             /\ hs'[p].todo = hs[p].todo /\ hs'[p].cur = hs[p].cur
             /\ tg.batch[p] # Absent => hs'[p].orphan = hs[p].orphan
  <2>1. hs[p] \in Calls
    BY DEF TypeOK
  <2>2. hs'[p] = IF p \in Removed /\ hs[p].pc = "store" /\ (\E mt \in hs[p].cur : mt.gvk \in tg.cur)
                 THEN [hs[p] EXCEPT !.orphan = TRUE] ELSE hs[p]
    BY DEF TgDeleteTargets
  <2> QED
    BY <2>1, <2>2 DEF Calls, Removed
<1>2. \A r \in matchers : r.target \in Objs
  BY DEF TypeOK, Registrations
<1>3. matchers' = {r \in matchers : ~(r.mt.gvk \in tg.cur /\ tg.batch[r.target] = Absent)}
  BY <1>2 DEF TgDeleteTargets, Removed
<1> QED
  BY <1>1, <1>3 DEF TgDeleteTargets, TypeOK, Goroutines

-------------------------------------------------------------------------------
(* Every part of the invariant is kept by every step.                      *)

\* Removal is recorded only for what was deleted.
LEMMA PresentStep ==
    ASSUME TypeOK, PresentOk, CallOk, [Next]_vars
    PROVE  PresentOk'
<1> SUFFICES ASSUME NEW q \in Objs, q \notin gone' PROVE PresentAt(q)'
  BY DEF PresentOk
<1>0. /\ q \notin gone => PresentAt(q)
      /\ CallAt(q)
  BY DEF PresentOk, CallOk
<1>1. ASSUME NEW o \in Objs, NEW v \in Vals \cup {Absent}, Change(o, v)
      PROVE  PresentAt(q)'
  BY <1>0, <1>1 DEF Change, PresentAt, Alive, Others, SameCall, TypeOK
<1>2. ASSUME NEW o \in Objs, NEW from \in {"event", "trigger"}, OnChange(o, from)
      PROVE  PresentAt(q)'
  BY <1>0, <1>2, OnChangeEffect DEF PresentAt, Alive, Others, SameCall
<1>3. ASSUME NEW o \in Objs, NEW m \in Reads[o], RegisterLoad(o, m)
      PROVE  PresentAt(q)'
  BY <1>0, <1>3, RegisterLoadEffect DEF PresentAt, Alive, Others, SameCall
<1>4. ASSUME NEW o \in Objs, RegisterStore(o)
      PROVE  PresentAt(q)'
  BY <1>0, <1>4, RegisterStoreEffect DEF PresentAt, Alive, Others, SameCall
<1>5. ASSUME NEW o \in Objs, Read(o)
      PROVE  PresentAt(q)'
  BY <1>0, <1>5, ReadEffect DEF PresentAt, Alive, Others, SameCall
<1>6. ASSUME NEW o \in Objs, HandlerOk(o)
      PROVE  PresentAt(q)'
  BY <1>0, <1>6, HandlerOkEffect DEF PresentAt, Alive, Others, SameCall
<1>7. ASSUME NEW o \in Objs, HandlerError(o)
      PROVE  PresentAt(q)'
  <2>1. CASE q = o
    BY <1>0, <1>7, <2>1, HandlerErrorEffect DEF PresentAt, Alive
  <2>2. CASE q # o
    <3>1. \A x \in {"event", "trigger"} : <<q, x>> \in queued' => <<q, x>> \in queued
      BY <1>0, <1>7, <2>2, HandlerErrorEffect
    <3> QED
      BY <1>0, <1>7, <2>2, <3>1, HandlerErrorEffect DEF PresentAt, Alive, Others
  <2> QED
    BY <2>1, <2>2
<1>8. ASSUME NEW o \in Objs, Fire(o)
      PROVE  PresentAt(q)'
  <2>1. CASE q = o
    <3>1. DOMAIN toTrigger = Objs
      BY DEF TypeOK, Entries
    <3> QED
      BY <1>0, <1>8, <2>1, <3>1, FireEffect DEF PresentAt, Alive
  <2>2. CASE q # o
    BY <1>0, <1>8, <2>2, FireEffect DEF PresentAt, Alive, Others, TypeOK, Entries
  <2> QED
    BY <2>1, <2>2
<1>9. CASE TgWait
  BY <1>0, <1>9, TgWaitEffect DEF PresentAt, Alive, Others, SameCall
<1>10. CASE TgTake
  BY <1>0, <1>10, TgTakeEffect, TriggersAssumption DEF PresentAt, Alive, NoTriggers
<1>11. ASSUME NEW g \in Gvks, TgNextGvk(g)
      PROVE  PresentAt(q)'
  BY <1>0, <1>11, TgNextGvkEffect DEF PresentAt, Alive, Others, SameCall
<1>12. CASE TgEnd
  BY <1>0, <1>12, TgEndEffect, TriggersAssumption DEF PresentAt, Alive, NoTriggers
<1>13. ASSUME NEW r \in matchers, TgVisit(r)
      PROVE  PresentAt(q)'
  BY <1>0, <1>13, TgVisitEffect DEF PresentAt, Alive, Others, SameCall
<1>14. CASE TgVisited
  BY <1>0, <1>14, TgVisitedEffect DEF PresentAt, Alive, Others, SameCall
<1>15. CASE TgDeleteTargets
  BY <1>0, <1>15, TgDeleteTargetsEffect DEF PresentAt, Alive, Others, SameCall
<1>16. CASE TgDeleteExact
  BY <1>0, <1>16, TgDeleteExactEffect DEF PresentAt, Alive, Others, SameCall
<1>17. CASE UNCHANGED vars
  BY <1>0, <1>17 DEF vars, PresentAt, Alive, Others, SameCall
<1> QED
  BY <1>1, <1>2, <1>3, <1>4, <1>5, <1>6, <1>7, <1>8, <1>9, <1>10, <1>11, <1>12, <1>13, <1>14, <1>15,
     <1>16, <1>17 DEF Next, Call, Tg

\* The calls keep CallOk: an object deleted during its call has an event.
LEMMA CallStep ==
    ASSUME TypeOK, CallOk, [Next]_vars
    PROVE  CallOk'
<1> SUFFICES ASSUME NEW q \in Objs PROVE CallAt(q)'
  BY DEF CallOk
<1>0. CallAt(q)
  BY DEF CallOk
<1>1. ASSUME NEW o \in Objs, NEW v \in Vals \cup {Absent}, Change(o, v)
      PROVE  CallAt(q)'
  BY <1>0, <1>1 DEF Change, CallAt, Alive, Others, SameCall, TypeOK
<1>2. ASSUME NEW o \in Objs, NEW from \in {"event", "trigger"}, OnChange(o, from)
      PROVE  CallAt(q)'
  <2>1. CASE q = o
    BY <1>0, <1>2, <2>1, OnChangeEffect DEF CallAt, Alive
  <2>2. CASE q # o
    BY <1>0, <1>2, <2>2, OnChangeEffect DEF CallAt, Alive, Others
  <2> QED
    BY <2>1, <2>2
<1>3. ASSUME NEW o \in Objs, NEW m \in Reads[o], RegisterLoad(o, m)
      PROVE  CallAt(q)'
  BY <1>0, <1>3, RegisterLoadEffect DEF CallAt, Alive, Others, SameCall
<1>4. ASSUME NEW o \in Objs, RegisterStore(o)
      PROVE  CallAt(q)'
  BY <1>0, <1>4, RegisterStoreEffect DEF CallAt, Alive, Others, SameCall
<1>5. ASSUME NEW o \in Objs, Read(o)
      PROVE  CallAt(q)'
  BY <1>0, <1>5, ReadEffect DEF CallAt, Alive, Others, SameCall
<1>6. ASSUME NEW o \in Objs, HandlerOk(o)
      PROVE  CallAt(q)'
  BY <1>0, <1>6, HandlerOkEffect DEF CallAt, Alive, Others, SameCall
<1>7. ASSUME NEW o \in Objs, HandlerError(o)
      PROVE  CallAt(q)'
  BY <1>0, <1>7, HandlerErrorEffect DEF CallAt, Alive, Others, SameCall
<1>8. ASSUME NEW o \in Objs, Fire(o)
      PROVE  CallAt(q)'
  BY <1>0, <1>8, FireEffect DEF CallAt, Alive, Others, SameCall
<1>9. CASE TgWait
  BY <1>0, <1>9, TgWaitEffect DEF CallAt, Alive, Others, SameCall
<1>10. CASE TgTake
  BY <1>0, <1>10, TgTakeEffect DEF CallAt, Alive, Others, SameCall
<1>11. ASSUME NEW g \in Gvks, TgNextGvk(g)
      PROVE  CallAt(q)'
  BY <1>0, <1>11, TgNextGvkEffect DEF CallAt, Alive, Others, SameCall
<1>12. CASE TgEnd
  BY <1>0, <1>12, TgEndEffect DEF CallAt, Alive, Others, SameCall
<1>13. ASSUME NEW r \in matchers, TgVisit(r)
      PROVE  CallAt(q)'
  BY <1>0, <1>13, TgVisitEffect DEF CallAt, Alive, Others, SameCall
<1>14. CASE TgVisited
  BY <1>0, <1>14, TgVisitedEffect DEF CallAt, Alive, Others, SameCall
<1>15. CASE TgDeleteTargets
  BY <1>0, <1>15, TgDeleteTargetsEffect DEF CallAt, Alive, Others, SameCall
<1>16. CASE TgDeleteExact
  BY <1>0, <1>16, TgDeleteExactEffect DEF CallAt, Alive, Others, SameCall
<1>17. CASE UNCHANGED vars
  BY <1>0, <1>17 DEF vars, CallAt, Alive, Others, SameCall
<1> QED
  BY <1>1, <1>2, <1>3, <1>4, <1>5, <1>6, <1>7, <1>8, <1>9, <1>10, <1>11, <1>12, <1>13, <1>14, <1>15,
     <1>16, <1>17 DEF Next, Call, Tg

\* kick wakes the goroutine up with every entry.
LEMMA GoroutineStep ==
    ASSUME TypeOK, GoroutineOk, [Next]_vars
    PROVE  GoroutineOk'
<1>1. ASSUME NEW o \in Objs, NEW v \in Vals \cup {Absent}, Change(o, v)
      PROVE  GoroutineOk'
  BY <1>1 DEF Change, GoroutineOk, NoTriggers, TypeOK
<1>2. ASSUME NEW o \in Objs, NEW from \in {"event", "trigger"}, OnChange(o, from)
      PROVE  GoroutineOk'
  BY <1>2, OnChangeEffect DEF GoroutineOk, NoTriggers
<1>3. ASSUME NEW o \in Objs, NEW m \in Reads[o], RegisterLoad(o, m)
      PROVE  GoroutineOk'
  BY <1>3, RegisterLoadEffect DEF GoroutineOk, NoTriggers
<1>4. ASSUME NEW o \in Objs, RegisterStore(o)
      PROVE  GoroutineOk'
  BY <1>4, RegisterStoreEffect DEF GoroutineOk, NoTriggers
<1>5. ASSUME NEW o \in Objs, Read(o)
      PROVE  GoroutineOk'
  BY <1>5, ReadEffect DEF GoroutineOk, NoTriggers
<1>6. ASSUME NEW o \in Objs, HandlerOk(o)
      PROVE  GoroutineOk'
  BY <1>6, HandlerOkEffect DEF GoroutineOk, NoTriggers
<1>7. ASSUME NEW o \in Objs, HandlerError(o)
      PROVE  GoroutineOk'
  BY <1>7, HandlerErrorEffect DEF GoroutineOk, NoTriggers
<1>8. ASSUME NEW o \in Objs, Fire(o)
      PROVE  GoroutineOk'
  BY <1>8, FireEffect DEF GoroutineOk, NoTriggers
<1>9. CASE TgWait
  BY <1>9, TgWaitEffect DEF GoroutineOk, NoTriggers
<1>10. CASE TgTake
  BY <1>10, TgTakeEffect DEF GoroutineOk, NoTriggers
<1>11. ASSUME NEW g \in Gvks, TgNextGvk(g)
      PROVE  GoroutineOk'
  BY <1>11, TgNextGvkEffect DEF GoroutineOk, NoTriggers
<1>12. CASE TgEnd
  BY <1>12, TgEndEffect DEF GoroutineOk, NoTriggers
<1>13. ASSUME NEW r \in matchers, TgVisit(r)
      PROVE  GoroutineOk'
  BY <1>13, TgVisitEffect DEF GoroutineOk, NoTriggers
<1>14. CASE TgVisited
  BY <1>14, TgVisitedEffect DEF GoroutineOk, NoTriggers
<1>15. CASE TgDeleteTargets
  BY <1>15, TgDeleteTargetsEffect DEF GoroutineOk, NoTriggers
<1>16. CASE TgDeleteExact
  BY <1>16, TgDeleteExactEffect DEF GoroutineOk, NoTriggers
<1>17. CASE UNCHANGED vars
  BY <1>17 DEF vars, GoroutineOk, NoTriggers
<1> QED
  BY <1>1, <1>2, <1>3, <1>4, <1>5, <1>6, <1>7, <1>8, <1>9, <1>10, <1>11, <1>12, <1>13, <1>14, <1>15,
     <1>16, <1>17 DEF Next, Call, Tg

\* Registrations of objects that were never deleted stay: process deletes
\* targets that were removed and matchers with a name.
LEMMA RegisteredStep ==
    ASSUME TypeOK, PresentOk, CallOk, RegisteredOk, [Next]_vars
    PROVE  RegisteredOk'
<1> SUFFICES ASSUME NEW q \in Objs, Alive(q)', NEW mt \in Followed(q)'
             PROVE  [target |-> q, mt |-> mt] \in matchers' \/ Unregistered(q, mt)'
  BY DEF RegisteredOk
<1> DEFINE r0 == [target |-> q, mt |-> mt]
<1>0. /\ Alive(q) /\ mt \in Followed(q) => r0 \in matchers \/ Unregistered(q, mt)
      /\ q \notin gone' /\ mt \in Reads[q] /\ mt.name = Any
      /\ q \notin gone => PresentAt(q)
      /\ CallAt(q)
  BY DEF RegisteredOk, PresentOk, CallOk, Followed
<1>1. ASSUME NEW o \in Objs, NEW v \in Vals \cup {Absent}, Change(o, v)
      PROVE  [target |-> q, mt |-> mt] \in matchers' \/ Unregistered(q, mt)'
  BY <1>0, <1>1 DEF Change, Unregistered, Alive, Followed, Others, SameCall, TypeOK
<1>2. ASSUME NEW o \in Objs, NEW from \in {"event", "trigger"}, OnChange(o, from)
      PROVE  [target |-> q, mt |-> mt] \in matchers' \/ Unregistered(q, mt)'
  BY <1>0, <1>2, OnChangeEffect DEF Unregistered, Alive, Followed, Others, SameCall
<1>3. ASSUME NEW o \in Objs, NEW m \in Reads[o], RegisterLoad(o, m)
      PROVE  [target |-> q, mt |-> mt] \in matchers' \/ Unregistered(q, mt)'
  BY <1>0, <1>3, RegisterLoadEffect DEF Unregistered, Alive, Followed, Others, SameCall
<1>4. ASSUME NEW o \in Objs, RegisterStore(o)
      PROVE  [target |-> q, mt |-> mt] \in matchers' \/ Unregistered(q, mt)'
  BY <1>0, <1>4, RegisterStoreEffect DEF Unregistered, Alive, Followed, PresentAt, Others, SameCall
<1>5. ASSUME NEW o \in Objs, Read(o)
      PROVE  [target |-> q, mt |-> mt] \in matchers' \/ Unregistered(q, mt)'
  BY <1>0, <1>5, ReadEffect DEF Unregistered, Alive, Followed, Others, SameCall
<1>6. ASSUME NEW o \in Objs, HandlerOk(o)
      PROVE  [target |-> q, mt |-> mt] \in matchers' \/ Unregistered(q, mt)'
  BY <1>0, <1>6, HandlerOkEffect DEF Unregistered, Alive, Followed, Others, SameCall
<1>7. ASSUME NEW o \in Objs, HandlerError(o)
      PROVE  [target |-> q, mt |-> mt] \in matchers' \/ Unregistered(q, mt)'
  BY <1>0, <1>7, HandlerErrorEffect DEF Unregistered, Alive, Followed, Others, SameCall
<1>8. ASSUME NEW o \in Objs, Fire(o)
      PROVE  [target |-> q, mt |-> mt] \in matchers' \/ Unregistered(q, mt)'
  BY <1>0, <1>8, FireEffect DEF Unregistered, Alive, Followed, PresentAt, CallAt, Others
<1>9. CASE TgWait
  BY <1>0, <1>9, TgWaitEffect DEF Unregistered, Alive, Followed, Others, SameCall
<1>10. CASE TgTake
  BY <1>0, <1>10, TgTakeEffect DEF Unregistered, Alive, Followed, Others, SameCall
<1>11. ASSUME NEW g \in Gvks, TgNextGvk(g)
      PROVE  [target |-> q, mt |-> mt] \in matchers' \/ Unregistered(q, mt)'
  BY <1>0, <1>11, TgNextGvkEffect DEF Unregistered, Alive, Followed, Others, SameCall
<1>12. CASE TgEnd
  BY <1>0, <1>12, TgEndEffect DEF Unregistered, Alive, Followed, Others, SameCall
<1>13. ASSUME NEW r \in matchers, TgVisit(r)
      PROVE  [target |-> q, mt |-> mt] \in matchers' \/ Unregistered(q, mt)'
  BY <1>0, <1>13, TgVisitEffect DEF Unregistered, Alive, Followed, Others, SameCall
<1>14. CASE TgVisited
  BY <1>0, <1>14, TgVisitedEffect DEF Unregistered, Alive, Followed, Others, SameCall
<1>15. CASE TgDeleteTargets
  BY <1>0, <1>15, TgDeleteTargetsEffect DEF Unregistered, Alive, Followed, PresentAt
<1>16. CASE TgDeleteExact
  <2>1. \A o \in Removed : mt # ExactMatcher(o)
    BY <1>0, <1>16, TriggersAssumption DEF Removed, ExactMatcher
  <2> QED
    BY <1>0, <1>16, <2>1, TgDeleteExactEffect DEF Unregistered, Alive, Followed
<1>17. CASE UNCHANGED vars
  BY <1>0, <1>17 DEF vars, Unregistered, Alive, Followed, Others, SameCall
<1> QED
  BY <1>1, <1>2, <1>3, <1>4, <1>5, <1>6, <1>7, <1>8, <1>9, <1>10, <1>11, <1>12, <1>13, <1>14, <1>15,
     <1>16, <1>17 DEF Next, Call, Tg

\* What a read returns depends on the objects only.
LEMMA ResultStays ==
    ASSUME UNCHANGED val, NEW mt
    PROVE  Result(mt)' = Result(mt)
  BY DEF Result, Alive, Match

\* A handler that will read does so, or will still read.
LEMMA WillReadStep ==
    ASSUME TypeOK, PresentOk, CallOk, GoroutineOk, RegisteredOk,
           NEW q \in Objs, Alive(q), Alive(q)', NEW mt \in Followed(q), mt \in Followed(q)', WillRead(q, mt), [Next]_vars
    PROVE  WillRead(q, mt)' \/ seen'[q][mt] = Result(mt)'
<1>0. q \notin gone /\ mt \in Reads[q] /\ PresentAt(q) /\ CallAt(q)
  BY DEF PresentOk, CallOk, Followed
<1>1. ASSUME NEW o \in Objs, NEW v \in Vals \cup {Absent}, Change(o, v)
      PROVE  WillRead(q, mt)' \/ seen'[q][mt] = Result(mt)'
  BY <1>0, <1>1 DEF Change, WillRead, PresentAt, CallAt, Others, SameCall, TypeOK
<1>2. ASSUME NEW o \in Objs, NEW from \in {"event", "trigger"}, OnChange(o, from)
      PROVE  WillRead(q, mt)' \/ seen'[q][mt] = Result(mt)'
  BY <1>0, <1>2, OnChangeEffect DEF WillRead, PresentAt, CallAt, Others, SameCall
<1>3. ASSUME NEW o \in Objs, NEW m \in Reads[o], RegisterLoad(o, m)
      PROVE  WillRead(q, mt)' \/ seen'[q][mt] = Result(mt)'
  BY <1>0, <1>3, RegisterLoadEffect DEF WillRead, PresentAt, CallAt, Others, SameCall
<1>4. ASSUME NEW o \in Objs, RegisterStore(o)
      PROVE  WillRead(q, mt)' \/ seen'[q][mt] = Result(mt)'
  BY <1>0, <1>4, RegisterStoreEffect DEF WillRead, PresentAt, CallAt, Others, SameCall
<1>5. ASSUME NEW o \in Objs, Read(o)
      PROVE  WillRead(q, mt)' \/ seen'[q][mt] = Result(mt)'
  <2>1. CASE q = o /\ mt \in hs[o].cur
    <3>1. UNCHANGED val
      BY <1>0, <1>5 DEF Read
    <3>2. seen'[q][mt] = Result(mt)
      BY <1>0, <1>5, <2>1 DEF Read, TypeOK
    <3> QED
      BY <3>1, <3>2, ResultStays
  <2>2. CASE ~(q = o /\ mt \in hs[o].cur)
    BY <1>0, <1>5, <2>2, ReadEffect DEF WillRead, Others
  <2> QED
    BY <2>1, <2>2
<1>6. ASSUME NEW o \in Objs, HandlerOk(o)
      PROVE  WillRead(q, mt)' \/ seen'[q][mt] = Result(mt)'
  BY <1>0, <1>6, HandlerOkEffect DEF WillRead, PresentAt, CallAt, Others, SameCall
<1>7. ASSUME NEW o \in Objs, HandlerError(o)
      PROVE  WillRead(q, mt)' \/ seen'[q][mt] = Result(mt)'
  BY <1>0, <1>7, HandlerErrorEffect DEF WillRead, PresentAt, CallAt, Others, SameCall
<1>8. ASSUME NEW o \in Objs, Fire(o)
      PROVE  WillRead(q, mt)' \/ seen'[q][mt] = Result(mt)'
  BY <1>0, <1>8, FireEffect DEF WillRead, PresentAt, CallAt, Others, SameCall
<1>9. CASE TgWait
  BY <1>0, <1>9, TgWaitEffect DEF WillRead, PresentAt, CallAt, Others, SameCall
<1>10. CASE TgTake
  BY <1>0, <1>10, TgTakeEffect DEF WillRead, PresentAt, CallAt, Others, SameCall
<1>11. ASSUME NEW g \in Gvks, TgNextGvk(g)
      PROVE  WillRead(q, mt)' \/ seen'[q][mt] = Result(mt)'
  BY <1>0, <1>11, TgNextGvkEffect DEF WillRead, PresentAt, CallAt, Others, SameCall
<1>12. CASE TgEnd
  BY <1>0, <1>12, TgEndEffect DEF WillRead, PresentAt, CallAt, Others, SameCall
<1>13. ASSUME NEW r \in matchers, TgVisit(r)
      PROVE  WillRead(q, mt)' \/ seen'[q][mt] = Result(mt)'
  BY <1>0, <1>13, TgVisitEffect DEF WillRead, PresentAt, CallAt, Others, SameCall
<1>14. CASE TgVisited
  BY <1>0, <1>14, TgVisitedEffect DEF WillRead, PresentAt, CallAt, Others, SameCall
<1>15. CASE TgDeleteTargets
  BY <1>0, <1>15, TgDeleteTargetsEffect DEF WillRead, PresentAt, CallAt, Others, SameCall
<1>16. CASE TgDeleteExact
  BY <1>0, <1>16, TgDeleteExactEffect DEF WillRead, PresentAt, CallAt, Others, SameCall
<1>17. CASE UNCHANGED vars
  BY <1>0, <1>17 DEF vars, WillRead, PresentAt, CallAt, Others, SameCall
<1> QED
  BY <1>1, <1>2, <1>3, <1>4, <1>5, <1>6, <1>7, <1>8, <1>9, <1>10, <1>11, <1>12, <1>13, <1>14, <1>15,
     <1>16, <1>17 DEF Next, Call, Tg

\* A change on its way to a registration stays on its way until it has
\* triggered the target.
LEMMA ComingStep ==
    ASSUME TypeOK, PresentOk, CallOk, GoroutineOk, RegisteredOk,
           NEW q \in Objs, Alive(q), NEW mt \in Followed(q), mt \in Followed(q)', ~WillRead(q, mt),
           NEW p \in Objs, InScope(mt, p), Coming(p, [target |-> q, mt |-> mt]), [Next]_vars
    PROVE  WillRead(q, mt)' \/ Coming(p, [target |-> q, mt |-> mt])'
<1> DEFINE r0 == [target |-> q, mt |-> mt]
<1>0. r0 \in matchers /\ q \notin gone /\ mt \in Reads[q] /\ mt.name = Any /\ p.gvk = mt.gvk /\ CallAt(p)
  BY DEF RegisteredOk, Unregistered, WillRead, CallOk, Followed, InScope
<1>1. ASSUME NEW o \in Objs, NEW v \in Vals \cup {Absent}, Change(o, v)
      PROVE  WillRead(q, mt)' \/ Coming(p, [target |-> q, mt |-> mt])'
  BY <1>0, <1>1 DEF Change, Coming, Others, SameCall, TypeOK
<1>2. ASSUME NEW o \in Objs, NEW from \in {"event", "trigger"}, OnChange(o, from)
      PROVE  WillRead(q, mt)' \/ Coming(p, [target |-> q, mt |-> mt])'
  <2>1. CASE p = o
    BY <1>0, <1>2, <2>1, OnChangeEffect DEF Coming
  <2>2. CASE p # o
    <3>1. hs'[p] = hs[p] /\ (<<p, "event">> \in queued => <<p, "event">> \in queued')
      <4>1. Others(o) /\ queued' = queued \ {<<o, from>>}
        BY <1>0, <1>2, OnChangeEffect
      <4> QED
        BY <2>2, <4>1 DEF Others
    <3> QED
      BY <1>0, <1>2, <3>1, OnChangeEffect DEF Coming
  <2> QED
    BY <2>1, <2>2
<1>3. ASSUME NEW o \in Objs, NEW m \in Reads[o], RegisterLoad(o, m)
      PROVE  WillRead(q, mt)' \/ Coming(p, [target |-> q, mt |-> mt])'
  BY <1>0, <1>3, RegisterLoadEffect DEF Coming, Others, SameCall
<1>4. ASSUME NEW o \in Objs, RegisterStore(o)
      PROVE  WillRead(q, mt)' \/ Coming(p, [target |-> q, mt |-> mt])'
  BY <1>0, <1>4, RegisterStoreEffect DEF Coming, Others, SameCall
<1>5. ASSUME NEW o \in Objs, Read(o)
      PROVE  WillRead(q, mt)' \/ Coming(p, [target |-> q, mt |-> mt])'
  BY <1>0, <1>5, ReadEffect DEF Coming, Others, SameCall
<1>6. ASSUME NEW o \in Objs, HandlerOk(o)
      PROVE  WillRead(q, mt)' \/ Coming(p, [target |-> q, mt |-> mt])'
  BY <1>0, <1>6, HandlerOkEffect DEF Coming, Others, SameCall
<1>7. ASSUME NEW o \in Objs, HandlerError(o)
      PROVE  WillRead(q, mt)' \/ Coming(p, [target |-> q, mt |-> mt])'
  BY <1>0, <1>7, HandlerErrorEffect DEF Coming, Others, CallAt
<1>8. ASSUME NEW o \in Objs, Fire(o)
      PROVE  WillRead(q, mt)' \/ Coming(p, [target |-> q, mt |-> mt])'
  <2>1. hs[o].own # NoVal /\ DOMAIN toTrigger = Objs
    BY TriggersAssumption DEF TypeOK, Calls, Contents, Entries
  <2>2. CASE p = o
    BY <1>0, <1>8, <2>1, <2>2, FireEffect DEF Coming
  <2>3. CASE p # o
    <3>1. /\ hs'[p] = hs[p] /\ toTrigger'[p] = toTrigger[p] /\ queued' = queued
          /\ tg.pc = "scan" => tg'.pc = "scan"
      <4>1. /\ Others(o) /\ queued' = queued
            /\ toTrigger' = [toTrigger EXCEPT ![o] = hs[o].own] \/ toTrigger' = toTrigger
            /\ tg'.pc = tg.pc \/ tg.pc \in {"off", "waiting"}
        BY <1>0, <1>8, FireEffect
      <4> QED
        BY <2>1, <2>3, <4>1 DEF Others
    <3>2. /\ tg'.batch = tg.batch /\ tg'.gvks = tg.gvks /\ tg'.past = tg.past /\ tg'.cur = tg.cur
          /\ tg'.must = tg.must /\ tg'.visited = tg.visited
      BY <1>0, <1>8, FireEffect
    <3> QED
      BY <3>1, <3>2 DEF Coming
  <2> QED
    BY <2>2, <2>3
<1>9. CASE TgWait
  BY <1>0, <1>9, TgWaitEffect DEF Coming, Others, SameCall
<1>10. CASE TgTake
  BY <1>0, <1>10, TgTakeEffect DEF Coming, GoroutineOk, NoTriggers
<1>11. ASSUME NEW g \in Gvks, TgNextGvk(g)
      PROVE  WillRead(q, mt)' \/ Coming(p, [target |-> q, mt |-> mt])'
  BY <1>0, <1>11, TgNextGvkEffect DEF Coming, Others, SameCall
<1>12. CASE TgEnd
  BY <1>0, <1>12, TgEndEffect DEF Coming, Others, SameCall
<1>13. ASSUME NEW r \in matchers, TgVisit(r)
      PROVE  WillRead(q, mt)' \/ Coming(p, [target |-> q, mt |-> mt])'
  <2>1. CASE r = r0
    <3>1. CASE tg.batch[p] # NoVal
      <4>1. Match(mt, p, tg.batch[p])
        BY <1>0, <3>1 DEF Match, InScope, Followed, TypeOK, Goroutines, Entries, Contents
      <4>2. Matched(r)
        BY <1>0, <2>1, <3>1, <4>1 DEF Matched
      <4> QED
        BY <1>0, <1>13, <2>1, <4>2, TgVisitEffect DEF WillRead
    <3>2. CASE tg.batch[p] = NoVal
      BY <1>0, <1>13, <3>2, TgVisitEffect DEF Coming
    <3> QED
      BY <3>1, <3>2
  <2>2. CASE r # r0
    BY <1>0, <1>13, <2>2, TgVisitEffect DEF Coming
  <2> QED
    BY <2>1, <2>2
<1>14. CASE TgVisited
  BY <1>0, <1>14, TgVisitedEffect DEF Coming, Others, SameCall
<1>15. CASE TgDeleteTargets
  BY <1>0, <1>15, TgDeleteTargetsEffect DEF Coming, Others, SameCall
<1>16. CASE TgDeleteExact
  BY <1>0, <1>16, TgDeleteExactEffect DEF Coming, Others, SameCall
<1>17. CASE UNCHANGED vars
  BY <1>0, <1>17 DEF vars, Coming, Others, SameCall
<1> QED
  BY <1>1, <1>2, <1>3, <1>4, <1>5, <1>6, <1>7, <1>8, <1>9, <1>10, <1>11, <1>12, <1>13, <1>14, <1>15,
     <1>16, <1>17 DEF Next, Call, Tg

\* Only Change changes objects, and only Read changes what was read.
LEMMA HistorySteps ==
    ASSUME [Next]_vars
    PROVE  \/ \E o \in Objs, v \in Vals \cup {Absent} : Change(o, v)
           \/ /\ UNCHANGED <<val, gone>>
              /\ UNCHANGED seen \/ \E o \in Objs : Read(o)
<1> DEFINE Kept == /\ UNCHANGED <<val, gone>>
                   /\ UNCHANGED seen \/ \E o \in Objs : Read(o)
<1>1. ASSUME NEW o \in Objs, NEW from \in {"event", "trigger"}, OnChange(o, from)
      PROVE  Kept
  BY <1>1 DEF OnChange
<1>2. ASSUME NEW o \in Objs, NEW m \in Reads[o], RegisterLoad(o, m)
      PROVE  Kept
  BY <1>2 DEF RegisterLoad
<1>3. ASSUME NEW o \in Objs, RegisterStore(o)
      PROVE  Kept
  BY <1>3 DEF RegisterStore
<1>4. ASSUME NEW o \in Objs, Read(o)
      PROVE  Kept
  BY <1>4 DEF Read
<1>5. ASSUME NEW o \in Objs, HandlerOk(o)
      PROVE  Kept
  BY <1>5 DEF HandlerOk
<1>6. ASSUME NEW o \in Objs, HandlerError(o)
      PROVE  Kept
  BY <1>6 DEF HandlerError, IdleCall
<1>7. ASSUME NEW o \in Objs, Fire(o)
      PROVE  Kept
  BY <1>7 DEF Fire, IdleCall, Kick
<1>8. CASE TgWait
  BY <1>8 DEF TgWait
<1>9. CASE TgTake
  BY <1>9 DEF TgTake
<1>10. ASSUME NEW g \in Gvks, TgNextGvk(g)
      PROVE  Kept
  BY <1>10 DEF TgNextGvk
<1>11. CASE TgEnd
  BY <1>11 DEF TgEnd, IdleTg
<1>12. ASSUME NEW r \in matchers, TgVisit(r)
      PROVE  Kept
  BY <1>12 DEF TgVisit
<1>13. CASE TgVisited
  BY <1>13 DEF TgVisited
<1>14. CASE TgDeleteTargets
  BY <1>14 DEF TgDeleteTargets, Removed
<1>15. CASE TgDeleteExact
  BY <1>15 DEF TgDeleteExact
<1>16. CASE UNCHANGED vars
  BY <1>16 DEF vars
<1> QED
  BY <1>1, <1>2, <1>3, <1>4, <1>5, <1>6, <1>7, <1>8, <1>9, <1>10, <1>11, <1>12, <1>13, <1>14, <1>15,
     <1>16 DEF Next, Call, Tg

\* A list changes only by objects of its kind and namespace.
LEMMA ResultChanges ==
    ASSUME TypeOK, NEW o \in Objs, NEW v \in Vals \cup {Absent}, Change(o, v),
           NEW mt, mt.name = Any, Result(mt)' # Result(mt)
    PROVE  InScope(mt, o)
<1> SUFFICES ASSUME ~InScope(mt, o) PROVE Result(mt)' = Result(mt)
  OBVIOUS
<1>1. \A p \in Objs : p # o => val'[p] = val[p]
  BY DEF Change, TypeOK
<1>2. ASSUME NEW p \in Objs
      PROVE  /\ (Alive(p) /\ p.gvk = mt.gvk /\ Match(mt, p, val[p]))
                    <=> (Alive(p)' /\ p.gvk = mt.gvk /\ Match(mt, p, val[p])')
             /\ p.gvk = mt.gvk /\ Match(mt, p, val[p]) => val'[p] = val[p]
  BY <1>1 DEF Alive, Match, InScope
<1> QED
  BY <1>2 DEF Result

\* Whatever makes a read stale is on its way to its handler.
LEMMA FreshStep ==
    ASSUME TypeOK, PresentOk, CallOk, GoroutineOk, RegisteredOk, FreshOk, [Next]_vars
    PROVE  FreshOk'
<1> SUFFICES ASSUME NEW q \in Objs, Alive(q)', NEW mt \in Followed(q)', seen'[q][mt] # Result(mt)'
             PROVE  \/ WillRead(q, mt)'
                    \/ \E p \in Objs : InScope(mt, p) /\ Coming(p, [target |-> q, mt |-> mt])'
  BY DEF FreshOk, InScope
<1>1. ASSUME Alive(q), mt \in Followed(q), seen[q][mt] # Result(mt)
      PROVE  \/ WillRead(q, mt)'
             \/ \E p \in Objs : InScope(mt, p) /\ Coming(p, [target |-> q, mt |-> mt])'
  <2>1. CASE WillRead(q, mt)
    BY <1>1, <2>1, WillReadStep
  <2>2. CASE ~WillRead(q, mt)
    <3>1. PICK p \in Objs : InScope(mt, p) /\ Coming(p, [target |-> q, mt |-> mt])
      BY <1>1, <2>2 DEF FreshOk
    <3> QED
      BY <1>1, <2>2, <3>1, ComingStep
  <2> QED
    BY <2>1, <2>2
<1>2. ASSUME NEW o \in Objs, NEW v \in Vals \cup {Absent}, Change(o, v)
      PROVE  \/ WillRead(q, mt)'
             \/ \E p \in Objs : InScope(mt, p) /\ Coming(p, [target |-> q, mt |-> mt])'
  <2>1. /\ queued' = queued \cup {<<o, "event">>} /\ seen' = seen /\ mt \in Followed(q)
        /\ q # o => val'[q] = val[q]
    BY <1>2 DEF Change, TypeOK, Followed
  <2>2. CASE Result(mt)' = Result(mt) /\ Alive(q)
    BY <1>1, <2>1, <2>2
  <2>3. CASE Result(mt)' # Result(mt)
    <3>1. InScope(mt, o)
      BY <1>2, <2>3, ResultChanges DEF Followed
    <3>2. Coming(o, [target |-> q, mt |-> mt])'
      BY <2>1 DEF Coming
    <3> QED
      BY <3>1, <3>2
  <2>4. CASE ~Alive(q)
    <3>1. q = o
      BY <2>1, <2>4 DEF Alive
    <3> QED
      BY <2>1, <3>1 DEF WillRead
  <2> QED
    BY <2>2, <2>3, <2>4
<1>3. CASE /\ UNCHANGED <<val, gone>>
           /\ UNCHANGED seen \/ \E o \in Objs : Read(o)
  <2>1. Alive(q) /\ mt \in Followed(q) /\ Result(mt)' = Result(mt)
    BY <1>3, ResultStays DEF Alive, Followed
  <2>2. seen'[q][mt] = seen[q][mt] \/ seen'[q][mt] = Result(mt)
    <3>1. CASE UNCHANGED seen
      BY <3>1
    <3>2. ASSUME NEW o \in Objs, Read(o)
          PROVE  seen'[q][mt] = seen[q][mt] \/ seen'[q][mt] = Result(mt)
      <4>1. seen' = [seen EXCEPT ![o] = [m \in Reads[o] |-> IF m \in hs[o].cur THEN Result(m) ELSE seen[o][m]]]
        BY <3>2 DEF Read, TypeOK
      <4>2. mt \in Reads[q] /\ DOMAIN seen = Objs
        BY <2>1 DEF Followed, TypeOK
      <4> QED
        BY <4>1, <4>2
    <3> QED
      BY <1>3, <3>1, <3>2
  <2> QED
    BY <1>1, <2>1, <2>2
<1> QED
  BY <1>2, <1>3, HistorySteps

\* The removal of a target stays on its way until its registrations are
\* deleted; one made after the removal has a later event behind it.
LEMMA GhostStep ==
    ASSUME TypeOK, CallOk, GoroutineOk, GhostOk, [Next]_vars
    PROVE  GhostOk'
<1> SUFFICES ASSUME NEW s \in matchers', ~Alive(s.target)'
             PROVE  Unlisting(s.target, s.mt.gvk)'
  BY DEF GhostOk
<1>0. /\ s \in matchers /\ ~Alive(s.target) => Unlisting(s.target, s.mt.gvk)
      /\ s \in matchers => s.target \in Objs
      /\ \A p \in Objs : CallAt(p)
  BY DEF GhostOk, CallOk, TypeOK, Registrations
<1>1. ASSUME NEW o \in Objs, NEW v \in Vals \cup {Absent}, Change(o, v)
      PROVE  Unlisting(s.target, s.mt.gvk)'
  BY <1>0, <1>1 DEF Change, Unlisting, Alive, Others, SameCall, TypeOK
<1>2. ASSUME NEW o \in Objs, NEW from \in {"event", "trigger"}, OnChange(o, from)
      PROVE  Unlisting(s.target, s.mt.gvk)'
  BY <1>0, <1>2, OnChangeEffect DEF Unlisting, Alive, Others, SameCall
<1>3. ASSUME NEW o \in Objs, NEW m \in Reads[o], RegisterLoad(o, m)
      PROVE  Unlisting(s.target, s.mt.gvk)'
  BY <1>0, <1>3, RegisterLoadEffect DEF Unlisting, Alive, Others, SameCall
<1>4. ASSUME NEW o \in Objs, RegisterStore(o)
      PROVE  Unlisting(s.target, s.mt.gvk)'
  <2>1. CASE s \in matchers
    BY <1>0, <1>4, <2>1, RegisterStoreEffect DEF Unlisting, Alive, Others, SameCall
  <2>2. CASE s \notin matchers
    <3>1. s.target = o /\ hs[o].pc = "store" /\ val' = val /\ queued' = queued
      BY <1>0, <1>4, <2>2, RegisterStoreEffect
    <3> QED
      BY <1>0, <3>1 DEF CallAt, Alive, Unlisting
  <2> QED
    BY <2>1, <2>2
<1>5. ASSUME NEW o \in Objs, Read(o)
      PROVE  Unlisting(s.target, s.mt.gvk)'
  BY <1>0, <1>5, ReadEffect DEF Unlisting, Alive, Others, SameCall
<1>6. ASSUME NEW o \in Objs, HandlerOk(o)
      PROVE  Unlisting(s.target, s.mt.gvk)'
  BY <1>0, <1>6, HandlerOkEffect DEF Unlisting, Alive, Others, SameCall
<1>7. ASSUME NEW o \in Objs, HandlerError(o)
      PROVE  Unlisting(s.target, s.mt.gvk)'
  <2>1. hs[o].pc \in {"handle", "read"} /\ queued \subseteq queued' /\ Others(o)
    BY <1>0, <1>7, HandlerErrorEffect
  <2> QED
    BY <1>0, <1>7, <2>1, HandlerErrorEffect DEF Unlisting, Alive, Others, CallAt
<1>8. ASSUME NEW o \in Objs, Fire(o)
      PROVE  Unlisting(s.target, s.mt.gvk)'
  <2>1. DOMAIN toTrigger = Objs /\ s.target \in Objs
    BY <1>0, <1>8, FireEffect DEF TypeOK, Entries
  <2>2. CASE s.target = o
    BY <1>0, <1>8, <2>1, <2>2, FireEffect DEF Unlisting, Alive, CallAt
  <2>3. CASE s.target # o
    <3>1. /\ Others(o) /\ queued' = queued /\ matchers' = matchers /\ val' = val
          /\ toTrigger' = [toTrigger EXCEPT ![o] = hs[o].own] \/ toTrigger' = toTrigger
          /\ tg'.pc = tg.pc \/ tg.pc \in {"off", "waiting"}
      BY <1>0, <1>8, FireEffect
    <3>2. hs'[s.target] = hs[s.target] /\ toTrigger'[s.target] = toTrigger[s.target]
      BY <2>1, <2>3, <3>1 DEF Others
    <3>3. tg'.batch = tg.batch /\ tg'.gvks = tg.gvks /\ tg'.past = tg.past /\ tg'.cur = tg.cur
      BY <1>0, <1>8, FireEffect
    <3> QED
      BY <1>0, <3>1, <3>2, <3>3 DEF Unlisting, Alive
  <2> QED
    BY <2>2, <2>3
<1>9. CASE TgWait
  BY <1>0, <1>9, TgWaitEffect DEF Unlisting, Alive, Others, SameCall
<1>10. CASE TgTake
  BY <1>0, <1>10, TgTakeEffect, TriggersAssumption DEF Unlisting, Alive, GoroutineOk, NoTriggers
<1>11. ASSUME NEW g \in Gvks, TgNextGvk(g)
      PROVE  Unlisting(s.target, s.mt.gvk)'
  BY <1>0, <1>11, TgNextGvkEffect DEF Unlisting, Alive, Others, SameCall
<1>12. CASE TgEnd
  BY <1>0, <1>12, TgEndEffect DEF Unlisting, Alive, Others, SameCall
<1>13. ASSUME NEW r \in matchers, TgVisit(r)
      PROVE  Unlisting(s.target, s.mt.gvk)'
  BY <1>0, <1>13, TgVisitEffect DEF Unlisting, Alive, Others, SameCall
<1>14. CASE TgVisited
  BY <1>0, <1>14, TgVisitedEffect DEF Unlisting, Alive, Others, SameCall
<1>15. CASE TgDeleteTargets
  BY <1>0, <1>15, TgDeleteTargetsEffect DEF Unlisting, Alive, Others, SameCall
<1>16. CASE TgDeleteExact
  BY <1>0, <1>16, TgDeleteExactEffect DEF Unlisting, Alive, Others, SameCall
<1>17. CASE UNCHANGED vars
  BY <1>0, <1>17 DEF vars, Unlisting, Alive, Others, SameCall
<1> QED
  BY <1>1, <1>2, <1>3, <1>4, <1>5, <1>6, <1>7, <1>8, <1>9, <1>10, <1>11, <1>12, <1>13, <1>14, <1>15,
     <1>16, <1>17 DEF Next, Call, Tg

-------------------------------------------------------------------------------
(* The theorems                                                            *)

\* Every handler that has to read is in its queue, so nothing else is claimed.
LEMMA Start ==
    ASSUME Init
    PROVE  Inv
<1>1. IdleCall \in Calls
  BY DEF IdleCall, Calls, Contents
<1>2. IdleTg \in Goroutines
  BY DEF IdleTg, Goroutines, NoTriggers, Entries
<1>3. TypeOK
  <2>1. /\ val \in [Objs -> Contents] /\ changes \in 0..MaxChanges
        /\ queued \subseteq Objs \X {"event", "trigger"}
    BY TriggersAssumption DEF Init, Contents
  <2>2. hs \in [Objs -> Calls] /\ \A o \in Objs : hs[o].todo \cup hs[o].cur \subseteq Reads[o]
    BY <1>1 DEF Init, IdleCall
  <2>3. toTrigger \in Entries /\ tg \in Goroutines
    BY <1>2 DEF Init, NoTriggers, Entries
  <2>4. DOMAIN seen = Objs /\ \A o \in Objs : DOMAIN seen[o] = Reads[o]
    BY DEF Init
  <2> QED
    BY <2>1, <2>2, <2>3, <2>4 DEF Init, TypeOK
<1>4. PresentOk /\ CallOk /\ GoroutineOk
  BY TriggersAssumption DEF Init, PresentOk, PresentAt, CallOk, CallAt, GoroutineOk, IdleCall,
     IdleTg, NoTriggers, Alive
<1>5. \A o \in Objs : Alive(o) => <<o, "event">> \in queued
  BY DEF Init, Alive
<1>6. RegisteredOk /\ FreshOk /\ GhostOk
  BY <1>5 DEF Init, RegisteredOk, Unregistered, FreshOk, WillRead, GhostOk
<1> QED
  BY <1>3, <1>4, <1>6 DEF Inv

\* The invariant is inductive.
THEOREM Invariance == Spec => []Inv
<1>1. Init => Inv
  BY Start
<1>2. Inv /\ [Next]_vars => Inv'
  BY TypeStep, PresentStep, CallStep, GoroutineStep, RegisteredStep, FreshStep, GhostStep DEF Inv
<1> QED
  BY <1>1, <1>2, PTL DEF Spec

\* The queues, the calls, the registrations and the state of the trigger
\* goroutine keep their types; a registration is for a read of its target.
THEOREM TypeCorrect == Spec => []TypeOK
<1>1. Inv => TypeOK
  BY DEF Inv
<1> QED
  BY <1>1, Invariance, PTL

\* No interleaving of registration, read, Trigger and process makes a handler
\* miss a change of what it lists: for every set of objects, every set of
\* reads and any number of changes.
THEOREM ChangesReach == Spec => []NoMissedChange
<1>1. ASSUME Inv
      PROVE  NoMissedChange
  <2> SUFFICES ASSUME NEW o \in Objs, Alive(o), NEW mt \in Followed(o),
                      seen[o][mt] # Result(mt), ~WillRead(o, mt)
               PROVE  \E p \in Objs : p.gvk = mt.gvk /\ ChangeInFlight(p)
    BY DEF NoMissedChange
  <2>1. PICK p \in Objs : InScope(mt, p) /\ Coming(p, [target |-> o, mt |-> mt])
    BY <1>1 DEF Inv, FreshOk
  <2>2. p.gvk = mt.gvk /\ ChangeInFlight(p)
    BY <2>1 DEF InScope, Coming, ChangeInFlight
  <2> QED
    BY <2>2
<1> QED
  BY <1>1, Invariance, PTL

\* When the queues are empty and the trigger goroutine waits, every
\* registration of a removed object has been deleted as a target.
THEOREM TargetsLeave == Spec => []NoGhostTargets
<1>1. ASSUME Inv
      PROVE  NoGhostTargets
  <2> SUFFICES ASSUME Quiet, NEW r \in matchers
               PROVE  Alive(r.target)
    BY DEF NoGhostTargets
  <2>1. r.target \in Objs
    BY <1>1 DEF Inv, TypeOK, Registrations
  <2>2. toTrigger = NoTriggers /\ tg.batch = NoTriggers
    BY <1>1 DEF Inv, GoroutineOk, Quiet
  <2>3. toTrigger[r.target] # Absent /\ tg.batch[r.target] # Absent
    BY <2>1, <2>2, TriggersAssumption DEF NoTriggers
  <2>4. Alive(r.target) \/ Unlisting(r.target, r.mt.gvk)
    BY <1>1 DEF Inv, GhostOk
  <2> QED
    BY <2>1, <2>3, <2>4 DEF Quiet, Unlisting
<1> QED
  BY <1>1, Invariance, PTL
===============================================================================
