--------------------------- MODULE HandlerSetProofs ---------------------------
(***************************************************************************)
(* Proofs about HandlerSet: the calls of one object exclude each other,    *)
(* and what the limiter drops reaches the watchers all the same.           *)
(***************************************************************************)
EXTENDS HandlerSet, TLAPS

CallPc == {"idle", "delay", "lock", "get", "handle", "trigger", "save", "retry"}
Call == [pc : CallPc, arg : Object \cup {Absent}, obj : Object \cup {Absent},
         new : Specs \cup {NoStatus}]

-------------------------------------------------------------------------------
(* The inductive invariant                                                 *)

\* Only a key with a back-off goroutine owes its limiter a token.
DebtOk == \A k \in Keys : tokens[k] < 0 => k \in waiting

\* The calls in the critical section are those that hold their lock, and a
\* lock has one holder.
LockOk ==
    /\ \A i \in Items : Critical(i) <=> i \in locker[Key(i)]
    /\ \A k \in Keys : \A i, j \in locker[k] : i = j

\* The object syncHandler passed is the cached one, or the item is queued
\* again.
ArgOk ==
    \A i \in Items :
        /\ From(i) # "event" => call[i].arg = Absent
        /\ call[i].pc \in {"delay", "lock", "get"} => call[i].arg = cache[Key(i)] \/ From(i) # "event" \/ i \in queue

\* An event or a replay of k is on its way to read the object.
Coming(k) ==
    \/ k \in waiting
    \/ \E f \in {"event", "replay"} : <<k, f>> \in queue \/ call[<<k, f>>].pc \in {"delay", "lock", "get"}

\* A call that handles an object that is not the cached one any more will be
\* followed by another.
StaleOk ==
    \A i \in Items :
        call[i].pc \in {"handle", "trigger"} /\ call[i].obj # cache[Key(i)] => Coming(Key(i))

\* The watchers know the cached object, or a call is going to tell them.
ToldOk ==
    \A k \in Keys :
        \/ told[k] = cache[k]
        \/ Coming(k)
        \/ \E f \in {"event", "replay"} :
              call[<<k, f>>].pc \in {"handle", "trigger"} /\ call[<<k, f>>].obj = cache[k]

Inv == TypeOK /\ DebtOk /\ LockOk /\ ArgOk /\ StaleOk /\ ToldOk

-------------------------------------------------------------------------------
(* Frames                                                                  *)

\* The items of an object.
LEMMA ItemFacts ==
    /\ \A i \in Items : Key(i) \in Keys /\ From(i) \in Froms /\ i = <<Key(i), From(i)>>
    /\ \A k \in Keys, f \in Froms : <<k, f>> \in Items /\ Key(<<k, f>>) = k /\ From(<<k, f>>) = f
BY DEF Items, Key, From

\* A call is replaced by another; all others stay as they are.
LEMMA CallUpdate ==
    ASSUME TypeOK, NEW i \in Items, NEW c \in Call, call' = [call EXCEPT ![i] = c]
    PROVE  /\ call' \in [Items -> Call]
           /\ call'[i] = c
           /\ \A j \in Items : j # i => call'[j] = call[j]
BY DEF TypeOK, Call, CallPc

\* A step that leaves the cache, the calls and the history alone, and takes
\* away nothing that is coming, keeps the rest of the invariant.
LEMMA KeepCalls ==
    ASSUME Inv, TypeOK', DebtOk', UNCHANGED <<cache, call, locker, told>>, queue \subseteq queue',
           \A k \in Keys : k \in waiting => k \in waiting' \/ <<k, "replay">> \in queue'
    PROVE  Inv'
<1>1. LockOk'
  BY DEF Inv, LockOk, Critical
<1>2. ArgOk'
  BY DEF Inv, ArgOk
<1>3. \A k \in Keys : Coming(k) => Coming(k)'
  BY DEF Coming
<1>4. StaleOk'
  BY <1>3, ItemFacts DEF Inv, StaleOk
<1>5. ToldOk'
  BY <1>3 DEF Inv, ToldOk
<1>6. QED
  BY <1>1, <1>2, <1>4, <1>5 DEF Inv

\* New versions of an object are objects.
LEMMA ObjectUpdate ==
    ASSUME NEW o \in Object, NEW s \in Specs
    PROVE  /\ [o EXCEPT !.spec = s, !.rv = @ + 1] \in Object
           /\ [o EXCEPT !.status = s, !.rv = @ + 1] \in Object
<1>1. o.rv + 1 \in Nat
  BY DEF Object
<1>2. QED
  BY <1>1 DEF Object

-------------------------------------------------------------------------------
(* The environment                                                         *)

\* Other clients' writes, the limiter's refill and the end of a backoff keep Inv.
LEMMA ClusterStep ==
    ASSUME Inv, NEW k \in Keys, Cluster(k) \/ Refill(k) \/ BackoffEnds(k)
    PROVE  Inv'
<1> USE HandlerSetAssumption DEF HandlerSetAssumption
<1>1. ASSUME NEW s \in Specs, ChangeSpec(k, s)
      PROVE  Inv'
  <2>1. changes' \in 0..MaxChanges /\ UNCHANGED <<errors, cache, queue, call, locker, tokens, waiting, told>>
    BY <1>1 DEF ChangeSpec, Inv, TypeOK
  <2>2. srv' \in [Keys -> Object \cup {Absent}]
    <3>1. CASE srv[k] = Absent
      <4>1. [spec |-> s, status |-> NoStatus, rv |-> changes + 1] \in Object
        BY DEF Inv, TypeOK, Object
      <4>2. QED
        BY <1>1, <3>1, <4>1 DEF ChangeSpec, Inv, TypeOK
    <3>2. CASE srv[k] # Absent
      <4>1. srv[k] \in Object
        BY <3>2 DEF Inv, TypeOK
      <4>2. [srv[k] EXCEPT !.spec = s, !.rv = @ + 1] \in Object
        BY <4>1, ObjectUpdate
      <4>3. srv' = [srv EXCEPT ![k] = [srv[k] EXCEPT !.spec = s, !.rv = @ + 1]]
        BY <1>1, <3>2 DEF ChangeSpec, Inv, TypeOK
      <4>4. QED
        BY <4>2, <4>3 DEF Inv, TypeOK
    <3>3. QED
      BY <3>1, <3>2
  <2>3. TypeOK' /\ DebtOk'
    BY <2>1, <2>2 DEF Inv, TypeOK, DebtOk
  <2>4. QED
    BY <2>1, <2>3, KeepCalls
<1>2. CASE Delete(k)
  <2>1. TypeOK' /\ DebtOk'
    BY <1>2 DEF Delete, Inv, TypeOK, DebtOk
  <2>2. QED
    BY <1>2, <2>1, KeepCalls DEF Delete
<1>3. CASE Triggered(k)
  <2>1. <<k, "trigger">> \in Items
    BY ItemFacts DEF Froms
  <2>2. TypeOK' /\ DebtOk'
    BY <1>3, <2>1 DEF Triggered, Inv, TypeOK, DebtOk
  <2>3. QED
    BY <1>3, <2>2, KeepCalls DEF Triggered
<1>4. CASE Refill(k)
  <2>1. TypeOK' /\ DebtOk'
    BY <1>4 DEF Refill, Inv, TypeOK, DebtOk
  <2>2. QED
    BY <1>4, <2>1, KeepCalls DEF Refill
<1>5. CASE BackoffEnds(k)
  <2>1. <<k, "replay">> \in Items
    BY ItemFacts DEF Froms
  <2>2. TypeOK' /\ DebtOk'
    BY <1>5, <2>1 DEF BackoffEnds, Inv, TypeOK, DebtOk
  <2>3. QED
    BY <1>5, <2>2, KeepCalls DEF BackoffEnds
<1>6. QED
  BY <1>1, <1>2, <1>3, <1>4, <1>5 DEF Cluster

\* The informer's event is coming.
LEMMA InformStep ==
    ASSUME Inv, NEW k \in Keys, Inform(k)
    PROVE  Inv'
<1>1. /\ cache' = [cache EXCEPT ![k] = srv[k]]
      /\ queue' = queue \cup {<<k, "event">>}
      /\ UNCHANGED <<srv, changes, errors, call, locker, tokens, waiting, told>>
  BY DEF Inform
<1>2. <<k, "event">> \in Items
  BY ItemFacts DEF Froms
<1>3. TypeOK' /\ DebtOk'
  BY <1>1, <1>2 DEF Inv, TypeOK, DebtOk
<1>4. LockOk'
  BY <1>1 DEF Inv, LockOk, Critical
<1>5. Coming(k)' /\ \A m \in Keys : Coming(m) => Coming(m)'
  BY <1>1 DEF Coming
<1>6. \A m \in Keys : m # k => cache'[m] = cache[m]
  BY <1>1 DEF Inv, TypeOK
<1>7. ArgOk'
  BY <1>1, <1>6, ItemFacts DEF Inv, ArgOk
<1>8. StaleOk'
  BY <1>1, <1>5, <1>6, ItemFacts DEF Inv, StaleOk
<1>9. ToldOk'
  BY <1>1, <1>5, <1>6 DEF Inv, ToldOk
<1>10. QED
  BY <1>3, <1>4, <1>7, <1>8, <1>9 DEF Inv

-------------------------------------------------------------------------------
(* onChange                                                                *)

\* A step of a call that is not about to tell the watchers, and that takes
\* away nothing that is coming.
LEMMA KeepTold ==
    ASSUME Inv, NEW i \in Items, call[i].pc \notin {"handle", "trigger"},
           \A j \in Items : j # i => call'[j] = call[j],
           UNCHANGED <<cache, told>>, \A k \in Keys : Coming(k) => Coming(k)'
    PROVE  ToldOk'
<1> SUFFICES ASSUME NEW k \in Keys, told'[k] # cache'[k], ~Coming(k)'
             PROVE  \E f \in {"event", "replay"} :
                       call'[<<k, f>>].pc \in {"handle", "trigger"} /\ call'[<<k, f>>].obj = cache'[k]
  BY DEF ToldOk
<1>1. PICK f \in {"event", "replay"} :
         call[<<k, f>>].pc \in {"handle", "trigger"} /\ call[<<k, f>>].obj = cache[k]
  BY DEF Inv, ToldOk
<1>2. <<k, f>> \in Items /\ <<k, f>> # i
  BY <1>1, ItemFacts DEF Froms
<1>3. QED
  BY <1>1, <1>2

\* A worker takes an item out of the queue.
LEMMA BeginStep ==
    ASSUME Inv, NEW i \in Items, Begin(i)
    PROVE  Inv'
<1> DEFINE c == [IdleCall EXCEPT !.pc  = IF From(i) = "event" THEN "delay" ELSE "lock",
                                 !.arg = IF From(i) = "event" THEN cache[Key(i)] ELSE Absent]
<1>1. /\ call[i].pc = "idle" /\ i \in queue /\ queue' = queue \ {i}
      /\ call' = [call EXCEPT ![i] = c]
      /\ UNCHANGED <<srv, cache, changes, errors, locker, tokens, waiting, told>>
  BY DEF Begin
<1>2. /\ c \in Call
      /\ c.pc \in {"delay", "lock"}
      /\ c.arg = IF From(i) = "event" THEN cache[Key(i)] ELSE Absent
  BY ItemFacts DEF IdleCall, Call, CallPc, Inv, TypeOK
<1> HIDE DEF c
<1>3. call' \in [Items -> Call] /\ call'[i] = c /\ \A j \in Items : j # i => call'[j] = call[j]
  BY <1>1, <1>2, CallUpdate DEF Inv
<1>4. TypeOK' /\ DebtOk'
  BY <1>1, <1>3 DEF Inv, TypeOK, DebtOk, Call, CallPc
<1>5. LockOk'
  BY <1>1, <1>2, <1>3 DEF Inv, LockOk, Critical
<1>6. ArgOk'
  BY <1>1, <1>2, <1>3 DEF Inv, ArgOk
<1>7. \A k \in Keys : Coming(k) => Coming(k)'
  BY <1>1, <1>2, <1>3, ItemFacts DEF Coming, Froms
<1>8. StaleOk'
  BY <1>1, <1>2, <1>3, <1>7, ItemFacts DEF Inv, StaleOk
<1>9. ToldOk'
  BY <1>1, <1>3, <1>7, KeepTold
<1>10. QED
  BY <1>4, <1>5, <1>6, <1>8, <1>9 DEF Inv

\* A call that has not read the object yet moves on, or is dropped with a
\* back-off goroutine that stands in for it.
LEMMA CheckDelayStep ==
    ASSUME Inv, NEW i \in Items, CheckDelay(i)
    PROVE  Inv'
<1> DEFINE k == Key(i)
<1>1. k \in Keys
  BY ItemFacts
<1>2. /\ call[i].pc = "delay"
      /\ UNCHANGED <<srv, cache, changes, errors, queue, locker, told>>
      /\ \/ /\ call' = [call EXCEPT ![i] = IdleCall] /\ UNCHANGED tokens
            /\ k \in waiting /\ UNCHANGED waiting
         \/ /\ call' = [call EXCEPT ![i] = IdleCall] /\ tokens' = [tokens EXCEPT ![k] = tokens[k] - 1]
            /\ k \notin waiting /\ waiting' = waiting \cup {k}
         \/ /\ call' = [call EXCEPT ![i].pc = "lock"] /\ tokens' = [tokens EXCEPT ![k] = tokens[k] - 1]
            /\ tokens[k] > 0 /\ UNCHANGED waiting
  BY DEF CheckDelay, Return, Goto
<1>3. PICK c \in Call :
         /\ call' = [call EXCEPT ![i] = c]
         /\ c.pc = "idle" \/ (c.pc = "lock" /\ c.arg = call[i].arg)
         /\ c.arg \in {call[i].arg, Absent}
         /\ c.pc = "idle" => k \in waiting'
  <2>1. IdleCall \in Call /\ IdleCall.pc = "idle" /\ IdleCall.arg = Absent
    BY DEF IdleCall, Call, CallPc, Object
  <2>2. call[i] \in Call
    BY DEF Inv, TypeOK, Call, CallPc
  <2> DEFINE d == [call[i] EXCEPT !.pc = "lock"]
  <2>3. d \in Call /\ d.pc = "lock" /\ d.arg = call[i].arg
    BY <2>2 DEF Call, CallPc
  <2>4. [call EXCEPT ![i].pc = "lock"] = [call EXCEPT ![i] = d]
    OBVIOUS
  <2> HIDE DEF d
  <2>5. QED
    BY <1>2, <2>1, <2>3, <2>4
<1>4. call' \in [Items -> Call] /\ call'[i] = c /\ \A j \in Items : j # i => call'[j] = call[j]
  BY <1>3, CallUpdate DEF Inv
<1>5. tokens' \in [Keys -> -1..Burst] /\ DebtOk'
  <2>1. tokens \in [Keys -> -1..Burst] /\ Burst \in Nat
    BY HandlerSetAssumption DEF HandlerSetAssumption, Inv, TypeOK
  <2>2. k \notin waiting => tokens[k] >= 0
    BY <1>1, <2>1 DEF Inv, DebtOk
  <2>3. CASE UNCHANGED tokens
    BY <1>2, <2>1, <2>3 DEF Inv, DebtOk
  <2>4. CASE tokens' = [tokens EXCEPT ![k] = tokens[k] - 1] /\ tokens[k] >= 0
    <3>1. tokens[k] - 1 \in -1..Burst
      BY <1>1, <2>1, <2>4
    <3>2. tokens' \in [Keys -> -1..Burst]
      BY <2>1, <2>4, <3>1
    <3>3. tokens[k] > 0 => tokens[k] - 1 >= 0
      BY <1>1, <2>1
    <3>4. \A m \in Keys : tokens'[m] = IF m = k THEN tokens[k] - 1 ELSE tokens[m]
      BY <2>1, <2>4
    <3>5. DebtOk'
      BY <1>1, <1>2, <2>1, <3>2, <3>3, <3>4 DEF Inv, DebtOk
    <3>6. QED
      BY <3>2, <3>5
  <2>5. QED
    BY <1>1, <1>2, <2>1, <2>2, <2>3, <2>4
<1>6. TypeOK'
  BY <1>1, <1>2, <1>4, <1>5 DEF Inv, TypeOK, Call, CallPc
<1>7. LockOk'
  BY <1>2, <1>3, <1>4 DEF Inv, LockOk, Critical
<1>8. ArgOk'
  BY <1>2, <1>3, <1>4 DEF Inv, ArgOk
<1>9. \A m \in Keys : Coming(m) => Coming(m)'
  BY <1>2, <1>3, <1>4, ItemFacts DEF Coming, Froms
<1>10. StaleOk'
  BY <1>2, <1>3, <1>4, <1>9, ItemFacts DEF Inv, StaleOk
<1>11. ToldOk'
  BY <1>2, <1>4, <1>9, KeepTold
<1>12. QED
  BY <1>5, <1>6, <1>7, <1>8, <1>10, <1>11 DEF Inv

\* locker.Lock admits an item whose key nobody has locked: Inv is kept.
LEMMA LockStep ==
    ASSUME Inv, NEW i \in Items, Lock(i)
    PROVE  Inv'
<1> DEFINE c == [call[i] EXCEPT !.pc = "get"]
<1>1. /\ call[i].pc = "lock" /\ locker[Key(i)] = {} /\ locker' = [locker EXCEPT ![Key(i)] = {i}]
      /\ call' = [call EXCEPT ![i] = c]
      /\ UNCHANGED <<srv, cache, changes, errors, queue, tokens, waiting, told>>
  BY DEF Lock, Goto
<1>2. c \in Call /\ c.pc = "get" /\ c.arg = call[i].arg
  BY DEF Inv, TypeOK, Call, CallPc
<1> HIDE DEF c
<1>3. call' \in [Items -> Call] /\ call'[i] = c /\ \A j \in Items : j # i => call'[j] = call[j]
  BY <1>1, <1>2, CallUpdate DEF Inv
<1>4. Key(i) \in Keys /\ \A k \in Keys : locker'[k] = IF k = Key(i) THEN {i} ELSE locker[k]
  BY <1>1, ItemFacts DEF Inv, TypeOK
<1>5. TypeOK' /\ DebtOk'
  BY <1>1, <1>3 DEF Inv, TypeOK, DebtOk, Call, CallPc
<1>6. LockOk'
  <2>1. \A j \in Items : Critical(j)' <=> Critical(j) \/ j = i
    BY <1>2, <1>3 DEF Critical
  <2>2. \A j \in Items : j \in locker'[Key(j)] <=> j \in locker[Key(j)] \/ j = i
    BY <1>1, <1>4, ItemFacts
  <2>3. QED
    BY <1>4, <2>1, <2>2 DEF Inv, LockOk
<1>7. ArgOk'
  BY <1>1, <1>2, <1>3 DEF Inv, ArgOk
<1>8. \A m \in Keys : Coming(m) => Coming(m)'
  BY <1>1, <1>2, <1>3, ItemFacts DEF Coming, Froms
<1>9. StaleOk'
  BY <1>1, <1>2, <1>3, <1>8, ItemFacts DEF Inv, StaleOk
<1>10. ToldOk'
  BY <1>1, <1>3, <1>8, KeepTold
<1>11. QED
  BY <1>5, <1>6, <1>7, <1>9, <1>10 DEF Inv

\* The object is read under the lock: it is the cached one, unless it was
\* deleted since syncHandler read it, and then another event is queued.
LEMMA GetStep ==
    ASSUME Inv, NEW i \in Items, Get(i)
    PROVE  Inv'
<1> DEFINE k == Key(i)
           obj == IF cache[k] # Absent THEN cache[k] ELSE call[i].arg
           c == [call[i] EXCEPT !.pc = "handle", !.obj = obj,
                                !.new = IF obj = Absent THEN NoStatus ELSE obj.status]
<1>1. k \in Keys /\ i = <<k, From(i)>> /\ From(i) \in Froms
  BY ItemFacts
<1>2. /\ call[i].pc = "get"
      /\ call' = [call EXCEPT ![i] = c]
      /\ tokens' = IF obj = Absent THEN [tokens EXCEPT ![k] = Burst] ELSE tokens
      /\ UNCHANGED <<srv, cache, changes, errors, queue, locker, waiting, told>>
  BY DEF Get
<1>3. call[i] \in Call /\ obj \in Object \cup {Absent}
  BY <1>1 DEF Inv, TypeOK, Call, CallPc
<1>4. c \in Call /\ c.pc = "handle" /\ c.obj = obj /\ c.arg = call[i].arg
  <2>1. (IF obj = Absent THEN NoStatus ELSE obj.status) \in Specs \cup {NoStatus}
    BY <1>3 DEF Object
  <2>2. QED
    BY <1>3, <2>1 DEF Call, CallPc
<1>5. obj # cache[k] => Coming(k)' /\ <<k, "event">> \in queue
  BY <1>1, <1>2 DEF Inv, ArgOk, Coming
<1> HIDE DEF obj, c
<1>6. call' \in [Items -> Call] /\ call'[i] = c /\ \A j \in Items : j # i => call'[j] = call[j]
  BY <1>2, <1>4, CallUpdate DEF Inv
<1>7. TypeOK' /\ DebtOk'
  <2>1. Burst \in Nat \ {0} /\ tokens \in [Keys -> -1..Burst]
    BY HandlerSetAssumption DEF HandlerSetAssumption, Inv, TypeOK
  <2>2. tokens' \in [Keys -> -1..Burst] /\ \A m \in Keys : tokens'[m] < 0 => tokens[m] < 0
    BY <1>1, <1>2, <2>1
  <2>3. QED
    BY <1>2, <1>6, <2>2 DEF Inv, TypeOK, DebtOk, Call, CallPc
<1>8. LockOk'
  BY <1>2, <1>4, <1>6 DEF Inv, LockOk, Critical
<1>9. ArgOk'
  BY <1>2, <1>4, <1>6 DEF Inv, ArgOk
<1>10. \A m \in Keys : m # k => (Coming(m) <=> Coming(m)')
  BY <1>1, <1>2, <1>6, ItemFacts DEF Coming, Froms
<1>11. \A j \in Items : j # i /\ Key(j) = k => ~Critical(j)
  BY <1>1, <1>2 DEF Inv, LockOk, Critical
<1>12. StaleOk'
  <2> SUFFICES ASSUME NEW j \in Items, call'[j].pc \in {"handle", "trigger"},
                      call'[j].obj # cache[Key(j)]
               PROVE  Coming(Key(j))'
    BY <1>2 DEF StaleOk
  <2>1. CASE j = i
    BY <1>4, <1>5, <1>6, <2>1
  <2>2. CASE j # i
    <3>1. call'[j] = call[j] /\ Key(j) # k /\ Key(j) \in Keys
      BY <1>6, <1>11, <2>2, ItemFacts DEF Critical
    <3>2. QED
      BY <1>10, <3>1 DEF Inv, StaleOk
  <2>3. QED
    BY <2>1, <2>2
<1>13. ToldOk'
  <2> SUFFICES ASSUME NEW m \in Keys, told[m] # cache[m], ~Coming(m)'
               PROVE  \E f \in {"event", "replay"} :
                         call'[<<m, f>>].pc \in {"handle", "trigger"} /\ call'[<<m, f>>].obj = cache[m]
    BY <1>2 DEF ToldOk
  <2>1. CASE m # k
    <3>1. PICK f \in {"event", "replay"} :
             call[<<m, f>>].pc \in {"handle", "trigger"} /\ call[<<m, f>>].obj = cache[m]
      BY <1>10, <2>1 DEF Inv, ToldOk
    <3>2. <<m, f>> \in Items /\ Key(<<m, f>>) = m
      BY <3>1, ItemFacts DEF Froms
    <3>3. <<m, f>> # i
      BY <2>1, <3>2
    <3>4. QED
      BY <1>6, <3>1, <3>2, <3>3
  <2>2. CASE m = k
    <3>1. obj = cache[k]
      BY <1>5, <2>2
    <3>2. CASE From(i) \in {"event", "replay"}
      BY <1>1, <1>4, <1>6, <2>2, <3>1, <3>2
    <3>3. CASE From(i) = "trigger"
      <4>1. \A f \in {"event", "replay"} : <<k, f>> \in Items /\ <<k, f>> # i
        BY <1>1, <3>3, ItemFacts DEF Froms
      <4>2. \A f \in {"event", "replay"} : call'[<<k, f>>] = call[<<k, f>>] /\ ~Critical(<<k, f>>)
        BY <1>6, <1>11, <4>1, ItemFacts
      <4>3. ~Coming(k)
        BY <1>2, <2>2, <4>2 DEF Coming
      <4>4. QED
        BY <2>2, <4>2, <4>3 DEF Inv, ToldOk, Critical
    <3>4. QED
      BY <1>1, <3>2, <3>3 DEF Froms
  <2>3. QED
    BY <2>1, <2>2
<1>14. QED
  BY <1>7, <1>8, <1>9, <1>12, <1>13 DEF Inv

\* A call returns and unlocks; if it has yet to tell the watchers, its item
\* is queued again.
LEMMA ReturnStep ==
    ASSUME Inv, NEW i \in Items, Critical(i), Return(i), Unlock(i),
           UNCHANGED <<srv, cache, changes, tokens, waiting, told>>,
           errors' \in 0..MaxErrors, queue \subseteq queue', queue' \subseteq Items,
           call[i].pc \in {"get", "handle", "trigger"} => i \in queue'
    PROVE  Inv'
<1>1. IdleCall \in Call /\ IdleCall.pc = "idle" /\ IdleCall.arg = Absent
  BY DEF IdleCall, Call, CallPc, Object
<1>2. call' \in [Items -> Call] /\ call'[i] = IdleCall /\ \A j \in Items : j # i => call'[j] = call[j]
  BY <1>1, CallUpdate DEF Return, Inv
<1>3. /\ Key(i) \in Keys /\ i = <<Key(i), From(i)>>
      /\ \A k \in Keys : locker'[k] = IF k = Key(i) THEN locker[k] \ {i} ELSE locker[k]
  BY ItemFacts DEF Unlock, Inv, TypeOK
<1>4. TypeOK' /\ DebtOk'
  <2>1. locker' \in [Keys -> SUBSET Items]
    BY DEF Unlock, Inv, TypeOK
  <2>2. QED
    BY <1>2, <2>1 DEF Inv, TypeOK, DebtOk, Call, CallPc
<1>5. LockOk'
  <2>1. \A j \in Items : Critical(j)' <=> Critical(j) /\ j # i
    BY <1>1, <1>2 DEF Critical
  <2>2. \A j \in Items : j \in locker'[Key(j)] <=> j \in locker[Key(j)] /\ j # i
    BY <1>3, ItemFacts
  <2>3. QED
    BY <1>3, <2>1, <2>2 DEF Inv, LockOk
<1>6. ArgOk'
  BY <1>1, <1>2 DEF Inv, ArgOk
<1>7. \A m \in Keys : Coming(m) => Coming(m)'
  <2> SUFFICES ASSUME NEW m \in Keys, Coming(m), m \notin waiting
               PROVE  Coming(m)'
    BY DEF Coming
  <2>1. PICK f \in {"event", "replay"} : <<m, f>> \in queue \/ call[<<m, f>>].pc \in {"delay", "lock", "get"}
    BY DEF Coming
  <2>2. <<m, f>> \in Items
    BY <2>1, ItemFacts DEF Froms
  <2>3. <<m, f>> \in queue' \/ call'[<<m, f>>].pc \in {"delay", "lock", "get"}
    BY <1>2, <2>1, <2>2 DEF Critical
  <2>4. QED
    BY <2>1, <2>3 DEF Coming
<1>8. StaleOk'
  BY <1>1, <1>2, <1>7, ItemFacts DEF Inv, StaleOk
<1>9. ToldOk'
  <2> SUFFICES ASSUME NEW m \in Keys, told[m] # cache[m], ~Coming(m)'
               PROVE  \E f \in {"event", "replay"} :
                         call'[<<m, f>>].pc \in {"handle", "trigger"} /\ call'[<<m, f>>].obj = cache[m]
    BY DEF ToldOk
  <2>1. PICK f \in {"event", "replay"} :
           call[<<m, f>>].pc \in {"handle", "trigger"} /\ call[<<m, f>>].obj = cache[m]
    BY <1>7 DEF Inv, ToldOk
  <2>2. <<m, f>> \in Items /\ <<m, f>> \notin queue'
    BY <2>1, ItemFacts DEF Froms, Coming
  <2>3. <<m, f>> # i
    BY <2>1, <2>2
  <2>4. QED
    BY <1>2, <2>1, <2>2, <2>3
<1>10. QED
  BY <1>4, <1>5, <1>6, <1>8, <1>9 DEF Inv

\* A call in the critical section moves on after it has told the watchers, or
\* from the handlers to telling them.
LEMMA MoveStep ==
    ASSUME Inv, NEW i \in Items, NEW c \in Call, call' = [call EXCEPT ![i] = c],
           \/ call[i].pc = "handle" /\ c.pc = "trigger"
           \/ call[i].pc = "save" /\ c.pc = "retry",
           c.obj = call[i].obj, c.arg = call[i].arg,
           UNCHANGED <<cache, changes, queue, locker, tokens, waiting, told>>,
           srv' \in [Keys -> Object \cup {Absent}], errors' \in 0..MaxErrors
    PROVE  Inv'
<1>1. call' \in [Items -> Call] /\ call'[i] = c /\ \A j \in Items : j # i => call'[j] = call[j]
  BY CallUpdate DEF Inv
<1>2. TypeOK' /\ DebtOk'
  BY <1>1 DEF Inv, TypeOK, DebtOk, Call, CallPc
<1>3. LockOk'
  BY <1>1 DEF Inv, LockOk, Critical
<1>4. ArgOk'
  BY <1>1 DEF Inv, ArgOk
<1>5. \A m \in Keys, f \in {"event", "replay"} :
         /\ call[<<m, f>>].pc \in {"delay", "lock", "get"} => call'[<<m, f>>].pc \in {"delay", "lock", "get"}
         /\ call[<<m, f>>].pc \in {"handle", "trigger"} => call'[<<m, f>>].pc \in {"handle", "trigger"}
         /\ call'[<<m, f>>].obj = call[<<m, f>>].obj
  <2> SUFFICES ASSUME NEW m \in Keys, NEW f \in {"event", "replay"}
               PROVE  /\ call[<<m, f>>].pc \in {"delay", "lock", "get"} => call'[<<m, f>>].pc \in {"delay", "lock", "get"}
                      /\ call[<<m, f>>].pc \in {"handle", "trigger"} => call'[<<m, f>>].pc \in {"handle", "trigger"}
                      /\ call'[<<m, f>>].obj = call[<<m, f>>].obj
    OBVIOUS
  <2>1. <<m, f>> \in Items
    BY ItemFacts DEF Froms
  <2>2. CASE <<m, f>> = i
    BY <1>1, <2>2
  <2>3. CASE <<m, f>> # i
    BY <1>1, <2>1, <2>3
  <2>4. QED
    BY <2>2, <2>3
<1>6. \A m \in Keys : Coming(m) => Coming(m)'
  BY <1>5 DEF Coming
<1>7. StaleOk'
  BY <1>1, <1>6, ItemFacts DEF Inv, StaleOk
<1>8. ToldOk'
  <2> SUFFICES ASSUME NEW m \in Keys, told[m] # cache[m], ~Coming(m)'
               PROVE  \E f \in {"event", "replay"} :
                         call'[<<m, f>>].pc \in {"handle", "trigger"} /\ call'[<<m, f>>].obj = cache[m]
    BY DEF ToldOk
  <2>1. PICK f \in {"event", "replay"} :
           call[<<m, f>>].pc \in {"handle", "trigger"} /\ call[<<m, f>>].obj = cache[m]
    BY <1>6 DEF Inv, ToldOk
  <2>2. QED
    BY <1>5, <2>1
<1>9. QED
  BY <1>2, <1>3, <1>4, <1>7, <1>8 DEF Inv

\* The watchers are told of the object the call has read: the cached one, or
\* one that another call is going to correct.
LEMMA FireTriggersStep ==
    ASSUME Inv, NEW i \in Items, FireTriggers(i)
    PROVE  Inv'
<1> DEFINE k == Key(i)
           c == [call[i] EXCEPT !.pc = "save"]
<1>1. k \in Keys /\ i = <<k, From(i)>> /\ From(i) \in Froms
  BY ItemFacts
<1>2. /\ call[i].pc = "trigger"
      /\ call' = [call EXCEPT ![i] = c]
      /\ told' = IF call[i].obj = Absent \/ From(i) # "trigger"
                 THEN [told EXCEPT ![k] = call[i].obj] ELSE told
      /\ UNCHANGED <<srv, cache, changes, errors, queue, locker, tokens, waiting>>
  BY DEF FireTriggers, Goto
<1>3. call[i] \in Call
  BY DEF Inv, TypeOK, Call, CallPc
<1>4. c \in Call /\ c.pc = "save" /\ c.arg = call[i].arg /\ call[i].obj \in Object \cup {Absent}
  BY <1>3 DEF Call, CallPc
<1> HIDE DEF c
<1>5. call' \in [Items -> Call] /\ call'[i] = c /\ \A j \in Items : j # i => call'[j] = call[j]
  BY <1>2, <1>4, CallUpdate DEF Inv
<1>6. told' \in [Keys -> Object \cup {Absent}] /\ \A m \in Keys : m # k => told'[m] = told[m]
  BY <1>1, <1>2, <1>4 DEF Inv, TypeOK
<1>7. TypeOK' /\ DebtOk'
  BY <1>2, <1>5, <1>6 DEF Inv, TypeOK, DebtOk, Call, CallPc
<1>8. LockOk'
  BY <1>2, <1>4, <1>5 DEF Inv, LockOk, Critical
<1>9. ArgOk'
  BY <1>2, <1>4, <1>5 DEF Inv, ArgOk
<1>10. \A m \in Keys : Coming(m) => Coming(m)'
  BY <1>2, <1>5, ItemFacts DEF Coming, Froms
<1>11. StaleOk'
  BY <1>2, <1>4, <1>5, <1>10, ItemFacts DEF Inv, StaleOk
<1>12. ToldOk'
  <2> SUFFICES ASSUME NEW m \in Keys, told'[m] # cache[m], ~Coming(m)'
               PROVE  \E f \in {"event", "replay"} :
                         call'[<<m, f>>].pc \in {"handle", "trigger"} /\ call'[<<m, f>>].obj = cache[m]
    BY <1>2 DEF ToldOk
  <2>1. ~Coming(m)
    BY <1>10
  <2>2. m = k => call[i].obj = cache[k]
    BY <1>1, <1>2, <2>1 DEF Inv, StaleOk
  <2>3. told'[m] = told[m] /\ (m = k => From(i) = "trigger")
    BY <1>1, <1>2, <1>6, <2>2 DEF Inv, TypeOK
  <2>4. PICK f \in {"event", "replay"} :
           call[<<m, f>>].pc \in {"handle", "trigger"} /\ call[<<m, f>>].obj = cache[m]
    BY <2>1, <2>3 DEF Inv, ToldOk
  <2>5. <<m, f>> \in Items /\ Key(<<m, f>>) = m /\ From(<<m, f>>) = f /\ f # "trigger"
    BY <2>4, ItemFacts DEF Froms
  <2>6. <<m, f>> # i
    BY <2>3, <2>5
  <2>7. QED
    BY <1>5, <2>4, <2>5, <2>6
<1>13. QED
  BY <1>7, <1>8, <1>9, <1>11, <1>12 DEF Inv

\* The steps of a call that holds the lock.
LEMMA CriticalStep ==
    ASSUME Inv, NEW i \in Items,
           \/ GetError(i) \/ HandleOk(i) \/ HandleError(i)
           \/ SaveNothing(i) \/ SaveStatus(i) \/ SaveConflict(i)
           \/ \E retry \in BOOLEAN : Finish(i, retry)
    PROVE  Inv'
<1> USE HandlerSetAssumption DEF HandlerSetAssumption
<1>1. /\ call[i] \in Call /\ errors \in 0..MaxErrors /\ queue \subseteq Items
      /\ srv \in [Keys -> Object \cup {Absent}]
      /\ errors < MaxErrors => errors + 1 \in 0..MaxErrors
  BY DEF Inv, TypeOK, Call, CallPc
<1>2. Key(i) \in Keys /\ <<Key(i), "trigger">> \in Items
  BY ItemFacts DEF Froms
<1>3. ASSUME Fail(i), Critical(i), errors' \in 0..MaxErrors
      PROVE  Inv'
  BY <1>1, <1>3, ReturnStep DEF Fail
<1> DEFINE d(p) == [call[i] EXCEPT !.pc = p]
<1>4. \A p \in CallPc : /\ d(p) \in Call /\ d(p).pc = p
                        /\ d(p).obj = call[i].obj /\ d(p).arg = call[i].arg
  BY <1>1 DEF Call
<1>5. ASSUME NEW p \in CallPc, Goto(i, p)
      PROVE  call' = [call EXCEPT ![i] = d(p)]
  BY <1>5 DEF Goto
<1> HIDE DEF d
<1>6. CASE GetError(i)
  BY <1>1, <1>3, <1>6 DEF GetError, Critical
<1>7. CASE HandleOk(i)
  <2> DEFINE c == [call[i] EXCEPT !.pc = "trigger",
                                  !.new = IF call[i].obj = Absent THEN @ ELSE call[i].obj.spec]
  <2>1. c \in Call /\ c.pc = "trigger" /\ c.obj = call[i].obj /\ c.arg = call[i].arg
    <3>1. (IF call[i].obj = Absent THEN call[i].new ELSE call[i].obj.spec) \in Specs \cup {NoStatus}
      BY <1>1 DEF Call, Object
    <3>2. QED
      BY <1>1, <3>1 DEF Call, CallPc
  <2>2. /\ call[i].pc = "handle" /\ call' = [call EXCEPT ![i] = c]
        /\ UNCHANGED <<srv, cache, changes, errors, queue, locker, tokens, waiting, told>>
    BY <1>7 DEF HandleOk
  <2> HIDE DEF c
  <2>3. QED
    BY <1>1, <2>1, <2>2, MoveStep
<1>8. CASE HandleError(i)
  <2>1. call[i].pc = "handle" /\ errors' \in 0..MaxErrors
    BY <1>1, <1>8 DEF HandleError
  <2>2. CASE Fail(i)
    BY <1>3, <2>1, <2>2 DEF Critical
  <2>3. CASE Goto(i, "trigger") /\ UNCHANGED <<srv, cache, changes, queue, locker, tokens, waiting, told>>
    BY <1>1, <1>4, <1>5, <2>1, <2>3, MoveStep DEF CallPc
  <2>4. QED
    BY <1>8, <2>2, <2>3 DEF HandleError
<1>9. CASE SaveNothing(i)
  BY <1>1, <1>4, <1>5, <1>9, MoveStep DEF SaveNothing, CallPc
<1>10. CASE SaveStatus(i)
  <2> DEFINE o == [srv[Key(i)] EXCEPT !.status = call[i].new, !.rv = @ + 1]
  <2>1. /\ call[i].pc = "save" /\ Goto(i, "retry")
        /\ StatusChanged(i) /\ srv[Key(i)] = call[i].obj
        /\ UNCHANGED <<cache, changes, errors, queue, locker, tokens, waiting, told>>
        /\ srv' = [srv EXCEPT ![Key(i)].status = call[i].new, ![Key(i)].rv = @ + 1]
    BY <1>10 DEF SaveStatus
  <2>2. srv[Key(i)] \in Object /\ call[i].new \in Specs \cup {NoStatus}
    BY <1>1, <2>1 DEF StatusChanged, Call
  <2>3. o \in Object
    <3>1. srv[Key(i)].rv + 1 \in Nat
      BY <2>2 DEF Object
    <3>2. QED
      BY <2>2, <3>1 DEF Object
  <2>4. srv' = [srv EXCEPT ![Key(i)] = o]
    BY <1>1, <1>2, <2>1
  <2> HIDE DEF o
  <2>5. srv' \in [Keys -> Object \cup {Absent}]
    BY <1>1, <2>3, <2>4
  <2>6. QED
    BY <1>1, <1>4, <1>5, <2>1, <2>5, MoveStep DEF CallPc
<1>11. CASE SaveConflict(i)
  <2>1. call[i].pc = "save" /\ UNCHANGED errors
    BY <1>11 DEF SaveConflict
  <2>2. CASE Fail(i)
    BY <1>1, <1>3, <2>1, <2>2 DEF Critical
  <2>3. CASE Goto(i, "retry") /\ UNCHANGED <<srv, cache, changes, queue, locker, tokens, waiting, told>>
    BY <1>1, <1>4, <1>5, <2>1, <2>3, MoveStep DEF CallPc
  <2>4. QED
    BY <1>11, <2>2, <2>3 DEF SaveConflict
<1>12. ASSUME NEW retry \in BOOLEAN, Finish(i, retry)
       PROVE  Inv'
  BY <1>1, <1>2, <1>12, ReturnStep DEF Finish, Critical
<1>13. QED
  BY <1>6, <1>7, <1>8, <1>9, <1>10, <1>11, <1>12

-------------------------------------------------------------------------------
(* The theorems                                                            *)

\* Inv holds before the first event is delivered.
LEMMA InitInv == Init => Inv
<1> SUFFICES ASSUME Init PROVE Inv
  OBVIOUS
<1> USE HandlerSetAssumption DEF HandlerSetAssumption
<1>1. IdleCall \in Call /\ IdleCall.pc = "idle" /\ IdleCall.arg = Absent
  BY DEF IdleCall, Call, CallPc, Object
<1>2. TypeOK
  <2>1. srv \in [Keys -> Object \cup {Absent}]
    BY DEF Init, Object
  <2>2. call \in [Items -> Call]
    BY <1>1 DEF Init
  <2>3. changes \in 0..MaxChanges /\ errors \in 0..MaxErrors /\ tokens \in [Keys -> -1..Burst]
    BY DEF Init
  <2>4. QED
    BY <2>1, <2>2, <2>3 DEF Init, TypeOK, Call, CallPc
<1>3. DebtOk
  BY DEF Init, DebtOk
<1>4. LockOk /\ ArgOk /\ StaleOk
  BY <1>1, ItemFacts DEF Init, LockOk, Critical, ArgOk, StaleOk
<1>5. ToldOk
  BY DEF Init, ToldOk
<1>6. QED
  BY <1>2, <1>3, <1>4, <1>5 DEF Inv

\* No step of a call, of the limiter, of the informer or of the cluster
\* breaks the invariant.
LEMMA NextInv == Inv /\ [Next]_vars => Inv'
<1> SUFFICES ASSUME Inv, [Next]_vars PROVE Inv'
  OBVIOUS
<1>1. ASSUME NEW k \in Keys, Cluster(k) \/ Inform(k) \/ Refill(k) \/ BackoffEnds(k)
      PROVE  Inv'
  BY <1>1, ClusterStep, InformStep
<1>2. ASSUME NEW i \in Items, Step(i)
      PROVE  Inv'
  BY <1>2, BeginStep, CheckDelayStep, LockStep, GetStep, FireTriggersStep, CriticalStep DEF Step
<1>3. ASSUME NEW i \in Items, Error(i)
      PROVE  Inv'
  BY <1>3, CriticalStep DEF Error
<1>4. CASE UNCHANGED vars
  <2>1. TypeOK' /\ DebtOk'
    BY <1>4 DEF Inv, TypeOK, DebtOk, vars
  <2>2. QED
    BY <1>4, <2>1, KeepCalls DEF vars
<1>5. QED
  BY <1>1, <1>2, <1>3, <1>4 DEF Next

\* The invariant holds in every reachable state, for any set of objects, any
\* burst of the limiter and any error handler.
THEOREM Invariance == Spec => []Inv
BY InitInv, NextInv, PTL DEF Spec

\* The objects, calls and limiters hold values of their types: in particular
\* no limiter ever owes more than one token.
THEOREM TypeCorrect == Spec => []TypeOK
<1>1. Inv => TypeOK
  BY DEF Inv
<1>2. QED
  BY <1>1, Invariance, PTL

\* The handlers of one object never run twice at the same time.
THEOREM Exclusion == Spec => []HandlerExclusive
<1>1. Inv => HandlerExclusive
  BY ItemFacts DEF Inv, LockOk, HandlerExclusive
<1>2. QED
  BY <1>1, Invariance, PTL

\* No change of an object is kept from its watchers by the limiter, by a
\* failed handler or by a call that has read an older version.
THEOREM NothingUntold == Spec => []WatchersTold
<1>1. Inv => WatchersTold
  BY DEF Inv, ToldOk, Coming, WatchersTold, Fresh, Key
<1>2. QED
  BY <1>1, Invariance, PTL
===============================================================================
