----------------------------- MODULE SharedProofs -----------------------------
(***************************************************************************)
(* Proofs about Shared: however the registration of a handler, the start   *)
(* of its controller and the arrival of objects interleave, every object   *)
(* reaches every set that watches its kind; and a replica that only        *)
(* preloads runs no handlers.  For any number of sets, kinds, objects and  *)
(* threads, whatever they call.                                            *)
(***************************************************************************)
EXTENDS Shared, TLAPS

(***************************************************************************)
(* The inductive invariant.                                                *)
(***************************************************************************)
Ops == {"preload", "start", "watch"}

\* Where a thread is on its way to watch one kind.
Walking == {"init", "register", "list", "ask", "wantStart", "watched"}
Pcs == Walking \cup {"idle", "watch", "begin", "sync", "starting", "ctrlStart", "finish"}

Runs == [pc : Pcs, op : Ops \cup {None}, kind : Kinds \cup {None}, kinds : SUBSET Kinds,
         load : BOOLEAN, failed : BOOLEAN, host : Kinds \cup {None}]

Works == [obj : Objects \cup {None}, i : Nat, n : Nat, own : Seq(Sets \cup {None})]

\* The types of the variables.
Types ==
    /\ thr \in [Threads -> [run : Runs, rest : Seq(Ops)]]
    /\ made \in SUBSET Kinds /\ ctrl \in [Kinds -> {"none", "made", "error"}]
    /\ started \in SUBSET Kinds /\ running \in SUBSET Kinds /\ synced \in SUBSET Kinds
    /\ arr \in [Kinds -> Seq(Sets \cup {None})] /\ len \in [Kinds -> Nat]
    /\ watching \in SUBSET (Sets \X Kinds)
    /\ cached \in [Kinds -> SUBSET Objects] /\ due \in [Kinds -> SUBSET Objects]
    /\ work \in [Kinds -> Works]

\* The slice of kind g lies in its array, and only the part behind it is empty.
SliceAt(g) == len[g] <= Len(arr[g]) /\ \A i \in 1..len[g] : arr[g][i] \in Sets
SliceOk == \A g \in Kinds : SliceAt(g)

\* The place of a thread tells which kind it is at, whether it holds the lock of
\* the factory, and what has been made of the kind by then.
PcAt(t) ==
    LET r == thr[t].run
    IN /\ r.load => r.pc \in {"sync", "starting", "ctrlStart", "finish"}
       /\ r.pc \in {"sync", "starting", "finish"} => r.load
       /\ r.load \/ r.pc = "begin" => ~r.failed /\ r.op \in {"preload", "start"}
       /\ r.load /\ r.pc \in {"starting", "ctrlStart"} => r.op = "start"
       /\ r.op = "start" /\ r.pc = "finish" => r.kinds = {}
       /\ r.pc \in Walking \cup {"ctrlStart"} => r.kind \in Kinds
       /\ r.pc = "init" => r.kind \in made
       /\ r.pc \in (Walking \ {"init"}) \cup {"ctrlStart"} => ctrl[r.kind] # "none"
       /\ r.pc # "idle" => r.op \in Ops
PcOk == \A t \in Threads : PcAt(t)

\* A kind with a controller has a shared controller, one that is watched has a
\* controller.
MadeOk == /\ \A g \in Kinds : ctrl[g] # "none" => g \in made
          /\ \A p \in watching : ctrl[p[2]] # "none"

\* What a thread has still to call is the end of its program.
RestAt(t) ==
    LET m == Len(Program[t]) - Len(thr[t].rest)
    IN m >= 0 /\ \A i \in 1..Len(thr[t].rest) : thr[t].rest[i] = Program[t][m + i]
RestOk == \A t \in Threads : RestAt(t)

\* The lock of a handler set, watchingLock, has one holder.
HoldsWatch(t) == thr[t].run.pc \notin {"idle", "begin"} /\ ~thr[t].run.load
LockOk == \A t, u \in Threads : t # u /\ HoldsWatch(t) /\ HoldsWatch(u) => SetOf[t] # SetOf[u]

-------------------------------------------------------------------------------
(* Every set gets every object                                             *)

\* Until the context ends, a controller that has been started runs, with an
\* informer that has synced.
FlagsOk == running = started /\ started \subseteq synced

\* The handler of set s is in the slice of g.
Registered(s, g) == \E i \in 1..len[g] : arr[g][i] = s

\* The set of a thread is registered when Register has returned.
RegisteredAt(t) ==
    thr[t].run.pc \in {"list", "ask", "wantStart", "watched"} \/ (thr[t].run.pc = "ctrlStart" /\ ~thr[t].run.load)
    => Registered(SetOf[t], thr[t].run.kind)
RegisteredOk == /\ \A p \in watching : Registered(p[1], p[2])
                /\ \A t \in Threads : RegisteredAt(t)

\* An OnChange sees the entries that the slice had when it began, also in an
\* array that append has left behind.
WorkAt(g) ==
    /\ work[g].i >= 1
    /\ work[g].obj # None =>
         /\ work[g].n <= len[g]
         /\ work[g].own # <<>> => /\ work[g].n <= Len(work[g].own)
                                  /\ \A i \in 1..work[g].n : work[g].own[i] = arr[g][i]
WorkOk == \A g \in Kinds : WorkAt(g)

\* Object x of a started kind g, for the set in entry i: it has seen it, it will
\* when the key is processed or the OnChange under way comes to the entry, or
\* RegisterHandler has yet to list the objects.
Reaches(g, i, x) ==
    \/ x \in due[g]
    \/ <<arr[g][i], g, x>> \in seen
    \/ work[g].obj = x /\ work[g].i <= i /\ i <= work[g].n
    \/ \E t \in Threads : thr[t].run.pc = "list" /\ thr[t].run.kind = g /\ SetOf[t] = arr[g][i]
ReachOk == \A g \in started : \A i \in 1..len[g] : \A x \in cached[g] : Reaches(g, i, x)

-------------------------------------------------------------------------------
(* Every watched kind gets started                                         *)

\* Start was called and has failed; it has not come to loadAndStart; it will
\* still start g.
FailedAt(t) == thr[t].run.op = "start" /\ thr[t].run.failed
AheadAt(t) == thr[t].run.op = "start" /\ ~thr[t].run.load /\ thr[t].run.pc # "idle"
WillStartAt(t, g) ==
    /\ thr[t].run.op = "start" /\ thr[t].run.load
    /\ g \in thr[t].run.kinds \/ (thr[t].run.pc = "ctrlStart" /\ thr[t].run.kind = g)

StartFailed == \E t \in Threads : FailedAt(t)
StartAhead == \E t \in Threads : AheadAt(t)
WillStart(g) == \E t \in Threads : WillStartAt(t, g)

\* A kind is watched, or HasStarted has just told a thread how to go on.
Watches(g) == \/ \E s \in Sets : <<s, g>> \in watching
              \/ \E t \in Threads : thr[t].run.pc = "watched" /\ thr[t].run.kind = g

StartOk ==
    StartCalled => \/ StartFailed \/ StartAhead
                   \/ \A g \in Kinds : Watches(g) /\ ctrl[g] = "made" => g \in started \/ WillStart(g)

\* The flag of the Backend is set when a Start has returned; whoever holds the
\* lock of the factory is about to set it.
BackendOk ==
    StartCalled => backend \/ StartFailed \/ StartAhead \/ StartedLocked

Live == FlagsOk /\ RegisteredOk /\ WorkOk /\ ReachOk /\ StartOk /\ BackendOk

\* The inductive invariant.
Base == Types /\ SliceOk /\ PcOk /\ MadeOk /\ RestOk /\ LockOk
Inv == Base /\ (~cancelled => Live)

-------------------------------------------------------------------------------
(* A replica that only preloads                                            *)

\* The set of t watches all its kinds.
AllWatched(t) == \A g \in KindsOf[SetOf[t]] : <<SetOf[t], g>> \in watching

FollowerAt(t) ==
    LET r == thr[t].run
    IN /\ r.pc # "idle" => r.op = "preload" /\ "preload" \in ToSet(Program[t])
       /\ r.pc \notin {"wantStart", "starting", "ctrlStart"}
       /\ r.pc = "begin" \/ r.load => AllWatched(t)
       /\ HoldsWatch(t) =>
            /\ r.kinds \subseteq KindsOf[SetOf[t]]
            /\ r.pc \in Walking => r.kind \in KindsOf[SetOf[t]] /\ <<SetOf[t], r.kind>> \notin watching
            /\ \A g \in KindsOf[SetOf[t]] : \/ <<SetOf[t], g>> \in watching \/ g \in r.kinds \/ r.failed
                                            \/ r.pc \in Walking /\ r.kind = g

\* Until Start is called nothing runs, and what is preloaded is watched before
\* the flag of the Backend is set.
Follower ==
    /\ running = {} /\ \A g \in Kinds : work[g].obj = None
    /\ backend => \A t \in Threads : "preload" \in ToSet(Program[t]) => AllWatched(t)
    /\ \A t \in Threads : FollowerAt(t)

FollowerInv == Base /\ (StartCalled \/ Follower)

-------------------------------------------------------------------------------
(* What a step changes, field by field.                                    *)

ThreadRecs == [run : Runs, rest : Seq(Ops)]

Others(t) == \A u \in Threads \ {t} : thr'[u] = thr[u]

\* Thread t goes on with its call ...
Moves(t, pc, kind, kinds, load, failed) ==
    /\ thr'[t].run.pc = pc /\ thr'[t].run.kind = kind /\ thr'[t].run.kinds = kinds
    /\ thr'[t].run.load = load /\ thr'[t].run.failed = failed
    /\ thr'[t].run.op = thr[t].run.op /\ thr'[t].run.host = thr[t].run.host
    /\ thr'[t].rest = thr[t].rest
    /\ Others(t)

\* ... or returns from it.
Leaves(t) ==
    /\ thr'[t].run.pc = "idle" /\ thr'[t].run.kind = None /\ thr'[t].run.kinds = {}
    /\ thr'[t].run.load = FALSE /\ thr'[t].run.failed = FALSE
    /\ thr'[t].run.op = None /\ thr'[t].run.host = None
    /\ thr'[t].rest = thr[t].rest
    /\ Others(t)

\* What a thread is, under its type.
LEMMA ThreadType ==
    ASSUME Types, NEW t \in Threads
    PROVE  /\ thr[t] \in ThreadRecs /\ thr[t].run \in Runs /\ thr[t].rest \in Seq(Ops)
           /\ thr[t].run.pc \in Pcs /\ thr[t].run.op \in Ops \cup {None}
           /\ thr[t].run.kind \in Kinds \cup {None} /\ thr[t].run.kinds \in SUBSET Kinds
           /\ thr[t].run.load \in BOOLEAN /\ thr[t].run.failed \in BOOLEAN
           /\ thr[t].run.host \in Kinds \cup {None}
BY DEF Types, ThreadRecs, Runs

LEMMA GoEffect ==
    ASSUME Types, NEW t \in Threads, NEW pc \in Pcs, Go(t, pc)
    PROVE  /\ Moves(t, pc, thr[t].run.kind, thr[t].run.kinds, thr[t].run.load, thr[t].run.failed)
           /\ thr' \in [Threads -> ThreadRecs]
<1> DEFINE run == [thr[t].run EXCEPT !.pc = pc]
<1>1. run \in Runs
  BY ThreadType DEF Runs
<1>2. thr' = [thr EXCEPT ![t] = [thr[t] EXCEPT !.run = run]]
  BY DEF Go, Types
<1>3. [thr[t] EXCEPT !.run = run] \in ThreadRecs
  BY <1>1, ThreadType DEF ThreadRecs
<1>4. thr' \in [Threads -> ThreadRecs] /\ Others(t)
  BY <1>2, <1>3 DEF Types, ThreadRecs, Others
<1>5. thr'[t] = [thr[t] EXCEPT !.run = run]
  BY <1>2 DEF Types
<1>6. thr'[t].run = run /\ thr'[t].rest = thr[t].rest
  BY <1>5, ThreadType DEF ThreadRecs
<1>7. QED
  BY <1>4, <1>6, ThreadType DEF Moves, Runs

LEMMA GoKindEffect ==
    ASSUME Types, NEW t \in Threads, NEW pc \in Pcs, NEW g \in Kinds, GoKind(t, pc, g)
    PROVE  /\ Moves(t, pc, g, thr[t].run.kinds \ {g}, thr[t].run.load, thr[t].run.failed)
           /\ thr' \in [Threads -> ThreadRecs]
<1> DEFINE run == [thr[t].run EXCEPT !.pc = pc, !.kind = g, !.kinds = @ \ {g}]
<1>1. run \in Runs
  BY ThreadType DEF Runs
<1>2. thr' = [thr EXCEPT ![t] = [thr[t] EXCEPT !.run = run]]
  BY ThreadType DEF GoKind, Types, Runs, ThreadRecs
<1>3. [thr[t] EXCEPT !.run = run] \in ThreadRecs
  BY <1>1, ThreadType DEF ThreadRecs
<1>4. thr' \in [Threads -> ThreadRecs] /\ Others(t)
  BY <1>2, <1>3 DEF Types, ThreadRecs, Others
<1>5. thr'[t] = [thr[t] EXCEPT !.run = run]
  BY <1>2 DEF Types
<1>6. thr'[t].run = run /\ thr'[t].rest = thr[t].rest
  BY <1>5, ThreadType DEF ThreadRecs
<1>7. QED
  BY <1>4, <1>6, ThreadType DEF Moves, Runs

LEMMA LeaveEffect ==
    ASSUME Types, NEW t \in Threads, Leave(t)
    PROVE  Leaves(t) /\ thr' \in [Threads -> ThreadRecs]
<1>1. Idle \in Runs
  BY DEF Idle, Runs, Pcs
<1>2. thr' = [thr EXCEPT ![t] = [thr[t] EXCEPT !.run = Idle]]
  BY DEF Leave, Types
<1>3. [thr[t] EXCEPT !.run = Idle] \in ThreadRecs
  BY <1>1, ThreadType DEF ThreadRecs
<1>4. thr' \in [Threads -> ThreadRecs] /\ Others(t)
  BY <1>2, <1>3 DEF Types, ThreadRecs, Others
<1>5. thr'[t] = [thr[t] EXCEPT !.run = Idle]
  BY <1>2 DEF Types
<1>6. thr'[t].run = Idle /\ thr'[t].rest = thr[t].rest
  BY <1>5, ThreadType DEF ThreadRecs
<1>7. QED
  BY <1>4, <1>6 DEF Leaves, Idle

\* Where Start of a shared controller returns to.
Back(t, g, err) ==
    IF ~thr[t].run.load THEN (IF err THEN "watch" ELSE "watched")
    ELSE IF err THEN "idle"
    ELSE IF thr[t].run.kinds \subseteq {g} THEN "finish" ELSE "starting"

LEMMA AfterEffect ==
    ASSUME Types, NEW t \in Threads, NEW g \in Kinds, NEW err \in BOOLEAN, After(t, g, err)
    PROVE  /\ Moves(t, Back(t, g, err), thr[t].run.kind, thr[t].run.kinds \ {g},
                    thr[t].run.load /\ ~err, thr[t].run.failed \/ err)
           /\ thr' \in [Threads -> ThreadRecs]
<1> DEFINE pc == Back(t, g, err)
           kinds == thr[t].run.kinds \ {g}
           load == thr[t].run.load /\ ~err
           failed == thr[t].run.failed \/ err
           run == [thr[t].run EXCEPT !.pc = pc, !.kinds = kinds, !.load = load, !.failed = failed]
<1>0. pc \in Pcs /\ kinds \in SUBSET Kinds /\ load \in BOOLEAN /\ failed \in BOOLEAN
  BY ThreadType DEF Back, Pcs, Walking
<1>a. thr' = [thr EXCEPT ![t].run.pc = pc, ![t].run.kinds = kinds, ![t].run.load = load,
                         ![t].run.failed = failed]
  BY DEF After, Back
<1> HIDE DEF pc, kinds, load, failed
<1>1. run \in Runs
  BY <1>0, ThreadType DEF Runs
<1>2. thr' = [thr EXCEPT ![t] = [thr[t] EXCEPT !.run = run]]
  BY <1>a, ThreadType DEF Types, Runs, ThreadRecs
<1>3. [thr[t] EXCEPT !.run = run] \in ThreadRecs
  BY <1>1, ThreadType DEF ThreadRecs
<1>4. thr' \in [Threads -> ThreadRecs] /\ Others(t)
  BY <1>2, <1>3 DEF Types, ThreadRecs, Others
<1>5. thr'[t] = [thr[t] EXCEPT !.run = run]
  BY <1>2 DEF Types
<1>6. thr'[t].run = run /\ thr'[t].rest = thr[t].rest
  BY <1>5, ThreadType DEF ThreadRecs
<1>7. Moves(t, pc, thr[t].run.kind, kinds, load, failed)
  BY <1>4, <1>6, ThreadType DEF Moves, Runs
<1>8. QED
  BY <1>4, <1>7 DEF pc, kinds, load, failed

-------------------------------------------------------------------------------
(* The same for the actions                                                *)

LEMMA CallEffect ==
    ASSUME Types, NEW t \in Threads, NEW host \in Kinds \cup {None}, Call(t, host)
    PROVE  /\ thr[t].run.pc = "idle" /\ ~thr[t].run.failed /\ ~WatchLocked(SetOf[t])
           /\ thr[t].rest # <<>> /\ Head(thr[t].rest) \in Ops
           /\ Head(thr[t].rest) = "watch" => host \in Kinds /\ work[host].obj # None
           /\ thr'[t].rest = Tail(thr[t].rest) /\ thr'[t].run.op = Head(thr[t].rest)
           /\ thr'[t].run.pc = "watch" /\ thr'[t].run.load = FALSE /\ thr'[t].run.failed = FALSE
           /\ thr'[t].run.kinds = IF Head(thr[t].rest) = "watch" THEN LateKinds ELSE KindsOf[SetOf[t]]
           /\ Others(t) /\ thr' \in [Threads -> ThreadRecs]
           /\ UNCHANGED <<flags, slice, cache, due, workVars, cancelled>>
<1> DEFINE op == Head(thr[t].rest)
           kinds == IF op = "watch" THEN LateKinds ELSE KindsOf[SetOf[t]]
           run == [Idle EXCEPT !.pc = "watch", !.op = op, !.host = host, !.kinds = kinds]
           new == [thr[t] EXCEPT !.rest = Tail(thr[t].rest), !.run = run]
<1>1. thr[t].rest # <<>> /\ thr[t].rest \in Seq(Ops)
  BY ThreadType DEF Call
<1>2. op \in Ops /\ Tail(thr[t].rest) \in Seq(Ops)
  BY <1>1
<1>3. kinds \in SUBSET Kinds
  BY SharedAssumption
<1>4. thr' = [thr EXCEPT ![t].rest = Tail(@), ![t].run = run]
  BY DEF Call
<1> HIDE DEF op, kinds
<1>5. run \in Runs /\ run.pc = "watch" /\ run.op = op /\ run.kinds = kinds /\ run.load = FALSE /\ run.failed = FALSE
  BY <1>2, <1>3 DEF Runs, Idle, Pcs
<1> HIDE DEF run
<1>6. thr' = [thr EXCEPT ![t] = new]
  BY <1>4 DEF Types
<1>7. new \in ThreadRecs /\ new.run = run /\ new.rest = Tail(thr[t].rest)
  BY <1>2, <1>5, ThreadType DEF ThreadRecs
<1>8. thr' \in [Threads -> ThreadRecs] /\ Others(t) /\ thr'[t] = new
  BY <1>6, <1>7 DEF Types, ThreadRecs, Others
<1>9. QED
  BY <1>1, <1>2, <1>5, <1>7, <1>8 DEF Call, At, op, kinds

LEMMA WatchEndEffect ==
    ASSUME Types, NEW t \in Threads, WatchEnd(t)
    PROVE  /\ thr[t].run.pc = "watch" /\ thr[t].run.kinds = {}
           /\ \/ thr[t].run.op = "watch" /\ Leaves(t)
              \/ thr[t].run.op # "watch" /\ Moves(t, IF thr[t].run.failed THEN "idle" ELSE "begin", thr[t].run.kind, thr[t].run.kinds, thr[t].run.load, thr[t].run.failed)
           /\ thr' \in [Threads -> ThreadRecs]
           /\ UNCHANGED <<flags, slice, cache, due, workVars, cancelled>>
<1>1. "idle" \in Pcs /\ "begin" \in Pcs
  BY DEF Pcs
<1>2. (IF thr[t].run.failed THEN "idle" ELSE "begin") \in Pcs
  BY <1>1
<1>3. QED
  BY <1>2, GoEffect, LeaveEffect DEF WatchEnd, At

LEMMA ForKindEffect ==
    ASSUME Types, NEW t \in Threads, NEW g \in Kinds, ForKind(t, g)
    PROVE  /\ thr[t].run.pc = "watch" /\ g \in thr[t].run.kinds
           /\ \/ /\ <<SetOf[t], g>> \in watching /\ made' = made
                 /\ Moves(t, "watch", g, thr[t].run.kinds \ {g}, thr[t].run.load, thr[t].run.failed)
              \/ /\ <<SetOf[t], g>> \notin watching /\ made' = made \cup {g}
                 /\ \/ Moves(t, "watch", thr[t].run.kind, thr[t].run.kinds \ {g}, thr[t].run.load, TRUE)
                    \/ Moves(t, "init", g, thr[t].run.kinds \ {g}, thr[t].run.load, thr[t].run.failed)
           /\ thr' \in [Threads -> ThreadRecs]
           /\ UNCHANGED <<ctrl, started, running, slice, watching, backend, cache, due, workVars, cancelled>>
<1>1. "watch" \in Pcs /\ "init" \in Pcs
  BY DEF Pcs, Walking
<1>2. CASE <<SetOf[t], g>> \in watching
  BY <1>1, <1>2, GoKindEffect DEF ForKind, At
<1>3. CASE <<SetOf[t], g>> \notin watching /\ ~(g \in Indexed /\ (g \in Broken \/ HasIndexers(g)))
  BY <1>1, <1>3, GoKindEffect DEF ForKind, At
<1>4. CASE <<SetOf[t], g>> \notin watching /\ g \in Indexed /\ (g \in Broken \/ HasIndexers(g))
  <2> DEFINE kinds == thr[t].run.kinds \ {g}
             run == [thr[t].run EXCEPT !.kinds = kinds, !.failed = TRUE]
  <2>1. thr' = [thr EXCEPT ![t].run.kinds = kinds, ![t].run.failed = TRUE]
    BY <1>4 DEF ForKind
  <2>2. kinds \in SUBSET Kinds
    BY ThreadType
  <2> HIDE DEF kinds
  <2>3. run \in Runs
    BY <2>2, ThreadType DEF Runs
  <2>4. thr' = [thr EXCEPT ![t] = [thr[t] EXCEPT !.run = run]]
    BY <2>1, ThreadType DEF Types, Runs, ThreadRecs
  <2>5. [thr[t] EXCEPT !.run = run] \in ThreadRecs
    BY <2>3, ThreadType DEF ThreadRecs
  <2>6. thr' \in [Threads -> ThreadRecs] /\ Others(t) /\ thr'[t] = [thr[t] EXCEPT !.run = run]
    BY <2>4, <2>5 DEF Types, ThreadRecs, Others
  <2>7. thr'[t].run = run /\ thr'[t].rest = thr[t].rest
    BY <2>6, ThreadType DEF ThreadRecs
  <2>8. Moves(t, thr[t].run.pc, thr[t].run.kind, kinds, thr[t].run.load, TRUE)
    BY <2>6, <2>7, ThreadType DEF Moves, Runs
  <2>9. QED
    BY <1>4, <2>6, <2>8 DEF ForKind, At, kinds
<1>5. QED
  BY <1>2, <1>3, <1>4

LEMMA InitControllerEffect ==
    ASSUME Types, PcOk, NEW t \in Threads, InitController(t)
    PROVE  /\ thr[t].run.pc = "init" /\ thr[t].run.kind \in Kinds
           /\ Moves(t, "register", thr[t].run.kind, thr[t].run.kinds, thr[t].run.load, thr[t].run.failed)
           /\ ctrl' = [ctrl EXCEPT ![thr[t].run.kind] = IF @ # "none" THEN @
                                                          ELSE IF thr[t].run.kind \in Broken THEN "error" ELSE "made"]
           /\ thr' \in [Threads -> ThreadRecs]
           /\ UNCHANGED <<made, started, running, slice, watching, backend, cache, due, workVars, cancelled>>
<1>1. "register" \in Pcs
  BY DEF Pcs, Walking
<1>2. thr[t].run.kind \in Kinds
  BY DEF InitController, At, PcOk, PcAt, Walking
<1>3. QED
  BY <1>1, <1>2, GoEffect DEF InitController, At, Kind

LEMMA ListExistingEffect ==
    ASSUME Types, PcOk, NEW t \in Threads, ListExisting(t)
    PROVE  /\ thr[t].run.pc = "list" /\ thr[t].run.kind \in Kinds
           /\ Moves(t, "ask", thr[t].run.kind, thr[t].run.kinds, thr[t].run.load, thr[t].run.failed)
           /\ due' = IF thr[t].run.kind \in started /\ ~cancelled
                     THEN [due EXCEPT ![thr[t].run.kind] = @ \cup cached[thr[t].run.kind]] ELSE due
           /\ thr' \in [Threads -> ThreadRecs]
           /\ UNCHANGED <<flags, slice, cache, workVars, cancelled>>
<1>1. "ask" \in Pcs
  BY DEF Pcs, Walking
<1>2. thr[t].run.kind \in Kinds
  BY DEF ListExisting, At, PcOk, PcAt, Walking
<1>3. QED
  BY <1>1, <1>2, GoEffect DEF ListExisting, At, Kind

LEMMA WatchedEffect ==
    ASSUME Types, PcOk, NEW t \in Threads, Watched(t)
    PROVE  /\ thr[t].run.pc = "watched" /\ thr[t].run.kind \in Kinds
           /\ Moves(t, "watch", thr[t].run.kind, thr[t].run.kinds, thr[t].run.load, thr[t].run.failed)
           /\ watching' = watching \cup {<<SetOf[t], thr[t].run.kind>>}
           /\ thr' \in [Threads -> ThreadRecs]
           /\ UNCHANGED <<made, ctrl, started, running, slice, backend, cache, due, workVars, cancelled>>
<1>1. "watch" \in Pcs
  BY DEF Pcs, Walking
<1>2. thr[t].run.kind \in Kinds
  BY DEF Watched, At, PcOk, PcAt, Walking
<1>3. QED
  BY <1>1, <1>2, GoEffect DEF Watched, At, Kind

LEMMA HasStartedEffect ==
    ASSUME Types, NEW t \in Threads, HasStarted(t)
    PROVE  /\ thr[t].run.pc = "ask" /\ ~StartedLocked
           /\ Moves(t, IF backend THEN "wantStart" ELSE "watched", thr[t].run.kind, thr[t].run.kinds, thr[t].run.load, thr[t].run.failed)
           /\ thr' \in [Threads -> ThreadRecs]
           /\ UNCHANGED <<flags, slice, cache, due, workVars, cancelled>>
<1>1. (IF backend THEN "wantStart" ELSE "watched") \in Pcs
  BY DEF Pcs, Walking
<1>2. QED
  BY <1>1, GoEffect DEF HasStarted, At

LEMMA SyncedEffect ==
    ASSUME Types, NEW t \in Threads, Synced(t)
    PROVE  /\ thr[t].run.pc = "sync"
           /\ Moves(t, IF thr[t].run.op = "start" /\ thr[t].run.kinds # {} THEN "starting" ELSE "finish",
                    thr[t].run.kind, thr[t].run.kinds, thr[t].run.load, thr[t].run.failed)
           /\ thr' \in [Threads -> ThreadRecs]
           /\ UNCHANGED <<flags, slice, cache, due, workVars, cancelled>>
<1>1. (IF thr[t].run.op = "start" /\ thr[t].run.kinds # {} THEN "starting" ELSE "finish") \in Pcs
  BY DEF Pcs
<1>2. QED
  BY <1>1, GoEffect DEF Synced, At

LEMMA FinishEffect ==
    ASSUME Types, NEW t \in Threads, Finish(t)
    PROVE  /\ thr[t].run.pc = "finish" /\ Leaves(t)
           /\ (backend => backend') /\ (~cancelled => backend')
           /\ thr' \in [Threads -> ThreadRecs]
           /\ UNCHANGED <<made, ctrl, started, running, slice, watching, cache, due, workVars, cancelled>>
BY LeaveEffect DEF Finish, At

LEMMA BeginEffect ==
    ASSUME Types, NEW t \in Threads, Begin(t)
    PROVE  /\ thr[t].run.pc = "begin" /\ ~StartedLocked
           /\ Moves(t, "sync", thr[t].run.kind, made, TRUE, thr[t].run.failed)
           /\ thr' \in [Threads -> ThreadRecs]
           /\ UNCHANGED <<flags, slice, synced, cached, due, workVars, cancelled>>
<1> DEFINE run == [thr[t].run EXCEPT !.pc = "sync", !.load = TRUE, !.kinds = made]
<1>1. thr' = [thr EXCEPT ![t].run.pc = "sync", ![t].run.load = TRUE, ![t].run.kinds = made]
  BY DEF Begin
<1>2. run \in Runs
  BY ThreadType DEF Runs, Types, Pcs
<1>3. thr' = [thr EXCEPT ![t] = [thr[t] EXCEPT !.run = run]]
  BY <1>1, ThreadType DEF Types, Runs, ThreadRecs
<1>4. [thr[t] EXCEPT !.run = run] \in ThreadRecs
  BY <1>2, ThreadType DEF ThreadRecs
<1>5. thr' \in [Threads -> ThreadRecs] /\ Others(t) /\ thr'[t] = [thr[t] EXCEPT !.run = run]
  BY <1>3, <1>4 DEF Types, ThreadRecs, Others
<1>6. thr'[t].run = run /\ thr'[t].rest = thr[t].rest
  BY <1>5, ThreadType DEF ThreadRecs
<1>7. Moves(t, "sync", thr[t].run.kind, made, TRUE, thr[t].run.failed)
  BY <1>5, <1>6, ThreadType DEF Moves, Runs
<1>8. QED
  BY <1>5, <1>7 DEF Begin, At

LEMMA StartSharedEffect ==
    ASSUME Types, NEW t \in Threads, NEW g \in Kinds, StartShared(t, g)
    PROVE  /\ \/ thr[t].run.pc = "wantStart" /\ g = thr[t].run.kind
              \/ thr[t].run.pc = "starting" /\ g \in thr[t].run.kinds
           /\ \/ /\ ctrl[g] # "made" \/ g \in started
                 /\ Moves(t, Back(t, g, ctrl[g] = "error"), thr[t].run.kind, thr[t].run.kinds \ {g},
                          thr[t].run.load /\ ctrl[g] # "error", thr[t].run.failed \/ ctrl[g] = "error")
              \/ /\ ctrl[g] = "made" /\ g \notin started
                 /\ Moves(t, "ctrlStart", g, thr[t].run.kinds \ {g}, thr[t].run.load, thr[t].run.failed)
           /\ thr' \in [Threads -> ThreadRecs]
           /\ UNCHANGED <<flags, slice, cache, due, workVars, cancelled>>
<1>1. "ctrlStart" \in Pcs
  BY DEF Pcs
<1>2. CASE ctrl[g] # "made" \/ g \in started
  <2>1. \A err \in BOOLEAN : After(t, g, err) =>
           /\ Moves(t, Back(t, g, err), thr[t].run.kind, thr[t].run.kinds \ {g},
                    thr[t].run.load /\ ~err, thr[t].run.failed \/ err)
           /\ thr' \in [Threads -> ThreadRecs]
    BY AfterEffect
  <2>2. After(t, g, ctrl[g] = "error") /\ (ctrl[g] = "error") \in BOOLEAN
    BY <1>2 DEF StartShared
  <2>3. /\ Moves(t, Back(t, g, ctrl[g] = "error"), thr[t].run.kind, thr[t].run.kinds \ {g},
                 thr[t].run.load /\ ctrl[g] # "error", thr[t].run.failed \/ ctrl[g] = "error")
        /\ thr' \in [Threads -> ThreadRecs]
    BY <2>1, <2>2, Zenon
  <2>4. QED
    BY <1>2, <2>3 DEF StartShared, At, Kind
<1>3. CASE ~(ctrl[g] # "made" \/ g \in started)
  BY <1>1, <1>3, GoKindEffect DEF StartShared, At, Kind
<1>4. QED
  BY <1>2, <1>3

LEMMA CtrlStartedEffect ==
    ASSUME Types, PcOk, NEW t \in Threads, CtrlStarted(t)
    PROVE  /\ thr[t].run.kind \in Kinds
           /\ thr[t].run.pc = "ctrlStart"
           /\ thr[t].run.kind \in running \cup synced
           /\ Moves(t, IF ~thr[t].run.load THEN "watched" ELSE IF thr[t].run.kinds \subseteq {thr[t].run.kind} THEN "finish" ELSE "starting",
                    thr[t].run.kind, thr[t].run.kinds \ {thr[t].run.kind}, thr[t].run.load, thr[t].run.failed)
           /\ running' = running \cup {thr[t].run.kind} /\ started' = started \cup {thr[t].run.kind}
           /\ due' = IF thr[t].run.kind \in running \/ cancelled THEN due
                     ELSE [due EXCEPT ![thr[t].run.kind] = @ \cup cached[thr[t].run.kind]]
           /\ thr' \in [Threads -> ThreadRecs]
           /\ UNCHANGED <<made, ctrl, slice, watching, backend, cache, workVars, cancelled>>
<1> DEFINE g == thr[t].run.kind
<1>0. g \in Kinds
  BY DEF CtrlStarted, At, PcOk, PcAt, Walking
<1>1. \A err \in BOOLEAN : After(t, g, err) =>
         /\ Moves(t, Back(t, g, err), thr[t].run.kind, thr[t].run.kinds \ {g},
                  thr[t].run.load /\ ~err, thr[t].run.failed \/ err)
         /\ thr' \in [Threads -> ThreadRecs]
  BY <1>0, AfterEffect
<1>2. After(t, g, FALSE)
  BY DEF CtrlStarted, Kind
<1>3. /\ Moves(t, Back(t, g, FALSE), thr[t].run.kind, thr[t].run.kinds \ {g},
               thr[t].run.load /\ ~FALSE, thr[t].run.failed \/ FALSE)
      /\ thr' \in [Threads -> ThreadRecs]
  BY <1>1, <1>2, Zenon
<1>4. Back(t, g, FALSE) = IF ~thr[t].run.load THEN "watched"
                          ELSE IF thr[t].run.kinds \subseteq {thr[t].run.kind} THEN "finish" ELSE "starting"
  BY DEF Back
<1>5. (thr[t].run.load /\ ~FALSE) = thr[t].run.load /\ (thr[t].run.failed \/ FALSE) = thr[t].run.failed
  BY ThreadType
<1>6. QED
  BY <1>0, <1>3, <1>4, <1>5 DEF CtrlStarted, At, Kind

LEMMA CtrlFailedEffect ==
    ASSUME Types, PcOk, NEW t \in Threads, CtrlFailed(t)
    PROVE  /\ thr[t].run.kind \in Kinds
           /\ thr[t].run.pc = "ctrlStart" /\ cancelled
           /\ Moves(t, IF thr[t].run.load THEN "idle" ELSE "watch", thr[t].run.kind, thr[t].run.kinds \ {thr[t].run.kind},
                    FALSE, TRUE)
           /\ thr' \in [Threads -> ThreadRecs]
           /\ UNCHANGED <<flags, slice, cache, due, workVars, cancelled>>
<1> DEFINE g == thr[t].run.kind
<1>0. g \in Kinds
  BY DEF CtrlFailed, At, PcOk, PcAt, Walking
<1>1. \A err \in BOOLEAN : After(t, g, err) =>
         /\ Moves(t, Back(t, g, err), thr[t].run.kind, thr[t].run.kinds \ {g},
                  thr[t].run.load /\ ~err, thr[t].run.failed \/ err)
         /\ thr' \in [Threads -> ThreadRecs]
  BY <1>0, AfterEffect
<1>2. After(t, g, TRUE)
  BY DEF CtrlFailed, Kind
<1>3. /\ Moves(t, Back(t, g, TRUE), thr[t].run.kind, thr[t].run.kinds \ {g},
               thr[t].run.load /\ ~TRUE, thr[t].run.failed \/ TRUE)
      /\ thr' \in [Threads -> ThreadRecs]
  BY <1>1, <1>2, Zenon
<1>4. Back(t, g, TRUE) = IF thr[t].run.load THEN "idle" ELSE "watch"
  BY DEF Back
<1>5. (thr[t].run.load /\ ~TRUE) = FALSE /\ (thr[t].run.failed \/ TRUE) = TRUE
  BY ThreadType
<1>6. QED
  BY <1>0, <1>3, <1>4, <1>5 DEF CtrlFailed, At, Kind

LEMMA RegisterEffect ==
    ASSUME Types, PcOk, SliceOk, NEW t \in Threads, Register(t)
    PROVE  /\ thr[t].run.kind \in Kinds
           /\ thr[t].run.pc = "register" /\ Moves(t, "list", thr[t].run.kind, thr[t].run.kinds, thr[t].run.load, thr[t].run.failed)
           /\ len' = [len EXCEPT ![thr[t].run.kind] = @ + 1]
           /\ arr' \in [Kinds -> Seq(Sets \cup {None})]
           /\ \A h \in Kinds \ {thr[t].run.kind} : arr'[h] = arr[h] /\ work'[h] = work[h]
           /\ len[thr[t].run.kind] + 1 <= Len(arr'[thr[t].run.kind])
           /\ arr'[thr[t].run.kind][len[thr[t].run.kind] + 1] = SetOf[t]
           /\ \A i \in 1..len[thr[t].run.kind] : arr'[thr[t].run.kind][i] = arr[thr[t].run.kind][i]
           /\ work' \in [Kinds -> Works]
           /\ work'[thr[t].run.kind].obj = work[thr[t].run.kind].obj
           /\ work'[thr[t].run.kind].i = work[thr[t].run.kind].i /\ work'[thr[t].run.kind].n = work[thr[t].run.kind].n
           /\ \/ work'[thr[t].run.kind].own = work[thr[t].run.kind].own
              \/ work'[thr[t].run.kind].own = arr[thr[t].run.kind]
           /\ thr' \in [Threads -> ThreadRecs]
           /\ UNCHANGED <<flags, cache, due, seen, panicked, cancelled>>
<1> DEFINE g == thr[t].run.kind
           room == len[g] < Len(arr[g])
           more == [i \in 1..(IF len[g] = 0 THEN 1 ELSE 2 * len[g]) |-> IF i <= len[g] THEN arr[g][i] ELSE None]
           base == IF room THEN arr[g] ELSE more
           new == [base EXCEPT ![len[g] + 1] = SetOf[t]]
           own == IF room \/ work[g].own # <<>> \/ work[g].obj = None THEN work[g].own ELSE arr[g]
<1>0. g \in Kinds
  BY DEF Register, At, PcOk, PcAt, Walking
<1>1. g \in Kinds /\ len[g] \in Nat /\ arr[g] \in Seq(Sets \cup {None}) /\ len[g] <= Len(arr[g]) /\ work[g] \in Works
  BY <1>0 DEF Types, SliceOk, SliceAt
<1>2. SetOf[t] \in Sets
  BY SharedAssumption
<1>3. arr' = [arr EXCEPT ![g] = new] /\ work' = [work EXCEPT ![g].own = own]
  BY DEF Register, Kind
<1>4. "list" \in Pcs
  BY DEF Pcs, Walking
<1>5. Moves(t, "list", thr[t].run.kind, thr[t].run.kinds, thr[t].run.load, thr[t].run.failed) /\ thr' \in [Threads -> ThreadRecs]
  BY <1>4, GoEffect DEF Register
<1>6. /\ base \in Seq(Sets \cup {None}) /\ len[g] + 1 <= Len(base) /\ len[g] + 1 \in 1..Len(base)
      /\ \A i \in 1..len[g] : base[i] = arr[g][i]
  <2>1. CASE room
    BY <1>1, <2>1
  <2>2. CASE ~room
    <3>1. PICK m \in Nat : m = (IF len[g] = 0 THEN 1 ELSE 2 * len[g]) /\ len[g] + 1 <= m
      BY <1>1
    <3>2. \A i \in 1..m : (IF i <= len[g] THEN arr[g][i] ELSE None) \in Sets \cup {None}
      BY <1>1, <3>1
    <3>3. more = [i \in 1..m |-> IF i <= len[g] THEN arr[g][i] ELSE None]
      BY <3>1
    <3>4. base = more
      BY <2>2
    <3> HIDE DEF more, base
    <3>5. more \in Seq(Sets \cup {None}) /\ Len(more) = m
      BY <3>2, <3>3
    <3>6. ASSUME NEW i \in 1..len[g]
          PROVE  more[i] = arr[g][i]
      <4>1. i \in 1..m /\ i <= len[g]
        <5>1. PICK n \in Nat : n = len[g]
          BY <1>1
        <5>2. i \in 1..n /\ n + 1 <= m
          BY <3>1, <5>1
        <5>3. i \in 1..m /\ i <= n
          BY <5>2
        <5>4. QED
          BY <5>1, <5>3
      <4>2. more[i] = IF i <= len[g] THEN arr[g][i] ELSE None
        BY <3>3, <4>1, Zenon
      <4>3. QED
        BY <4>1, <4>2, Zenon
    <3>7. QED
      BY <1>1, <3>1, <3>4, <3>5, <3>6
  <2>3. QED
    BY <2>1, <2>2
<1> HIDE DEF base
<1>7. /\ new \in Seq(Sets \cup {None}) /\ Len(new) = Len(base) /\ new[len[g] + 1] = SetOf[t]
      /\ \A i \in 1..len[g] : new[i] = arr[g][i]
  BY <1>1, <1>2, <1>6
<1>8. own \in Seq(Sets \cup {None}) /\ own \in {work[g].own, arr[g]}
  BY <1>1 DEF Works
<1> HIDE DEF new, own
<1>9. /\ arr' \in [Kinds -> Seq(Sets \cup {None})] /\ arr'[g] = new
      /\ \A h \in Kinds \ {g} : arr'[h] = arr[h]
  BY <1>1, <1>3, <1>7 DEF Types
<1>10. work' = [work EXCEPT ![g] = [work[g] EXCEPT !.own = own]]
  BY <1>3 DEF Types
<1>11. [work[g] EXCEPT !.own = own] \in Works
  BY <1>1, <1>8 DEF Works
<1>12. /\ work' \in [Kinds -> Works] /\ work'[g] = [work[g] EXCEPT !.own = own]
       /\ \A h \in Kinds \ {g} : work'[h] = work[h]
  BY <1>1, <1>10, <1>11 DEF Types
<1>13. work'[g].obj = work[g].obj /\ work'[g].i = work[g].i /\ work'[g].n = work[g].n /\ work'[g].own = own
  BY <1>1, <1>12 DEF Works
<1>14. thr[t].run.pc = "register" /\ len' = [len EXCEPT ![g] = @ + 1]
       /\ UNCHANGED <<flags, cache, due, seen, panicked, cancelled>>
  BY DEF Register, At, Kind
<1>15. QED
  BY <1>0, <1>5, <1>6, <1>7, <1>8, <1>9, <1>12, <1>13, <1>14

LEMMA DeregisterEffect ==
    ASSUME Types, NEW g \in Kinds, SliceOk, Deregister(g)
    PROVE  /\ cancelled /\ len[g] > 0 /\ len' = [len EXCEPT ![g] = @ - 1]
           /\ arr' \in [Kinds -> Seq(Sets \cup {None})]
           /\ \A h \in Kinds \ {g} : arr'[h] = arr[h]
           /\ Len(arr'[g]) = Len(arr[g])
           /\ \A j \in 1..(len[g] - 1) : arr'[g][j] \in Sets
           /\ UNCHANGED <<thr, flags, cache, due, workVars, cancelled>>
<1>1. len[g] \in Nat /\ arr[g] \in Seq(Sets \cup {None}) /\ len[g] <= Len(arr[g]) /\ \A i \in 1..len[g] : arr[g][i] \in Sets
  BY DEF Types, SliceOk, SliceAt
<1>2. PICK i \in 1..len[g] :
        arr' = [arr EXCEPT ![g] = [j \in 1..Len(@) |-> IF j \in i..(len[g] - 1) THEN @[j + 1]
                                                         ELSE IF j = len[g] THEN None ELSE @[j]]]
  BY DEF Deregister
<1> DEFINE new == [j \in 1..Len(arr[g]) |-> IF j \in i..(len[g] - 1) THEN arr[g][j + 1]
                                            ELSE IF j = len[g] THEN None ELSE arr[g][j]]
<1>3. arr' = [arr EXCEPT ![g] = new]
  BY <1>2
<1>4. \A j \in 1..Len(arr[g]) : new[j] \in Sets \cup {None}
  BY <1>1
<1>5. new \in Seq(Sets \cup {None}) /\ Len(new) = Len(arr[g])
  BY <1>1, <1>4
<1>6. \A j \in 1..(len[g] - 1) : new[j] \in Sets
  BY <1>1
<1> HIDE DEF new
<1>7. arr' \in [Kinds -> Seq(Sets \cup {None})] /\ arr'[g] = new /\ \A h \in Kinds \ {g} : arr'[h] = arr[h]
  BY <1>3, <1>5 DEF Types
<1>8. QED
  BY <1>5, <1>6, <1>7 DEF Deregister

LEMMA OnChangeEffect ==
    ASSUME Types, NEW g \in Kinds, NEW x \in Objects, OnChange(g, x)
    PROVE  /\ g \in running /\ ~cancelled /\ x \in due[g] /\ work[g].obj = None
           /\ due' = [due EXCEPT ![g] = @ \ {x}]
           /\ work' \in [Kinds -> Works] /\ \A h \in Kinds \ {g} : work'[h] = work[h]
           /\ work'[g].obj = x /\ work'[g].i = 1 /\ work'[g].n = len[g] /\ work'[g].own = <<>>
           /\ UNCHANGED <<thr, flags, slice, cache, seen, panicked, cancelled>>
<1> DEFINE new == [obj |-> x, i |-> 1, n |-> len[g], own |-> <<>>]
<1>1. new \in Works
  BY DEF Types, Works
<1>2. work' = [work EXCEPT ![g] = new]
  BY DEF OnChange
<1>3. work' \in [Kinds -> Works] /\ work'[g] = new /\ \A h \in Kinds \ {g} : work'[h] = work[h]
  BY <1>1, <1>2 DEF Types
<1>4. QED
  BY <1>3 DEF OnChange

LEMMA CallHandlerEffect ==
    ASSUME Types, NEW g \in Kinds, CallHandler(g)
    PROVE  /\ work[g].obj # None /\ work[g].i <= work[g].n
           /\ seen' = IF Entry(g) = None \/ cancelled THEN seen ELSE seen \cup {<<Entry(g), g, work[g].obj>>}
           /\ work' \in [Kinds -> Works] /\ \A h \in Kinds \ {g} : work'[h] = work[h]
           /\ work'[g].obj = work[g].obj /\ work'[g].i = work[g].i + 1 /\ work'[g].n = work[g].n /\ work'[g].own = work[g].own
           /\ UNCHANGED <<thr, flags, slice, cache, due, cancelled>>
<1> DEFINE new == [work[g] EXCEPT !.i = @ + 1]
<1>1. work[g] \in Works /\ work[g].i + 1 \in Nat
  BY DEF Types, Works
<1>2. new \in Works /\ new.obj = work[g].obj /\ new.i = work[g].i + 1 /\ new.n = work[g].n /\ new.own = work[g].own
  BY <1>1 DEF Works
<1>3. work' = [work EXCEPT ![g] = new]
  BY DEF CallHandler, Types
<1> HIDE DEF new
<1>4. work' \in [Kinds -> Works] /\ work'[g] = new /\ \A h \in Kinds \ {g} : work'[h] = work[h]
  BY <1>2, <1>3 DEF Types
<1>5. QED
  BY <1>2, <1>4 DEF CallHandler

LEMMA OnChangeEndsEffect ==
    ASSUME Types, NEW g \in Kinds, OnChangeEnds(g)
    PROVE  /\ work[g].obj # None /\ work[g].i > work[g].n
           /\ work' \in [Kinds -> Works] /\ \A h \in Kinds \ {g} : work'[h] = work[h]
           /\ work'[g].obj = None /\ work'[g].i = 1
           /\ UNCHANGED <<thr, flags, slice, cache, due, seen, panicked, cancelled>>
<1>1. IdleWork \in Works
  BY DEF IdleWork, Works
<1>2. work' = [work EXCEPT ![g] = IdleWork]
  BY DEF OnChangeEnds
<1>3. work' \in [Kinds -> Works] /\ work'[g] = IdleWork /\ \A h \in Kinds \ {g} : work'[h] = work[h]
  BY <1>1, <1>2 DEF Types
<1>4. QED
  BY <1>3 DEF OnChangeEnds, IdleWork

-------------------------------------------------------------------------------
(* The types and the locks                                                 *)

LEMMA TypesStep ==
    ASSUME Types, PcOk, SliceOk, [Next]_vars
    PROVE  Types'
<1>1. CASE UNCHANGED vars
  BY <1>1 DEF vars, flags, slice, cache, workVars, Types, ThreadRecs
<1>2. ASSUME NEW t \in Threads, NEW host \in Kinds \cup {None}, Call(t, host)
      PROVE  Types'
  BY <1>2, CallEffect DEF flags, slice, cache, workVars, Types, ThreadRecs
<1>3. ASSUME NEW t \in Threads, WatchEnd(t)
      PROVE  Types'
  BY <1>3, WatchEndEffect DEF flags, slice, cache, workVars, Types, ThreadRecs
<1>4. ASSUME NEW t \in Threads, NEW g \in Kinds, ForKind(t, g)
      PROVE  Types'
  BY <1>4, ForKindEffect DEF flags, slice, cache, workVars, Types, ThreadRecs
<1>5. ASSUME NEW t \in Threads, InitController(t)
      PROVE  Types'
  BY <1>5, InitControllerEffect DEF flags, slice, cache, workVars, Types, ThreadRecs
<1>6. ASSUME NEW t \in Threads, Register(t)
      PROVE  Types'
  <2>1. len' \in [Kinds -> Nat]
    BY <1>6, RegisterEffect DEF Types
  <2>2. QED
    BY <1>6, RegisterEffect, <2>1 DEF flags, slice, cache, workVars, Types, ThreadRecs
<1>7. ASSUME NEW t \in Threads, ListExisting(t)
      PROVE  Types'
  <2>1. PICK k \in Kinds : due' \in {due, [due EXCEPT ![k] = @ \cup cached[k]]}
    BY <1>7, ListExistingEffect
  <2>2. due' \in [Kinds -> SUBSET Objects]
    BY <2>1 DEF Types
  <2>3. QED
    BY <1>7, ListExistingEffect, <2>2 DEF flags, slice, cache, workVars, Types, ThreadRecs
<1>8. ASSUME NEW t \in Threads, HasStarted(t)
      PROVE  Types'
  BY <1>8, HasStartedEffect DEF flags, slice, cache, workVars, Types, ThreadRecs
<1>9. ASSUME NEW t \in Threads, Watched(t)
      PROVE  Types'
  <2>1. PICK k \in Kinds : watching' = watching \cup {<<SetOf[t], k>>}
    BY <1>9, WatchedEffect
  <2>2. watching' \in SUBSET (Sets \X Kinds)
    BY <2>1, SharedAssumption DEF Types
  <2>3. QED
    BY <1>9, WatchedEffect, <2>2 DEF flags, slice, cache, workVars, Types, ThreadRecs
<1>10. ASSUME NEW t \in Threads, NEW g \in Kinds, StartShared(t, g)
      PROVE  Types'
  BY <1>10, StartSharedEffect DEF flags, slice, cache, workVars, Types, ThreadRecs
<1>11. ASSUME NEW t \in Threads, CtrlStarted(t)
      PROVE  Types'
  <2>1. PICK q \in Kinds : /\ due' \in {due, [due EXCEPT ![q] = @ \cup cached[q]]}
                       /\ running' = running \cup {q} /\ started' = started \cup {q}
    BY <1>11, CtrlStartedEffect
  <2>2. due' \in [Kinds -> SUBSET Objects] /\ running' \in SUBSET Kinds /\ started' \in SUBSET Kinds
    BY <2>1 DEF Types
  <2>3. QED
    BY <1>11, CtrlStartedEffect, <2>2 DEF flags, slice, cache, workVars, Types, ThreadRecs
<1>12. ASSUME NEW t \in Threads, CtrlFailed(t)
      PROVE  Types'
  BY <1>12, CtrlFailedEffect DEF flags, slice, cache, workVars, Types, ThreadRecs
<1>13. ASSUME NEW t \in Threads, Begin(t)
      PROVE  Types'
  BY <1>13, BeginEffect DEF flags, slice, cache, workVars, Types, ThreadRecs
<1>14. ASSUME NEW t \in Threads, Synced(t)
      PROVE  Types'
  BY <1>14, SyncedEffect DEF flags, slice, cache, workVars, Types, ThreadRecs
<1>15. ASSUME NEW t \in Threads, Finish(t)
      PROVE  Types'
  BY <1>15, FinishEffect DEF flags, slice, cache, workVars, Types, ThreadRecs
<1>16. ASSUME NEW g \in Kinds, InformerSyncs(g)
      PROVE  Types'
  BY <1>16, SharedAssumption DEF flags, slice, cache, workVars, InformerSyncs, Types, ThreadRecs
<1>17. ASSUME NEW g \in Kinds, NEW x \in Objects, Arrive(g, x)
      PROVE  Types'
  BY <1>17, SharedAssumption DEF flags, slice, cache, workVars, Arrive, Types, ThreadRecs
<1>18. ASSUME NEW g \in Kinds, NEW x \in Objects, OnChange(g, x)
      PROVE  Types'
  <2>1. due' = [due EXCEPT ![g] = @ \ {x}]
    BY <1>18, OnChangeEffect
  <2>2. due' \in [Kinds -> SUBSET Objects]
    BY <2>1 DEF Types
  <2>3. QED
    BY <1>18, OnChangeEffect, <2>2 DEF flags, slice, cache, workVars, Types, ThreadRecs
<1>19. ASSUME NEW g \in Kinds, CallHandler(g)
      PROVE  Types'
  BY <1>19, CallHandlerEffect DEF flags, slice, cache, workVars, Types, ThreadRecs
<1>20. ASSUME NEW g \in Kinds, OnChangeEnds(g)
      PROVE  Types'
  BY <1>20, OnChangeEndsEffect DEF flags, slice, cache, workVars, Types, ThreadRecs
<1>21. ASSUME NEW g \in Kinds, Deregister(g)
      PROVE  Types'
  <2>1. len' \in [Kinds -> Nat]
    BY <1>21, DeregisterEffect DEF Types
  <2>2. QED
    BY <1>21, DeregisterEffect, <2>1 DEF flags, slice, cache, workVars, Types, ThreadRecs
<1>22. ASSUME NEW g \in Kinds, Reset(g)
      PROVE  Types'
  BY <1>22 DEF flags, slice, cache, workVars, Reset, Types, ThreadRecs
<1>23. ASSUME NEW g \in Kinds, Drained(g)
      PROVE  Types'
  BY <1>23 DEF flags, slice, cache, workVars, Drained, Types, ThreadRecs
<1>24. CASE Cancel
  BY <1>24 DEF flags, slice, cache, workVars, Cancel, Types, ThreadRecs
<1>25. QED
  BY <1>1, <1>2, <1>3, <1>4, <1>5, <1>6, <1>7, <1>8, <1>9, <1>10, <1>11, <1>12, <1>13, <1>14, <1>15, <1>16, <1>17, <1>18, <1>19, <1>20, <1>21, <1>22, <1>23, <1>24
     DEF Next, Step, Work, Ending

\* The slice stays in its array, with a set in every entry.
LEMMA SliceStep ==
    ASSUME Types, PcOk, SliceOk, [Next]_vars
    PROVE  SliceOk'
<1>1. CASE UNCHANGED vars
  BY <1>1 DEF vars, flags, slice, cache, workVars, SliceOk, SliceAt
<1>2. ASSUME NEW t \in Threads, NEW host \in Kinds \cup {None}, Call(t, host)
      PROVE  SliceOk'
  BY <1>2, CallEffect DEF flags, slice, cache, workVars, SliceOk, SliceAt
<1>3. ASSUME NEW t \in Threads, WatchEnd(t)
      PROVE  SliceOk'
  BY <1>3, WatchEndEffect DEF flags, slice, cache, workVars, SliceOk, SliceAt
<1>4. ASSUME NEW t \in Threads, NEW g \in Kinds, ForKind(t, g)
      PROVE  SliceOk'
  BY <1>4, ForKindEffect DEF flags, slice, cache, workVars, SliceOk, SliceAt
<1>5. ASSUME NEW t \in Threads, InitController(t)
      PROVE  SliceOk'
  BY <1>5, InitControllerEffect DEF flags, slice, cache, workVars, SliceOk, SliceAt
<1>6. ASSUME NEW t \in Threads, Register(t)
      PROVE  SliceOk'
  <2>1. \A h \in Kinds : len[h] \in Nat /\ len'[h] = IF h = thr[t].run.kind THEN len[h] + 1 ELSE len[h]
    BY <1>6, RegisterEffect DEF Types
  <2>2. SUFFICES ASSUME NEW h \in Kinds PROVE SliceAt(h)'
    BY DEF SliceOk
  <2>3. CASE h = thr[t].run.kind
    <3>1. /\ len'[h] = len[h] + 1 /\ len'[h] <= Len(arr'[h]) /\ arr'[h][len[h] + 1] = SetOf[t]
          /\ \A i \in 1..len[h] : arr'[h][i] = arr[h][i]
      BY <1>6, RegisterEffect, <2>1, <2>3
    <3>2. SetOf[t] \in Sets /\ len[h] \in Nat /\ \A i \in 1..len[h] : arr[h][i] \in Sets
      BY <2>1, SharedAssumption DEF SliceOk, SliceAt
    <3>3. \A i \in 1..len'[h] : i \in 1..len[h] \/ i = len[h] + 1
      BY <3>1, <3>2
    <3>4. QED
      BY <3>1, <3>2, <3>3 DEF SliceAt
  <2>4. CASE h # thr[t].run.kind
    BY <1>6, RegisterEffect, <2>1, <2>4 DEF SliceOk, SliceAt
  <2>5. QED
    BY <2>3, <2>4
<1>7. ASSUME NEW t \in Threads, ListExisting(t)
      PROVE  SliceOk'
  BY <1>7, ListExistingEffect DEF flags, slice, cache, workVars, SliceOk, SliceAt
<1>8. ASSUME NEW t \in Threads, HasStarted(t)
      PROVE  SliceOk'
  BY <1>8, HasStartedEffect DEF flags, slice, cache, workVars, SliceOk, SliceAt
<1>9. ASSUME NEW t \in Threads, Watched(t)
      PROVE  SliceOk'
  BY <1>9, WatchedEffect DEF flags, slice, cache, workVars, SliceOk, SliceAt
<1>10. ASSUME NEW t \in Threads, NEW g \in Kinds, StartShared(t, g)
      PROVE  SliceOk'
  BY <1>10, StartSharedEffect DEF flags, slice, cache, workVars, SliceOk, SliceAt
<1>11. ASSUME NEW t \in Threads, CtrlStarted(t)
      PROVE  SliceOk'
  BY <1>11, CtrlStartedEffect DEF flags, slice, cache, workVars, SliceOk, SliceAt
<1>12. ASSUME NEW t \in Threads, CtrlFailed(t)
      PROVE  SliceOk'
  BY <1>12, CtrlFailedEffect DEF flags, slice, cache, workVars, SliceOk, SliceAt
<1>13. ASSUME NEW t \in Threads, Begin(t)
      PROVE  SliceOk'
  BY <1>13, BeginEffect DEF flags, slice, cache, workVars, SliceOk, SliceAt
<1>14. ASSUME NEW t \in Threads, Synced(t)
      PROVE  SliceOk'
  BY <1>14, SyncedEffect DEF flags, slice, cache, workVars, SliceOk, SliceAt
<1>15. ASSUME NEW t \in Threads, Finish(t)
      PROVE  SliceOk'
  BY <1>15, FinishEffect DEF flags, slice, cache, workVars, SliceOk, SliceAt
<1>16. ASSUME NEW g \in Kinds, InformerSyncs(g)
      PROVE  SliceOk'
  BY <1>16 DEF flags, slice, cache, workVars, InformerSyncs, SliceOk, SliceAt
<1>17. ASSUME NEW g \in Kinds, NEW x \in Objects, Arrive(g, x)
      PROVE  SliceOk'
  BY <1>17 DEF flags, slice, cache, workVars, Arrive, SliceOk, SliceAt
<1>18. ASSUME NEW g \in Kinds, NEW x \in Objects, OnChange(g, x)
      PROVE  SliceOk'
  BY <1>18, OnChangeEffect DEF flags, slice, cache, workVars, SliceOk, SliceAt
<1>19. ASSUME NEW g \in Kinds, CallHandler(g)
      PROVE  SliceOk'
  BY <1>19, CallHandlerEffect DEF flags, slice, cache, workVars, SliceOk, SliceAt
<1>20. ASSUME NEW g \in Kinds, OnChangeEnds(g)
      PROVE  SliceOk'
  BY <1>20, OnChangeEndsEffect DEF flags, slice, cache, workVars, SliceOk, SliceAt
<1>21. ASSUME NEW g \in Kinds, Deregister(g)
      PROVE  SliceOk'
  <2>1. \A h \in Kinds : len[h] \in Nat /\ len'[h] = IF h = g THEN len[h] - 1 ELSE len[h]
    BY <1>21, DeregisterEffect DEF Types
  <2>2. SUFFICES ASSUME NEW h \in Kinds PROVE SliceAt(h)'
    BY DEF SliceOk
  <2>3. CASE h = g
    BY <1>21, DeregisterEffect, <2>1, <2>3 DEF SliceOk, SliceAt
  <2>4. CASE h # g
    BY <1>21, DeregisterEffect, <2>1, <2>4 DEF SliceOk, SliceAt
  <2>5. QED
    BY <2>3, <2>4
<1>22. ASSUME NEW g \in Kinds, Reset(g)
      PROVE  SliceOk'
  BY <1>22 DEF flags, slice, cache, workVars, Reset, SliceOk, SliceAt
<1>23. ASSUME NEW g \in Kinds, Drained(g)
      PROVE  SliceOk'
  BY <1>23 DEF flags, slice, cache, workVars, Drained, SliceOk, SliceAt
<1>24. CASE Cancel
  BY <1>24 DEF flags, slice, cache, workVars, Cancel, SliceOk, SliceAt
<1>25. QED
  BY <1>1, <1>2, <1>3, <1>4, <1>5, <1>6, <1>7, <1>8, <1>9, <1>10, <1>11, <1>12, <1>13, <1>14, <1>15, <1>16, <1>17, <1>18, <1>19, <1>20, <1>21, <1>22, <1>23, <1>24
     DEF Next, Step, Work, Ending

\* The place of a thread that stays where it is, while others make controllers.
LEMMA PcElsewhere ==
    ASSUME Types, PcOk, NEW u \in Threads, thr'[u] = thr[u], made \subseteq made',
           \A h \in Kinds : ctrl[h] # "none" => ctrl'[h] # "none"
    PROVE  PcAt(u)'
BY DEF PcOk, PcAt, Walking

\* A thread gets from one place to the next as PcOk says.
LEMMA PcStep ==
    ASSUME Types, PcOk, SliceOk, MadeOk, [Next]_vars
    PROVE  PcOk'
<1>1. CASE UNCHANGED vars
  <2>1. /\ \A u \in Threads : thr'[u] = thr[u]
        /\ made \subseteq made' /\ \A h \in Kinds : ctrl[h] # "none" => ctrl'[h] # "none"
    BY <1>1 DEF vars, flags, slice, cache, workVars
  <2>2. QED
    BY <2>1, PcElsewhere DEF PcOk
<1>2. ASSUME NEW t \in Threads, NEW host \in Kinds \cup {None}, Call(t, host)
      PROVE  PcOk'
  <2>0. PcAt(t) /\ thr[t].run \in Runs
    BY ThreadType DEF PcOk
  <2>1. PcAt(t)'
    BY <1>2, CallEffect, <2>0 DEF flags, slice, cache, workVars, PcAt, Moves, Leaves, Walking, Ops
  <2>2. \A u \in Threads \ {t} : thr'[u] = thr[u]
    BY <1>2, CallEffect DEF Moves, Leaves, Others
  <2>3. made \subseteq made' /\ \A h \in Kinds : ctrl[h] # "none" => ctrl'[h] # "none"
    BY <1>2, CallEffect DEF flags, slice, cache, workVars, Types
  <2>4. QED
    BY <2>1, <2>2, <2>3, PcElsewhere DEF PcOk
<1>3. ASSUME NEW t \in Threads, WatchEnd(t)
      PROVE  PcOk'
  <2>0. PcAt(t) /\ thr[t].run \in Runs
    BY ThreadType DEF PcOk
  <2>1. PcAt(t)'
    BY <1>3, WatchEndEffect, <2>0 DEF flags, slice, cache, workVars, PcAt, Moves, Leaves, Walking, Ops
  <2>2. \A u \in Threads \ {t} : thr'[u] = thr[u]
    BY <1>3, WatchEndEffect DEF Moves, Leaves, Others
  <2>3. made \subseteq made' /\ \A h \in Kinds : ctrl[h] # "none" => ctrl'[h] # "none"
    BY <1>3, WatchEndEffect DEF flags, slice, cache, workVars, Types
  <2>4. QED
    BY <2>1, <2>2, <2>3, PcElsewhere DEF PcOk
<1>4. ASSUME NEW t \in Threads, NEW g \in Kinds, ForKind(t, g)
      PROVE  PcOk'
  <2>0. PcAt(t) /\ thr[t].run \in Runs
    BY ThreadType DEF PcOk
  <2>1. PcAt(t)'
    <3>1. /\ thr[t].run.pc = "watch" /\ g \in made \cup {g}
          /\ made' = made \/ made' = made \cup {g}
      BY <1>4, ForKindEffect
    <3>2. CASE Moves(t, "watch", g, thr[t].run.kinds \ {g}, thr[t].run.load, thr[t].run.failed)
      BY <2>0, <3>1, <3>2 DEF PcAt, Moves, Walking, Ops
    <3>3. CASE Moves(t, "watch", thr[t].run.kind, thr[t].run.kinds \ {g}, thr[t].run.load, TRUE)
      BY <2>0, <3>1, <3>3 DEF PcAt, Moves, Walking, Ops
    <3>4. CASE made' = made \cup {g} /\ Moves(t, "init", g, thr[t].run.kinds \ {g}, thr[t].run.load, thr[t].run.failed)
      BY <2>0, <3>1, <3>4 DEF PcAt, Moves, Walking, Ops
    <3> QED
      BY <1>4, ForKindEffect, <3>2, <3>3, <3>4
  <2>2. \A u \in Threads \ {t} : thr'[u] = thr[u]
    BY <1>4, ForKindEffect DEF Moves, Leaves, Others
  <2>3. made \subseteq made' /\ \A h \in Kinds : ctrl[h] # "none" => ctrl'[h] # "none"
    BY <1>4, ForKindEffect DEF flags, slice, cache, workVars, Types
  <2>4. QED
    BY <2>1, <2>2, <2>3, PcElsewhere DEF PcOk
<1>5. ASSUME NEW t \in Threads, InitController(t)
      PROVE  PcOk'
  <2>0. PcAt(t) /\ thr[t].run \in Runs
    BY ThreadType DEF PcOk
  <2>1. PcAt(t)'
    <3>1. /\ thr[t].run.pc = "init" /\ thr[t].run.kind \in Kinds
          /\ Moves(t, "register", thr[t].run.kind, thr[t].run.kinds, thr[t].run.load, thr[t].run.failed)
      BY <1>5, InitControllerEffect
    <3>2. ctrl'[thr[t].run.kind] # "none"
      <4>1. ctrl' = [ctrl EXCEPT ![thr[t].run.kind] = IF @ # "none" THEN @
                                                       ELSE IF thr[t].run.kind \in Broken THEN "error" ELSE "made"]
        BY <1>5, InitControllerEffect
      <4>2. QED
        BY <3>1, <4>1 DEF Types
    <3>3. PcAt(t)'
      BY <2>0, <3>1, <3>2 DEF PcAt, Moves, Walking, Ops
    <3> QED
      BY <3>3
  <2>2. \A u \in Threads \ {t} : thr'[u] = thr[u]
    BY <1>5, InitControllerEffect DEF Moves, Leaves, Others
  <2>3. made \subseteq made' /\ \A h \in Kinds : ctrl[h] # "none" => ctrl'[h] # "none"
    BY <1>5, InitControllerEffect DEF flags, slice, cache, workVars, Types
  <2>4. QED
    BY <2>1, <2>2, <2>3, PcElsewhere DEF PcOk
<1>6. ASSUME NEW t \in Threads, Register(t)
      PROVE  PcOk'
  <2>0. PcAt(t) /\ thr[t].run \in Runs
    BY ThreadType DEF PcOk
  <2>1. PcAt(t)'
    BY <1>6, RegisterEffect, <2>0 DEF flags, slice, cache, workVars, PcAt, Moves, Leaves, Walking, Ops
  <2>2. \A u \in Threads \ {t} : thr'[u] = thr[u]
    BY <1>6, RegisterEffect DEF Moves, Leaves, Others
  <2>3. made \subseteq made' /\ \A h \in Kinds : ctrl[h] # "none" => ctrl'[h] # "none"
    BY <1>6, RegisterEffect DEF flags, slice, cache, workVars, Types
  <2>4. QED
    BY <2>1, <2>2, <2>3, PcElsewhere DEF PcOk
<1>7. ASSUME NEW t \in Threads, ListExisting(t)
      PROVE  PcOk'
  <2>0. PcAt(t) /\ thr[t].run \in Runs
    BY ThreadType DEF PcOk
  <2>1. PcAt(t)'
    BY <1>7, ListExistingEffect, <2>0 DEF flags, slice, cache, workVars, PcAt, Moves, Leaves, Walking, Ops
  <2>2. \A u \in Threads \ {t} : thr'[u] = thr[u]
    BY <1>7, ListExistingEffect DEF Moves, Leaves, Others
  <2>3. made \subseteq made' /\ \A h \in Kinds : ctrl[h] # "none" => ctrl'[h] # "none"
    BY <1>7, ListExistingEffect DEF flags, slice, cache, workVars, Types
  <2>4. QED
    BY <2>1, <2>2, <2>3, PcElsewhere DEF PcOk
<1>8. ASSUME NEW t \in Threads, HasStarted(t)
      PROVE  PcOk'
  <2>0. PcAt(t) /\ thr[t].run \in Runs
    BY ThreadType DEF PcOk
  <2>1. PcAt(t)'
    BY <1>8, HasStartedEffect, <2>0 DEF flags, slice, cache, workVars, PcAt, Moves, Leaves, Walking, Ops
  <2>2. \A u \in Threads \ {t} : thr'[u] = thr[u]
    BY <1>8, HasStartedEffect DEF Moves, Leaves, Others
  <2>3. made \subseteq made' /\ \A h \in Kinds : ctrl[h] # "none" => ctrl'[h] # "none"
    BY <1>8, HasStartedEffect DEF flags, slice, cache, workVars, Types
  <2>4. QED
    BY <2>1, <2>2, <2>3, PcElsewhere DEF PcOk
<1>9. ASSUME NEW t \in Threads, Watched(t)
      PROVE  PcOk'
  <2>0. PcAt(t) /\ thr[t].run \in Runs
    BY ThreadType DEF PcOk
  <2>1. PcAt(t)'
    BY <1>9, WatchedEffect, <2>0 DEF flags, slice, cache, workVars, PcAt, Moves, Leaves, Walking, Ops
  <2>2. \A u \in Threads \ {t} : thr'[u] = thr[u]
    BY <1>9, WatchedEffect DEF Moves, Leaves, Others
  <2>3. made \subseteq made' /\ \A h \in Kinds : ctrl[h] # "none" => ctrl'[h] # "none"
    BY <1>9, WatchedEffect DEF flags, slice, cache, workVars, Types
  <2>4. QED
    BY <2>1, <2>2, <2>3, PcElsewhere DEF PcOk
<1>10. ASSUME NEW t \in Threads, NEW g \in Kinds, StartShared(t, g)
      PROVE  PcOk'
  <2>0. PcAt(t) /\ thr[t].run \in Runs
    BY ThreadType DEF PcOk
  <2>1. PcAt(t)'
    <3>0. ctrl' = ctrl /\ made' = made
      BY <1>10, StartSharedEffect DEF flags
    <3>1. CASE ctrl[g] = "made" /\ Moves(t, "ctrlStart", g, thr[t].run.kinds \ {g}, thr[t].run.load, thr[t].run.failed)
      BY <1>10, StartSharedEffect, <2>0, <3>0, <3>1 DEF PcAt, Moves, Walking, Ops
    <3>2. CASE Moves(t, Back(t, g, ctrl[g] = "error"), thr[t].run.kind, thr[t].run.kinds \ {g},
                     thr[t].run.load /\ ctrl[g] # "error", thr[t].run.failed \/ ctrl[g] = "error")
      <4>1. CASE thr[t].run.pc = "wantStart" /\ g = thr[t].run.kind
        <5>1. ~thr[t].run.load /\ ctrl[g] # "none" /\ thr[t].run.kind \in Kinds
          BY <2>0, <4>1 DEF PcAt, Walking
        <5>2. Back(t, g, ctrl[g] = "error") \in {"watch", "watched"}
          BY <5>1 DEF Back
        <5>3. QED
          BY <2>0, <3>0, <3>2, <4>1, <5>1, <5>2 DEF PcAt, Moves, Walking, Ops
      <4>2. CASE thr[t].run.pc = "starting" /\ g \in thr[t].run.kinds
        <5>1. thr[t].run.load /\ ~thr[t].run.failed /\ thr[t].run.op = "start"
          BY <2>0, <4>2 DEF PcAt
        <5>2. CASE ctrl[g] = "error"
          <6>1. Back(t, g, ctrl[g] = "error") = "idle"
            BY <5>1, <5>2 DEF Back
          <6>2. QED
            BY <2>0, <3>0, <3>2, <5>1, <5>2, <6>1 DEF PcAt, Moves, Walking, Ops
        <5>3. CASE ctrl[g] # "error"
          <6>1. Back(t, g, ctrl[g] = "error") = IF thr[t].run.kinds \subseteq {g} THEN "finish" ELSE "starting"
            BY <5>1, <5>3 DEF Back
          <6>2. thr[t].run.kinds \subseteq {g} => thr[t].run.kinds \ {g} = {}
            OBVIOUS
          <6>3. QED
            BY <2>0, <3>0, <3>2, <5>1, <5>3, <6>1, <6>2 DEF PcAt, Moves, Walking, Ops
        <5>4. QED
          BY <5>2, <5>3
      <4>3. QED
        BY <1>10, StartSharedEffect, <4>1, <4>2
    <3> QED
      BY <1>10, StartSharedEffect, <3>1, <3>2
  <2>2. \A u \in Threads \ {t} : thr'[u] = thr[u]
    BY <1>10, StartSharedEffect DEF Moves, Leaves, Others
  <2>3. made \subseteq made' /\ \A h \in Kinds : ctrl[h] # "none" => ctrl'[h] # "none"
    BY <1>10, StartSharedEffect DEF flags, slice, cache, workVars, Types
  <2>4. QED
    BY <2>1, <2>2, <2>3, PcElsewhere DEF PcOk
<1>11. ASSUME NEW t \in Threads, CtrlStarted(t)
      PROVE  PcOk'
  <2>0. PcAt(t) /\ thr[t].run \in Runs
    BY ThreadType DEF PcOk
  <2>1. PcAt(t)'
    BY <1>11, CtrlStartedEffect, <2>0 DEF flags, slice, cache, workVars, PcAt, Moves, Leaves, Walking, Ops
  <2>2. \A u \in Threads \ {t} : thr'[u] = thr[u]
    BY <1>11, CtrlStartedEffect DEF Moves, Leaves, Others
  <2>3. made \subseteq made' /\ \A h \in Kinds : ctrl[h] # "none" => ctrl'[h] # "none"
    BY <1>11, CtrlStartedEffect DEF flags, slice, cache, workVars, Types
  <2>4. QED
    BY <2>1, <2>2, <2>3, PcElsewhere DEF PcOk
<1>12. ASSUME NEW t \in Threads, CtrlFailed(t)
      PROVE  PcOk'
  <2>0. PcAt(t) /\ thr[t].run \in Runs
    BY ThreadType DEF PcOk
  <2>1. PcAt(t)'
    BY <1>12, CtrlFailedEffect, <2>0 DEF flags, slice, cache, workVars, PcAt, Moves, Leaves, Walking, Ops
  <2>2. \A u \in Threads \ {t} : thr'[u] = thr[u]
    BY <1>12, CtrlFailedEffect DEF Moves, Leaves, Others
  <2>3. made \subseteq made' /\ \A h \in Kinds : ctrl[h] # "none" => ctrl'[h] # "none"
    BY <1>12, CtrlFailedEffect DEF flags, slice, cache, workVars, Types
  <2>4. QED
    BY <2>1, <2>2, <2>3, PcElsewhere DEF PcOk
<1>13. ASSUME NEW t \in Threads, Begin(t)
      PROVE  PcOk'
  <2>0. PcAt(t) /\ thr[t].run \in Runs
    BY ThreadType DEF PcOk
  <2>1. PcAt(t)'
    BY <1>13, BeginEffect, <2>0 DEF flags, slice, cache, workVars, PcAt, Moves, Leaves, Walking, Ops
  <2>2. \A u \in Threads \ {t} : thr'[u] = thr[u]
    BY <1>13, BeginEffect DEF Moves, Leaves, Others
  <2>3. made \subseteq made' /\ \A h \in Kinds : ctrl[h] # "none" => ctrl'[h] # "none"
    BY <1>13, BeginEffect DEF flags, slice, cache, workVars, Types
  <2>4. QED
    BY <2>1, <2>2, <2>3, PcElsewhere DEF PcOk
<1>14. ASSUME NEW t \in Threads, Synced(t)
      PROVE  PcOk'
  <2>0. PcAt(t) /\ thr[t].run \in Runs
    BY ThreadType DEF PcOk
  <2>1. PcAt(t)'
    BY <1>14, SyncedEffect, <2>0 DEF flags, slice, cache, workVars, PcAt, Moves, Leaves, Walking, Ops
  <2>2. \A u \in Threads \ {t} : thr'[u] = thr[u]
    BY <1>14, SyncedEffect DEF Moves, Leaves, Others
  <2>3. made \subseteq made' /\ \A h \in Kinds : ctrl[h] # "none" => ctrl'[h] # "none"
    BY <1>14, SyncedEffect DEF flags, slice, cache, workVars, Types
  <2>4. QED
    BY <2>1, <2>2, <2>3, PcElsewhere DEF PcOk
<1>15. ASSUME NEW t \in Threads, Finish(t)
      PROVE  PcOk'
  <2>0. PcAt(t) /\ thr[t].run \in Runs
    BY ThreadType DEF PcOk
  <2>1. PcAt(t)'
    BY <1>15, FinishEffect, <2>0 DEF flags, slice, cache, workVars, PcAt, Moves, Leaves, Walking, Ops
  <2>2. \A u \in Threads \ {t} : thr'[u] = thr[u]
    BY <1>15, FinishEffect DEF Moves, Leaves, Others
  <2>3. made \subseteq made' /\ \A h \in Kinds : ctrl[h] # "none" => ctrl'[h] # "none"
    BY <1>15, FinishEffect DEF flags, slice, cache, workVars, Types
  <2>4. QED
    BY <2>1, <2>2, <2>3, PcElsewhere DEF PcOk
<1>16. ASSUME NEW g \in Kinds, InformerSyncs(g)
      PROVE  PcOk'
  <2>1. /\ \A u \in Threads : thr'[u] = thr[u]
        /\ made \subseteq made' /\ \A h \in Kinds : ctrl[h] # "none" => ctrl'[h] # "none"
    BY <1>16 DEF flags, slice, cache, workVars, InformerSyncs
  <2>2. QED
    BY <2>1, PcElsewhere DEF PcOk
<1>17. ASSUME NEW g \in Kinds, NEW x \in Objects, Arrive(g, x)
      PROVE  PcOk'
  <2>1. /\ \A u \in Threads : thr'[u] = thr[u]
        /\ made \subseteq made' /\ \A h \in Kinds : ctrl[h] # "none" => ctrl'[h] # "none"
    BY <1>17 DEF flags, slice, cache, workVars, Arrive
  <2>2. QED
    BY <2>1, PcElsewhere DEF PcOk
<1>18. ASSUME NEW g \in Kinds, NEW x \in Objects, OnChange(g, x)
      PROVE  PcOk'
  <2>1. /\ \A u \in Threads : thr'[u] = thr[u]
        /\ made \subseteq made' /\ \A h \in Kinds : ctrl[h] # "none" => ctrl'[h] # "none"
    BY <1>18, OnChangeEffect DEF flags, slice, cache, workVars
  <2>2. QED
    BY <2>1, PcElsewhere DEF PcOk
<1>19. ASSUME NEW g \in Kinds, CallHandler(g)
      PROVE  PcOk'
  <2>1. /\ \A u \in Threads : thr'[u] = thr[u]
        /\ made \subseteq made' /\ \A h \in Kinds : ctrl[h] # "none" => ctrl'[h] # "none"
    BY <1>19, CallHandlerEffect DEF flags, slice, cache, workVars
  <2>2. QED
    BY <2>1, PcElsewhere DEF PcOk
<1>20. ASSUME NEW g \in Kinds, OnChangeEnds(g)
      PROVE  PcOk'
  <2>1. /\ \A u \in Threads : thr'[u] = thr[u]
        /\ made \subseteq made' /\ \A h \in Kinds : ctrl[h] # "none" => ctrl'[h] # "none"
    BY <1>20, OnChangeEndsEffect DEF flags, slice, cache, workVars
  <2>2. QED
    BY <2>1, PcElsewhere DEF PcOk
<1>21. ASSUME NEW g \in Kinds, Deregister(g)
      PROVE  PcOk'
  <2>1. /\ \A u \in Threads : thr'[u] = thr[u]
        /\ made \subseteq made' /\ \A h \in Kinds : ctrl[h] # "none" => ctrl'[h] # "none"
    BY <1>21, DeregisterEffect DEF flags, slice, cache, workVars
  <2>2. QED
    BY <2>1, PcElsewhere DEF PcOk
<1>22. ASSUME NEW g \in Kinds, Reset(g)
      PROVE  PcOk'
  <2>1. /\ \A u \in Threads : thr'[u] = thr[u]
        /\ made \subseteq made' /\ \A h \in Kinds : ctrl[h] # "none" => ctrl'[h] # "none"
    BY <1>22 DEF flags, slice, cache, workVars, Reset
  <2>2. QED
    BY <2>1, PcElsewhere DEF PcOk
<1>23. ASSUME NEW g \in Kinds, Drained(g)
      PROVE  PcOk'
  <2>1. /\ \A u \in Threads : thr'[u] = thr[u]
        /\ made \subseteq made' /\ \A h \in Kinds : ctrl[h] # "none" => ctrl'[h] # "none"
    BY <1>23 DEF flags, slice, cache, workVars, Drained
  <2>2. QED
    BY <2>1, PcElsewhere DEF PcOk
<1>24. CASE Cancel
  <2>1. /\ \A u \in Threads : thr'[u] = thr[u]
        /\ made \subseteq made' /\ \A h \in Kinds : ctrl[h] # "none" => ctrl'[h] # "none"
    BY <1>24 DEF flags, slice, cache, workVars, Cancel
  <2>2. QED
    BY <2>1, PcElsewhere DEF PcOk
<1>25. QED
  BY <1>1, <1>2, <1>3, <1>4, <1>5, <1>6, <1>7, <1>8, <1>9, <1>10, <1>11, <1>12, <1>13, <1>14, <1>15, <1>16, <1>17, <1>18, <1>19, <1>20, <1>21, <1>22, <1>23, <1>24
     DEF Next, Step, Work, Ending

\* Controllers are made for the kinds the factory knows.
LEMMA MadeStep ==
    ASSUME Types, PcOk, SliceOk, MadeOk, [Next]_vars
    PROVE  MadeOk'
<1>1. CASE UNCHANGED vars
  BY <1>1 DEF vars, flags, slice, cache, workVars, MadeOk
<1>2. ASSUME NEW t \in Threads, NEW host \in Kinds \cup {None}, Call(t, host)
      PROVE  MadeOk'
  BY <1>2, CallEffect DEF flags, slice, cache, workVars, MadeOk
<1>3. ASSUME NEW t \in Threads, WatchEnd(t)
      PROVE  MadeOk'
  BY <1>3, WatchEndEffect DEF flags, slice, cache, workVars, MadeOk
<1>4. ASSUME NEW t \in Threads, NEW g \in Kinds, ForKind(t, g)
      PROVE  MadeOk'
  BY <1>4, ForKindEffect DEF flags, slice, cache, workVars, MadeOk, Types
<1>5. ASSUME NEW t \in Threads, InitController(t)
      PROVE  MadeOk'
  <2>1. thr[t].run.kind \in made
    BY <1>5, InitControllerEffect DEF PcOk, PcAt
  <2>2. \A h \in Kinds : /\ h # thr[t].run.kind => ctrl'[h] = ctrl[h]
                         /\ ctrl[h] # "none" => ctrl'[h] # "none"
    <3>1. ctrl' = [ctrl EXCEPT ![thr[t].run.kind] = IF @ # "none" THEN @
                                                     ELSE IF thr[t].run.kind \in Broken THEN "error" ELSE "made"]
      BY <1>5, InitControllerEffect
    <3>2. QED
      BY <3>1 DEF Types
  <2>3. \A p \in watching : p[2] \in Kinds
    BY DEF Types
  <2>4. made' = made /\ watching' = watching
    BY <1>5, InitControllerEffect
  <2>5. QED
    BY <2>1, <2>2, <2>3, <2>4 DEF MadeOk
<1>6. ASSUME NEW t \in Threads, Register(t)
      PROVE  MadeOk'
  BY <1>6, RegisterEffect DEF flags, slice, cache, workVars, MadeOk
<1>7. ASSUME NEW t \in Threads, ListExisting(t)
      PROVE  MadeOk'
  BY <1>7, ListExistingEffect DEF flags, slice, cache, workVars, MadeOk
<1>8. ASSUME NEW t \in Threads, HasStarted(t)
      PROVE  MadeOk'
  BY <1>8, HasStartedEffect DEF flags, slice, cache, workVars, MadeOk
<1>9. ASSUME NEW t \in Threads, Watched(t)
      PROVE  MadeOk'
  <2>1. ctrl[thr[t].run.kind] # "none"
    BY <1>9, WatchedEffect DEF PcOk, PcAt, Walking
  <2>2. QED
    BY <1>9, WatchedEffect, <2>1 DEF MadeOk
<1>10. ASSUME NEW t \in Threads, NEW g \in Kinds, StartShared(t, g)
      PROVE  MadeOk'
  BY <1>10, StartSharedEffect DEF flags, slice, cache, workVars, MadeOk
<1>11. ASSUME NEW t \in Threads, CtrlStarted(t)
      PROVE  MadeOk'
  BY <1>11, CtrlStartedEffect DEF flags, slice, cache, workVars, MadeOk
<1>12. ASSUME NEW t \in Threads, CtrlFailed(t)
      PROVE  MadeOk'
  BY <1>12, CtrlFailedEffect DEF flags, slice, cache, workVars, MadeOk
<1>13. ASSUME NEW t \in Threads, Begin(t)
      PROVE  MadeOk'
  BY <1>13, BeginEffect DEF flags, slice, cache, workVars, MadeOk
<1>14. ASSUME NEW t \in Threads, Synced(t)
      PROVE  MadeOk'
  BY <1>14, SyncedEffect DEF flags, slice, cache, workVars, MadeOk
<1>15. ASSUME NEW t \in Threads, Finish(t)
      PROVE  MadeOk'
  BY <1>15, FinishEffect DEF flags, slice, cache, workVars, MadeOk
<1>16. ASSUME NEW g \in Kinds, InformerSyncs(g)
      PROVE  MadeOk'
  BY <1>16 DEF flags, slice, cache, workVars, InformerSyncs, MadeOk
<1>17. ASSUME NEW g \in Kinds, NEW x \in Objects, Arrive(g, x)
      PROVE  MadeOk'
  BY <1>17 DEF flags, slice, cache, workVars, Arrive, MadeOk
<1>18. ASSUME NEW g \in Kinds, NEW x \in Objects, OnChange(g, x)
      PROVE  MadeOk'
  BY <1>18, OnChangeEffect DEF flags, slice, cache, workVars, MadeOk
<1>19. ASSUME NEW g \in Kinds, CallHandler(g)
      PROVE  MadeOk'
  BY <1>19, CallHandlerEffect DEF flags, slice, cache, workVars, MadeOk
<1>20. ASSUME NEW g \in Kinds, OnChangeEnds(g)
      PROVE  MadeOk'
  BY <1>20, OnChangeEndsEffect DEF flags, slice, cache, workVars, MadeOk
<1>21. ASSUME NEW g \in Kinds, Deregister(g)
      PROVE  MadeOk'
  BY <1>21, DeregisterEffect DEF flags, slice, cache, workVars, MadeOk
<1>22. ASSUME NEW g \in Kinds, Reset(g)
      PROVE  MadeOk'
  BY <1>22 DEF flags, slice, cache, workVars, Reset, MadeOk
<1>23. ASSUME NEW g \in Kinds, Drained(g)
      PROVE  MadeOk'
  BY <1>23 DEF flags, slice, cache, workVars, Drained, MadeOk
<1>24. CASE Cancel
  BY <1>24 DEF flags, slice, cache, workVars, Cancel, MadeOk
<1>25. QED
  BY <1>1, <1>2, <1>3, <1>4, <1>5, <1>6, <1>7, <1>8, <1>9, <1>10, <1>11, <1>12, <1>13, <1>14, <1>15, <1>16, <1>17, <1>18, <1>19, <1>20, <1>21, <1>22, <1>23, <1>24
     DEF Next, Step, Work, Ending

\* Whoever may have called Start goes on having called it.
LEMMA SameRest ==
    ASSUME \A u \in Threads : thr'[u].rest = thr[u].rest
    PROVE  (StartCalled' <=> StartCalled) /\ (RestOk => RestOk')
BY DEF StartCalled, RestOk, RestAt

LEMMA CallRest ==
    ASSUME Types, RestOk, NEW t \in Threads, thr[t].rest # <<>>, thr'[t].rest = Tail(thr[t].rest), Others(t)
    PROVE  /\ StartCalled' <=> StartCalled \/ Head(thr[t].rest) = "start"
           /\ RestOk'
           /\ Head(thr[t].rest) \in ToSet(Program[t])
<1>1. thr[t].rest \in Seq(Ops)
  BY ThreadType
<1>2. Program[t] \in Seq(Ops) /\ DOMAIN Program[t] = 1..Len(Program[t])
  BY SharedAssumption DEF Ops
<1>n. PICK n \in Nat : n = Len(thr[t].rest) /\ n > 0
  BY <1>1
<1>l. PICK l \in Nat : l = Len(Program[t])
  BY <1>2
<1>r. RestAt(t)
  BY DEF RestOk
<1>a. l - n >= 0 /\ \A i \in 1..n : thr[t].rest[i] = Program[t][(l - n) + i]
  BY <1>n, <1>l, <1>r DEF RestAt
<1>m. PICK m \in Nat : m = l - n
  BY <1>a
<1>3. \A i \in 1..n : thr[t].rest[i] = Program[t][m + i]
  BY <1>a, <1>m
<1>4. /\ Len(Tail(thr[t].rest)) = n - 1 /\ Head(thr[t].rest) = thr[t].rest[1]
      /\ \A i \in 1..(n - 1) : Tail(thr[t].rest)[i] = thr[t].rest[i + 1]
  BY <1>1, <1>n
<1>5. Head(thr[t].rest) = Program[t][m + 1] /\ m + 1 \in 1..l
  <2>1. 1 \in 1..n /\ m + 1 \in 1..l
    BY <1>m, <1>n
  <2>2. QED
    BY <2>1, <1>3, <1>4
<1>6. Len(Program[t]) - Len(thr'[t].rest) = m + 1
  <2>1. Len(thr'[t].rest) = n - 1
    BY <1>4
  <2>2. l - (n - 1) = m + 1
    BY <1>m
  <2>3. QED
    BY <1>l, <2>1, <2>2
<1>7. Head(thr[t].rest) \in ToSet(Program[t])
  BY <1>2, <1>l, <1>5 DEF ToSet
<1>8. RestOk'
  <2>1. RestAt(t)'
    <3>1. \A i \in 1..(n - 1) : Tail(thr[t].rest)[i] = Program[t][m + 1 + i]
      <4> SUFFICES ASSUME NEW i \in 1..(n - 1) PROVE Tail(thr[t].rest)[i] = Program[t][m + 1 + i]
        OBVIOUS
      <4>1. i + 1 \in 1..n /\ m + (i + 1) = m + 1 + i
        OBVIOUS
      <4>2. QED
        BY <1>3, <1>4, <4>1
    <3>2. QED
      <4>1. Len(thr'[t].rest) = n - 1 /\ m + 1 >= 0
        BY <1>4
      <4>2. QED
        BY <1>6, <3>1, <4>1 DEF RestAt
  <2>2. QED
    <3>1. \A u \in Threads \ {t} : RestAt(u)'
      BY DEF RestOk, RestAt, Others
    <3>2. QED
      BY <2>1, <3>1 DEF RestOk
<1>9. StartCalled' <=> StartCalled \/ Head(thr[t].rest) = "start"
  <2>1. \A i \in 1..(m + 1) : i \in 1..m \/ i = m + 1
    OBVIOUS
  <2>2. \A i \in 1..m : i \in 1..(m + 1)
    OBVIOUS
  <2>3. m + 1 \in 1..(m + 1)
    OBVIOUS
  <2>4. (\E i \in 1..(m + 1) : Program[t][i] = "start") <=> (\E i \in 1..m : Program[t][i] = "start") \/ Head(thr[t].rest) = "start"
    BY <1>5, <2>1, <2>2, <2>3
  <2>5. QED
    <3> DEFINE Called(u) == \E i \in 1..(Len(Program[u]) - Len(thr[u].rest)) : Program[u][i] = "start"
    <3>1. \A u \in Threads \ {t} : Called(u)' <=> Called(u)
      BY DEF Others
    <3>2. Len(Program[t]) - Len(thr[t].rest) = m
      BY <1>l, <1>m, <1>n
    <3>3. Called(t)' <=> Called(t) \/ Head(thr[t].rest) = "start"
      BY <1>6, <2>4, <3>2
    <3>4. (StartCalled <=> \E u \in Threads : Called(u)) /\ (StartCalled' <=> \E u \in Threads : Called(u)')
      BY DEF StartCalled
    <3> HIDE DEF Called
    <3>5. QED
      BY <3>1, <3>3, <3>4
<1>10. QED
  BY <1>7, <1>8, <1>9

\* Only a call takes something off the program of a thread.
LEMMA RestKept ==
    ASSUME Types, PcOk, SliceOk, [Next]_vars, \A t \in Threads, host \in Kinds \cup {None} : ~Call(t, host)
    PROVE  \A u \in Threads : thr'[u].rest = thr[u].rest
<1>1. CASE UNCHANGED vars
  BY <1>1 DEF vars
<1>3. ASSUME NEW t \in Threads, WatchEnd(t)
      PROVE  \A u \in Threads : thr'[u].rest = thr[u].rest
  BY <1>3, WatchEndEffect DEF Moves, Leaves, Others
<1>4. ASSUME NEW t \in Threads, NEW g \in Kinds, ForKind(t, g)
      PROVE  \A u \in Threads : thr'[u].rest = thr[u].rest
  BY <1>4, ForKindEffect DEF Moves, Leaves, Others
<1>5. ASSUME NEW t \in Threads, InitController(t)
      PROVE  \A u \in Threads : thr'[u].rest = thr[u].rest
  BY <1>5, InitControllerEffect DEF Moves, Leaves, Others
<1>6. ASSUME NEW t \in Threads, Register(t)
      PROVE  \A u \in Threads : thr'[u].rest = thr[u].rest
  BY <1>6, RegisterEffect DEF Moves, Leaves, Others
<1>7. ASSUME NEW t \in Threads, ListExisting(t)
      PROVE  \A u \in Threads : thr'[u].rest = thr[u].rest
  BY <1>7, ListExistingEffect DEF Moves, Leaves, Others
<1>8. ASSUME NEW t \in Threads, HasStarted(t)
      PROVE  \A u \in Threads : thr'[u].rest = thr[u].rest
  BY <1>8, HasStartedEffect DEF Moves, Leaves, Others
<1>9. ASSUME NEW t \in Threads, Watched(t)
      PROVE  \A u \in Threads : thr'[u].rest = thr[u].rest
  BY <1>9, WatchedEffect DEF Moves, Leaves, Others
<1>10. ASSUME NEW t \in Threads, NEW g \in Kinds, StartShared(t, g)
      PROVE  \A u \in Threads : thr'[u].rest = thr[u].rest
  BY <1>10, StartSharedEffect DEF Moves, Leaves, Others
<1>11. ASSUME NEW t \in Threads, CtrlStarted(t)
      PROVE  \A u \in Threads : thr'[u].rest = thr[u].rest
  BY <1>11, CtrlStartedEffect DEF Moves, Leaves, Others
<1>12. ASSUME NEW t \in Threads, CtrlFailed(t)
      PROVE  \A u \in Threads : thr'[u].rest = thr[u].rest
  BY <1>12, CtrlFailedEffect DEF Moves, Leaves, Others
<1>13. ASSUME NEW t \in Threads, Begin(t)
      PROVE  \A u \in Threads : thr'[u].rest = thr[u].rest
  BY <1>13, BeginEffect DEF Moves, Leaves, Others
<1>14. ASSUME NEW t \in Threads, Synced(t)
      PROVE  \A u \in Threads : thr'[u].rest = thr[u].rest
  BY <1>14, SyncedEffect DEF Moves, Leaves, Others
<1>15. ASSUME NEW t \in Threads, Finish(t)
      PROVE  \A u \in Threads : thr'[u].rest = thr[u].rest
  BY <1>15, FinishEffect DEF Moves, Leaves, Others
<1>16. ASSUME NEW g \in Kinds, InformerSyncs(g)
      PROVE  \A u \in Threads : thr'[u].rest = thr[u].rest
  BY <1>16 DEF InformerSyncs
<1>17. ASSUME NEW g \in Kinds, NEW x \in Objects, Arrive(g, x)
      PROVE  \A u \in Threads : thr'[u].rest = thr[u].rest
  BY <1>17 DEF Arrive
<1>18. ASSUME NEW g \in Kinds, NEW x \in Objects, OnChange(g, x)
      PROVE  \A u \in Threads : thr'[u].rest = thr[u].rest
  BY <1>18, OnChangeEffect DEF flags, slice, cache, workVars
<1>19. ASSUME NEW g \in Kinds, CallHandler(g)
      PROVE  \A u \in Threads : thr'[u].rest = thr[u].rest
  BY <1>19, CallHandlerEffect DEF flags, slice, cache, workVars
<1>20. ASSUME NEW g \in Kinds, OnChangeEnds(g)
      PROVE  \A u \in Threads : thr'[u].rest = thr[u].rest
  BY <1>20, OnChangeEndsEffect DEF flags, slice, cache, workVars
<1>21. ASSUME NEW g \in Kinds, Deregister(g)
      PROVE  \A u \in Threads : thr'[u].rest = thr[u].rest
  BY <1>21, DeregisterEffect DEF flags, slice, cache, workVars
<1>22. ASSUME NEW g \in Kinds, Reset(g)
      PROVE  \A u \in Threads : thr'[u].rest = thr[u].rest
  BY <1>22 DEF Reset
<1>23. ASSUME NEW g \in Kinds, Drained(g)
      PROVE  \A u \in Threads : thr'[u].rest = thr[u].rest
  BY <1>23 DEF Drained
<1>24. CASE Cancel
  BY <1>24 DEF Cancel
<1>25. QED
  BY <1>1, <1>3, <1>4, <1>5, <1>6, <1>7, <1>8, <1>9, <1>10, <1>11, <1>12, <1>13, <1>14, <1>15, <1>16, <1>17, <1>18, <1>19, <1>20, <1>21, <1>22, <1>23, <1>24
     DEF Next, Step, Work, Ending

LEMMA RestStep ==
    ASSUME Types, PcOk, SliceOk, RestOk, [Next]_vars
    PROVE  RestOk' /\ (StartCalled => StartCalled')
<1>1. ASSUME NEW t \in Threads, NEW host \in Kinds \cup {None}, Call(t, host)
      PROVE  RestOk' /\ (StartCalled => StartCalled')
  BY <1>1, CallEffect, CallRest
<1>2. QED
  BY <1>1, RestKept, SameRest

\* A call waits for the lock of its set.
LEMMA LockStep ==
    ASSUME Types, PcOk, SliceOk, LockOk, [Next]_vars
    PROVE  LockOk'
<1>1. CASE UNCHANGED vars
  <2>1. \A u \in Threads : HoldsWatch(u)' => HoldsWatch(u)
    BY <1>1, ThreadType DEF vars, flags, slice, cache, workVars, HoldsWatch, Moves, Leaves, Others
  <2>2. QED
    BY <2>1 DEF LockOk
<1>2. ASSUME NEW t \in Threads, NEW host \in Kinds \cup {None}, Call(t, host)
      PROVE  LockOk'
  <2>1. \A u \in Threads \ {t} : HoldsWatch(u)' <=> HoldsWatch(u)
    BY <1>2, CallEffect DEF HoldsWatch, Others
  <2>2. \A u \in Threads \ {t} : HoldsWatch(u) => SetOf[u] # SetOf[t]
    BY <1>2, CallEffect DEF HoldsWatch, WatchLocked
  <2>3. QED
    BY <2>1, <2>2 DEF LockOk
<1>3. ASSUME NEW t \in Threads, WatchEnd(t)
      PROVE  LockOk'
  <2>1. \A u \in Threads : HoldsWatch(u)' => HoldsWatch(u)
    BY <1>3, WatchEndEffect, ThreadType DEF flags, slice, cache, workVars, HoldsWatch, Moves, Leaves, Others
  <2>2. QED
    BY <2>1 DEF LockOk
<1>4. ASSUME NEW t \in Threads, NEW g \in Kinds, ForKind(t, g)
      PROVE  LockOk'
  <2>1. \A u \in Threads : HoldsWatch(u)' => HoldsWatch(u)
    BY <1>4, ForKindEffect, ThreadType DEF flags, slice, cache, workVars, HoldsWatch, Moves, Leaves, Others
  <2>2. QED
    BY <2>1 DEF LockOk
<1>5. ASSUME NEW t \in Threads, InitController(t)
      PROVE  LockOk'
  <2>1. \A u \in Threads : HoldsWatch(u)' => HoldsWatch(u)
    BY <1>5, InitControllerEffect, ThreadType DEF flags, slice, cache, workVars, HoldsWatch, Moves, Leaves, Others
  <2>2. QED
    BY <2>1 DEF LockOk
<1>6. ASSUME NEW t \in Threads, Register(t)
      PROVE  LockOk'
  <2>1. \A u \in Threads : HoldsWatch(u)' => HoldsWatch(u)
    BY <1>6, RegisterEffect, ThreadType DEF flags, slice, cache, workVars, HoldsWatch, Moves, Leaves, Others
  <2>2. QED
    BY <2>1 DEF LockOk
<1>7. ASSUME NEW t \in Threads, ListExisting(t)
      PROVE  LockOk'
  <2>1. \A u \in Threads : HoldsWatch(u)' => HoldsWatch(u)
    BY <1>7, ListExistingEffect, ThreadType DEF flags, slice, cache, workVars, HoldsWatch, Moves, Leaves, Others
  <2>2. QED
    BY <2>1 DEF LockOk
<1>8. ASSUME NEW t \in Threads, HasStarted(t)
      PROVE  LockOk'
  <2>1. \A u \in Threads : HoldsWatch(u)' => HoldsWatch(u)
    BY <1>8, HasStartedEffect, ThreadType DEF flags, slice, cache, workVars, HoldsWatch, Moves, Leaves, Others, PcOk, PcAt, Back, Walking
  <2>2. QED
    BY <2>1 DEF LockOk
<1>9. ASSUME NEW t \in Threads, Watched(t)
      PROVE  LockOk'
  <2>1. \A u \in Threads : HoldsWatch(u)' => HoldsWatch(u)
    BY <1>9, WatchedEffect, ThreadType DEF flags, slice, cache, workVars, HoldsWatch, Moves, Leaves, Others
  <2>2. QED
    BY <2>1 DEF LockOk
<1>10. ASSUME NEW t \in Threads, NEW g \in Kinds, StartShared(t, g)
      PROVE  LockOk'
  <2>1. \A u \in Threads : HoldsWatch(u)' => HoldsWatch(u)
    BY <1>10, StartSharedEffect, ThreadType DEF flags, slice, cache, workVars, HoldsWatch, Moves, Leaves, Others, PcOk, PcAt, Back, Walking
  <2>2. QED
    BY <2>1 DEF LockOk
<1>11. ASSUME NEW t \in Threads, CtrlStarted(t)
      PROVE  LockOk'
  <2>1. \A u \in Threads : HoldsWatch(u)' => HoldsWatch(u)
    BY <1>11, CtrlStartedEffect, ThreadType DEF flags, slice, cache, workVars, HoldsWatch, Moves, Leaves, Others, PcOk, PcAt, Back, Walking
  <2>2. QED
    BY <2>1 DEF LockOk
<1>12. ASSUME NEW t \in Threads, CtrlFailed(t)
      PROVE  LockOk'
  <2>1. HoldsWatch(t)' => HoldsWatch(t)
    <3>1. CASE thr[t].run.load
      BY <1>12, CtrlFailedEffect, <3>1 DEF HoldsWatch, Moves
    <3>2. CASE ~thr[t].run.load
      BY <1>12, CtrlFailedEffect, <3>2 DEF HoldsWatch, Moves
    <3>3. QED
      BY <3>1, <3>2
  <2>2. \A u \in Threads \ {t} : HoldsWatch(u)' => HoldsWatch(u)
    BY <1>12, CtrlFailedEffect DEF HoldsWatch, Moves, Others
  <2>3. QED
    BY <2>1, <2>2 DEF LockOk
<1>13. ASSUME NEW t \in Threads, Begin(t)
      PROVE  LockOk'
  <2>1. \A u \in Threads : HoldsWatch(u)' => HoldsWatch(u)
    BY <1>13, BeginEffect, ThreadType DEF flags, slice, cache, workVars, HoldsWatch, Moves, Leaves, Others
  <2>2. QED
    BY <2>1 DEF LockOk
<1>14. ASSUME NEW t \in Threads, Synced(t)
      PROVE  LockOk'
  <2>1. \A u \in Threads : HoldsWatch(u)' => HoldsWatch(u)
    BY <1>14, SyncedEffect, ThreadType DEF flags, slice, cache, workVars, HoldsWatch, Moves, Leaves, Others, PcOk, PcAt, Back, Walking
  <2>2. QED
    BY <2>1 DEF LockOk
<1>15. ASSUME NEW t \in Threads, Finish(t)
      PROVE  LockOk'
  <2>1. \A u \in Threads : HoldsWatch(u)' => HoldsWatch(u)
    BY <1>15, FinishEffect, ThreadType DEF flags, slice, cache, workVars, HoldsWatch, Moves, Leaves, Others
  <2>2. QED
    BY <2>1 DEF LockOk
<1>16. ASSUME NEW g \in Kinds, InformerSyncs(g)
      PROVE  LockOk'
  <2>1. \A u \in Threads : HoldsWatch(u)' => HoldsWatch(u)
    BY <1>16, ThreadType DEF flags, slice, cache, workVars, InformerSyncs, HoldsWatch, Moves, Leaves, Others
  <2>2. QED
    BY <2>1 DEF LockOk
<1>17. ASSUME NEW g \in Kinds, NEW x \in Objects, Arrive(g, x)
      PROVE  LockOk'
  <2>1. \A u \in Threads : HoldsWatch(u)' => HoldsWatch(u)
    BY <1>17, ThreadType DEF flags, slice, cache, workVars, Arrive, HoldsWatch, Moves, Leaves, Others
  <2>2. QED
    BY <2>1 DEF LockOk
<1>18. ASSUME NEW g \in Kinds, NEW x \in Objects, OnChange(g, x)
      PROVE  LockOk'
  <2>1. \A u \in Threads : HoldsWatch(u)' => HoldsWatch(u)
    BY <1>18, OnChangeEffect, ThreadType DEF flags, slice, cache, workVars, HoldsWatch, Moves, Leaves, Others
  <2>2. QED
    BY <2>1 DEF LockOk
<1>19. ASSUME NEW g \in Kinds, CallHandler(g)
      PROVE  LockOk'
  <2>1. \A u \in Threads : HoldsWatch(u)' => HoldsWatch(u)
    BY <1>19, CallHandlerEffect, ThreadType DEF flags, slice, cache, workVars, HoldsWatch, Moves, Leaves, Others
  <2>2. QED
    BY <2>1 DEF LockOk
<1>20. ASSUME NEW g \in Kinds, OnChangeEnds(g)
      PROVE  LockOk'
  <2>1. \A u \in Threads : HoldsWatch(u)' => HoldsWatch(u)
    BY <1>20, OnChangeEndsEffect, ThreadType DEF flags, slice, cache, workVars, HoldsWatch, Moves, Leaves, Others
  <2>2. QED
    BY <2>1 DEF LockOk
<1>21. ASSUME NEW g \in Kinds, Deregister(g)
      PROVE  LockOk'
  <2>1. \A u \in Threads : HoldsWatch(u)' => HoldsWatch(u)
    BY <1>21, DeregisterEffect, ThreadType DEF flags, slice, cache, workVars, HoldsWatch, Moves, Leaves, Others
  <2>2. QED
    BY <2>1 DEF LockOk
<1>22. ASSUME NEW g \in Kinds, Reset(g)
      PROVE  LockOk'
  <2>1. \A u \in Threads : HoldsWatch(u)' => HoldsWatch(u)
    BY <1>22, ThreadType DEF flags, slice, cache, workVars, Reset, HoldsWatch, Moves, Leaves, Others
  <2>2. QED
    BY <2>1 DEF LockOk
<1>23. ASSUME NEW g \in Kinds, Drained(g)
      PROVE  LockOk'
  <2>1. \A u \in Threads : HoldsWatch(u)' => HoldsWatch(u)
    BY <1>23, ThreadType DEF flags, slice, cache, workVars, Drained, HoldsWatch, Moves, Leaves, Others
  <2>2. QED
    BY <2>1 DEF LockOk
<1>24. CASE Cancel
  <2>1. \A u \in Threads : HoldsWatch(u)' => HoldsWatch(u)
    BY <1>24, ThreadType DEF flags, slice, cache, workVars, Cancel, HoldsWatch, Moves, Leaves, Others
  <2>2. QED
    BY <2>1 DEF LockOk
<1>25. QED
  BY <1>1, <1>2, <1>3, <1>4, <1>5, <1>6, <1>7, <1>8, <1>9, <1>10, <1>11, <1>12, <1>13, <1>14, <1>15, <1>16, <1>17, <1>18, <1>19, <1>20, <1>21, <1>22, <1>23, <1>24
     DEF Next, Step, Work, Ending

-------------------------------------------------------------------------------
(* Every set gets every object                                             *)

\* While the context lives, entries are only added to a slice.
LEMMA GrowStep ==
    ASSUME Types, PcOk, SliceOk, ~cancelled', [Next]_vars
    PROVE  \A h \in Kinds : /\ len[h] \in Nat /\ len'[h] \in Nat /\ len[h] <= len'[h]
                            /\ \A i \in 1..len[h] : arr'[h][i] = arr[h][i]
<1>1. ASSUME UNCHANGED slice
      PROVE  \A h \in Kinds : /\ len[h] \in Nat /\ len'[h] \in Nat /\ len[h] <= len'[h]
                              /\ \A i \in 1..len[h] : arr'[h][i] = arr[h][i]
  BY <1>1 DEF slice, Types
<1>2. ASSUME NEW t \in Threads, Register(t), NEW h \in Kinds
      PROVE  /\ len[h] \in Nat /\ len'[h] \in Nat /\ len[h] <= len'[h]
             /\ \A i \in 1..len[h] : arr'[h][i] = arr[h][i]
  <2>1. len[h] \in Nat /\ len'[h] = IF h = thr[t].run.kind THEN len[h] + 1 ELSE len[h]
    <3>1. thr[t].run.kind \in Kinds /\ len' = [len EXCEPT ![thr[t].run.kind] = @ + 1]
      BY <1>2, RegisterEffect
    <3>2. QED
      BY <3>1 DEF Types
  <2>2. CASE h = thr[t].run.kind
    <3>1. \A i \in 1..len[h] : arr'[h][i] = arr[h][i]
      BY <1>2, <2>2, RegisterEffect
    <3>2. QED
      BY <2>1, <2>2, <3>1
  <2>3. CASE h # thr[t].run.kind
    <3>1. arr'[h] = arr[h]
      BY <1>2, <2>3, RegisterEffect
    <3>2. QED
      BY <2>1, <2>3, <3>1
  <2>4. QED
    BY <2>2, <2>3
<1>3. ASSUME NEW g \in Kinds, Deregister(g)
      PROVE  FALSE
  BY <1>3 DEF Deregister
<1>4. UNCHANGED slice \/ (\E t \in Threads : Register(t)) \/ (\E g \in Kinds : Deregister(g))
  <2>1. UNCHANGED vars => UNCHANGED slice
    BY DEF vars
  <2>2. ASSUME NEW t \in Threads, NEW host \in Kinds \cup {None}, Call(t, host) PROVE UNCHANGED slice
    BY <2>2 DEF Call
  <2>3. ASSUME NEW t \in Threads, NEW g \in Kinds, ForKind(t, g) \/ StartShared(t, g) PROVE UNCHANGED slice
    BY <2>3 DEF ForKind, StartShared
  <2>4. ASSUME NEW t \in Threads, WatchEnd(t) \/ InitController(t) \/ ListExisting(t) \/ HasStarted(t) \/ Watched(t)
        PROVE  UNCHANGED slice
    BY <2>4 DEF WatchEnd, InitController, ListExisting, HasStarted, Watched
  <2>5. ASSUME NEW t \in Threads, CtrlStarted(t) \/ CtrlFailed(t) \/ Begin(t) \/ Synced(t) \/ Finish(t)
        PROVE  UNCHANGED slice
    BY <2>5 DEF CtrlStarted, CtrlFailed, Begin, Synced, Finish
  <2>6. ASSUME NEW g \in Kinds, InformerSyncs(g) \/ CallHandler(g) \/ OnChangeEnds(g) \/ Reset(g) \/ Drained(g)
        PROVE  UNCHANGED slice
    BY <2>6 DEF InformerSyncs, CallHandler, OnChangeEnds, Reset, Drained
  <2>7. ASSUME NEW g \in Kinds, NEW x \in Objects, Arrive(g, x) \/ OnChange(g, x) PROVE UNCHANGED slice
    BY <2>7 DEF Arrive, OnChange
  <2>8. Cancel => UNCHANGED slice
    BY DEF Cancel
  <2>9. QED
    BY <2>1, <2>2, <2>3, <2>4, <2>5, <2>6, <2>7, <2>8, Zenon DEF Next, Step, Work, Ending
<1>5. QED
  BY <1>1, <1>2, <1>3, <1>4

\* What is registered stays registered.
LEMMA StillRegistered ==
    ASSUME Types, PcOk, SliceOk, ~cancelled', [Next]_vars, NEW s, NEW h \in Kinds, Registered(s, h)
    PROVE  Registered(s, h)'
<1>1. PICK i \in 1..len[h] : arr[h][i] = s
  BY DEF Registered
<1>2. i \in 1..len'[h] /\ arr'[h][i] = s
  BY <1>1, GrowStep
<1>3. QED
  BY <1>2 DEF Registered

LEMMA FlagsStep ==
    ASSUME Types, PcOk, SliceOk, MadeOk, Live, ~cancelled, ~cancelled', [Next]_vars
    PROVE  FlagsOk'
<1>1. CASE UNCHANGED vars
  BY <1>1 DEF vars, flags, slice, cache, workVars, Live, FlagsOk
<1>2. ASSUME NEW t \in Threads, NEW host \in Kinds \cup {None}, Call(t, host)
      PROVE  FlagsOk'
  BY <1>2, CallEffect DEF flags, slice, cache, workVars, Live, FlagsOk
<1>3. ASSUME NEW t \in Threads, WatchEnd(t)
      PROVE  FlagsOk'
  BY <1>3, WatchEndEffect DEF flags, slice, cache, workVars, Live, FlagsOk
<1>4. ASSUME NEW t \in Threads, NEW g \in Kinds, ForKind(t, g)
      PROVE  FlagsOk'
  BY <1>4, ForKindEffect DEF flags, slice, cache, workVars, Live, FlagsOk
<1>5. ASSUME NEW t \in Threads, InitController(t)
      PROVE  FlagsOk'
  BY <1>5, InitControllerEffect DEF flags, slice, cache, workVars, Live, FlagsOk
<1>6. ASSUME NEW t \in Threads, Register(t)
      PROVE  FlagsOk'
  BY <1>6, RegisterEffect DEF flags, slice, cache, workVars, Live, FlagsOk
<1>7. ASSUME NEW t \in Threads, ListExisting(t)
      PROVE  FlagsOk'
  BY <1>7, ListExistingEffect DEF flags, slice, cache, workVars, Live, FlagsOk
<1>8. ASSUME NEW t \in Threads, HasStarted(t)
      PROVE  FlagsOk'
  BY <1>8, HasStartedEffect DEF flags, slice, cache, workVars, Live, FlagsOk
<1>9. ASSUME NEW t \in Threads, Watched(t)
      PROVE  FlagsOk'
  BY <1>9, WatchedEffect DEF flags, slice, cache, workVars, Live, FlagsOk
<1>10. ASSUME NEW t \in Threads, NEW g \in Kinds, StartShared(t, g)
      PROVE  FlagsOk'
  BY <1>10, StartSharedEffect DEF flags, slice, cache, workVars, Live, FlagsOk
<1>11. ASSUME NEW t \in Threads, CtrlStarted(t)
      PROVE  FlagsOk'
  BY <1>11, CtrlStartedEffect DEF flags, slice, cache, workVars, Live, FlagsOk, Types
<1>12. ASSUME NEW t \in Threads, CtrlFailed(t)
      PROVE  FlagsOk'
  BY <1>12, CtrlFailedEffect
<1>13. ASSUME NEW t \in Threads, Begin(t)
      PROVE  FlagsOk'
  BY <1>13, BeginEffect DEF flags, slice, cache, workVars, Live, FlagsOk
<1>14. ASSUME NEW t \in Threads, Synced(t)
      PROVE  FlagsOk'
  BY <1>14, SyncedEffect DEF flags, slice, cache, workVars, Live, FlagsOk
<1>15. ASSUME NEW t \in Threads, Finish(t)
      PROVE  FlagsOk'
  BY <1>15, FinishEffect DEF flags, slice, cache, workVars, Live, FlagsOk
<1>16. ASSUME NEW g \in Kinds, InformerSyncs(g)
      PROVE  FlagsOk'
  BY <1>16 DEF flags, slice, cache, workVars, InformerSyncs, Live, FlagsOk
<1>17. ASSUME NEW g \in Kinds, NEW x \in Objects, Arrive(g, x)
      PROVE  FlagsOk'
  BY <1>17 DEF flags, slice, cache, workVars, Arrive, Live, FlagsOk
<1>18. ASSUME NEW g \in Kinds, NEW x \in Objects, OnChange(g, x)
      PROVE  FlagsOk'
  BY <1>18, OnChangeEffect DEF flags, slice, cache, workVars, Live, FlagsOk
<1>19. ASSUME NEW g \in Kinds, CallHandler(g)
      PROVE  FlagsOk'
  BY <1>19, CallHandlerEffect DEF flags, slice, cache, workVars, Live, FlagsOk
<1>20. ASSUME NEW g \in Kinds, OnChangeEnds(g)
      PROVE  FlagsOk'
  BY <1>20, OnChangeEndsEffect DEF flags, slice, cache, workVars, Live, FlagsOk
<1>21. ASSUME NEW g \in Kinds, Deregister(g)
      PROVE  FlagsOk'
  BY <1>21, DeregisterEffect
<1>22. ASSUME NEW g \in Kinds, Reset(g)
      PROVE  FlagsOk'
  BY <1>22 DEF Reset
<1>23. ASSUME NEW g \in Kinds, Drained(g)
      PROVE  FlagsOk'
  BY <1>23 DEF Drained
<1>24. CASE Cancel
  BY <1>24 DEF Cancel
<1>25. QED
  BY <1>1, <1>2, <1>3, <1>4, <1>5, <1>6, <1>7, <1>8, <1>9, <1>10, <1>11, <1>12, <1>13, <1>14, <1>15, <1>16, <1>17, <1>18, <1>19, <1>20, <1>21, <1>22, <1>23, <1>24
     DEF Next, Step, Work, Ending

LEMMA OldRegistered ==
    ASSUME Types, PcOk, SliceOk, MadeOk, Live, ~cancelled, ~cancelled', [Next]_vars
    PROVE  \A p \in watching : Registered(p[1], p[2])'
<1>1. \A p \in watching : p[2] \in Kinds /\ Registered(p[1], p[2])
  BY DEF Types, Live, RegisteredOk
<1>2. QED
  BY <1>1, StillRegistered

\* A set is in the slice of a kind before it counts as watching it.
LEMMA RegisteredStep ==
    ASSUME Types, PcOk, SliceOk, MadeOk, Live, ~cancelled, ~cancelled', [Next]_vars
    PROVE  RegisteredOk'
<1>1. CASE UNCHANGED vars
  <2>1. thr' = thr /\ watching' = watching
    BY <1>1 DEF vars, flags, slice, cache, workVars
  <2>2. \A u \in Threads : RegisteredAt(u) /\ PcAt(u)
    BY DEF Live, RegisteredOk, PcOk
  <2>3. \A u \in Threads : RegisteredAt(u)'
    BY <2>1, <2>2, StillRegistered DEF RegisteredAt, PcAt, Walking
  <2>4. QED
    BY <2>1, <2>3, OldRegistered DEF RegisteredOk
<1>2. ASSUME NEW t \in Threads, NEW host \in Kinds \cup {None}, Call(t, host)
      PROVE  RegisteredOk'
  <2>1. RegisteredAt(t)'
    BY <1>2, CallEffect, ThreadType DEF RegisteredAt, Moves, Leaves
  <2>2. \A u \in Threads \ {t} : RegisteredAt(u)'
    <3>1. SUFFICES ASSUME NEW u \in Threads \ {t} PROVE RegisteredAt(u)'
      OBVIOUS
    <3>2. Others(t)
      BY <1>2, CallEffect DEF Moves, Leaves
    <3>3. thr'[u] = thr[u] /\ RegisteredAt(u) /\ PcAt(u)
      BY <3>2 DEF Others, Live, RegisteredOk, PcOk
    <3>4. QED
      BY <3>3, StillRegistered DEF RegisteredAt, PcAt, Walking
  <2>3. QED
    BY <2>1, <2>2, OldRegistered, <1>2, CallEffect DEF RegisteredOk, flags, slice, cache, workVars
<1>3. ASSUME NEW t \in Threads, WatchEnd(t)
      PROVE  RegisteredOk'
  <2>1. RegisteredAt(t)'
    BY <1>3, WatchEndEffect, ThreadType DEF RegisteredAt, Moves, Leaves
  <2>2. \A u \in Threads \ {t} : RegisteredAt(u)'
    <3>1. SUFFICES ASSUME NEW u \in Threads \ {t} PROVE RegisteredAt(u)'
      OBVIOUS
    <3>2. Others(t)
      BY <1>3, WatchEndEffect DEF Moves, Leaves
    <3>3. thr'[u] = thr[u] /\ RegisteredAt(u) /\ PcAt(u)
      BY <3>2 DEF Others, Live, RegisteredOk, PcOk
    <3>4. QED
      BY <3>3, StillRegistered DEF RegisteredAt, PcAt, Walking
  <2>3. QED
    BY <2>1, <2>2, OldRegistered, <1>3, WatchEndEffect DEF RegisteredOk, flags, slice, cache, workVars
<1>4. ASSUME NEW t \in Threads, NEW g \in Kinds, ForKind(t, g)
      PROVE  RegisteredOk'
  <2>1. RegisteredAt(t)'
    BY <1>4, ForKindEffect, ThreadType DEF RegisteredAt, Moves, Leaves
  <2>2. \A u \in Threads \ {t} : RegisteredAt(u)'
    <3>1. SUFFICES ASSUME NEW u \in Threads \ {t} PROVE RegisteredAt(u)'
      OBVIOUS
    <3>2. Others(t)
      BY <1>4, ForKindEffect DEF Moves, Leaves
    <3>3. thr'[u] = thr[u] /\ RegisteredAt(u) /\ PcAt(u)
      BY <3>2 DEF Others, Live, RegisteredOk, PcOk
    <3>4. QED
      BY <3>3, StillRegistered DEF RegisteredAt, PcAt, Walking
  <2>3. QED
    BY <2>1, <2>2, OldRegistered, <1>4, ForKindEffect DEF RegisteredOk, flags, slice, cache, workVars
<1>5. ASSUME NEW t \in Threads, InitController(t)
      PROVE  RegisteredOk'
  <2>1. RegisteredAt(t)'
    BY <1>5, InitControllerEffect, ThreadType DEF RegisteredAt, Moves, Leaves
  <2>2. \A u \in Threads \ {t} : RegisteredAt(u)'
    <3>1. SUFFICES ASSUME NEW u \in Threads \ {t} PROVE RegisteredAt(u)'
      OBVIOUS
    <3>2. Others(t)
      BY <1>5, InitControllerEffect DEF Moves, Leaves
    <3>3. thr'[u] = thr[u] /\ RegisteredAt(u) /\ PcAt(u)
      BY <3>2 DEF Others, Live, RegisteredOk, PcOk
    <3>4. QED
      BY <3>3, StillRegistered DEF RegisteredAt, PcAt, Walking
  <2>3. QED
    BY <2>1, <2>2, OldRegistered, <1>5, InitControllerEffect DEF RegisteredOk, flags, slice, cache, workVars
<1>6. ASSUME NEW t \in Threads, Register(t)
      PROVE  RegisteredOk'
  <2>1. RegisteredAt(t)'
    <3>1. /\ thr[t].run.kind \in Kinds /\ Moves(t, "list", thr[t].run.kind, thr[t].run.kinds, thr[t].run.load, thr[t].run.failed)
          /\ len' = [len EXCEPT ![thr[t].run.kind] = @ + 1]
          /\ arr'[thr[t].run.kind][len[thr[t].run.kind] + 1] = SetOf[t]
      BY <1>6, RegisterEffect
    <3>2. len[thr[t].run.kind] + 1 \in 1..len'[thr[t].run.kind]
      BY <3>1 DEF Types
    <3>3. QED
      BY <3>1, <3>2 DEF RegisteredAt, Registered, Moves
  <2>2. \A u \in Threads \ {t} : RegisteredAt(u)'
    <3>1. SUFFICES ASSUME NEW u \in Threads \ {t} PROVE RegisteredAt(u)'
      OBVIOUS
    <3>2. Others(t)
      BY <1>6, RegisterEffect DEF Moves, Leaves
    <3>3. thr'[u] = thr[u] /\ RegisteredAt(u) /\ PcAt(u)
      BY <3>2 DEF Others, Live, RegisteredOk, PcOk
    <3>4. QED
      BY <3>3, StillRegistered DEF RegisteredAt, PcAt, Walking
  <2>3. QED
    BY <2>1, <2>2, OldRegistered, <1>6, RegisterEffect DEF RegisteredOk, flags, slice, cache, workVars
<1>7. ASSUME NEW t \in Threads, ListExisting(t)
      PROVE  RegisteredOk'
  <2>1. RegisteredAt(t)'
    <3>1. thr[t].run.kind \in Kinds /\ Registered(SetOf[t], thr[t].run.kind)
      BY <1>7, ListExistingEffect DEF Live, RegisteredOk, RegisteredAt, PcOk, PcAt, Walking
    <3>2. QED
      BY <1>7, ListExistingEffect, <3>1, StillRegistered DEF RegisteredAt, Moves
  <2>2. \A u \in Threads \ {t} : RegisteredAt(u)'
    <3>1. SUFFICES ASSUME NEW u \in Threads \ {t} PROVE RegisteredAt(u)'
      OBVIOUS
    <3>2. Others(t)
      BY <1>7, ListExistingEffect DEF Moves, Leaves
    <3>3. thr'[u] = thr[u] /\ RegisteredAt(u) /\ PcAt(u)
      BY <3>2 DEF Others, Live, RegisteredOk, PcOk
    <3>4. QED
      BY <3>3, StillRegistered DEF RegisteredAt, PcAt, Walking
  <2>3. QED
    BY <2>1, <2>2, OldRegistered, <1>7, ListExistingEffect DEF RegisteredOk, flags, slice, cache, workVars
<1>8. ASSUME NEW t \in Threads, HasStarted(t)
      PROVE  RegisteredOk'
  <2>1. RegisteredAt(t)'
    <3>1. thr[t].run.kind \in Kinds /\ Registered(SetOf[t], thr[t].run.kind)
      BY <1>8, HasStartedEffect DEF Live, RegisteredOk, RegisteredAt, PcOk, PcAt, Walking
    <3>2. QED
      BY <1>8, HasStartedEffect, <3>1, StillRegistered DEF RegisteredAt, Moves
  <2>2. \A u \in Threads \ {t} : RegisteredAt(u)'
    <3>1. SUFFICES ASSUME NEW u \in Threads \ {t} PROVE RegisteredAt(u)'
      OBVIOUS
    <3>2. Others(t)
      BY <1>8, HasStartedEffect DEF Moves, Leaves
    <3>3. thr'[u] = thr[u] /\ RegisteredAt(u) /\ PcAt(u)
      BY <3>2 DEF Others, Live, RegisteredOk, PcOk
    <3>4. QED
      BY <3>3, StillRegistered DEF RegisteredAt, PcAt, Walking
  <2>3. QED
    BY <2>1, <2>2, OldRegistered, <1>8, HasStartedEffect DEF RegisteredOk, flags, slice, cache, workVars
<1>9. ASSUME NEW t \in Threads, Watched(t)
      PROVE  RegisteredOk'
  <2>0. PICK q \in Kinds : q = thr[t].run.kind
    BY <1>9, WatchedEffect
  <2>1. Registered(SetOf[t], q)'
    <3>1. Registered(SetOf[t], q)
      BY <1>9, WatchedEffect, <2>0 DEF Live, RegisteredOk, RegisteredAt
    <3>2. QED
      BY <3>1, StillRegistered
  <2>2. \A p \in watching' : Registered(p[1], p[2])'
    <3>1. watching' = watching \cup {<<SetOf[t], q>>}
      BY <1>9, WatchedEffect, <2>0
    <3>2. SUFFICES ASSUME NEW p \in watching' PROVE Registered(p[1], p[2])'
      OBVIOUS
    <3>3. CASE p \in watching
      BY <3>3, OldRegistered
    <3>4. CASE p = <<SetOf[t], q>>
      <4>1. p[1] = SetOf[t] /\ p[2] = q
        BY <3>4
      <4>2. QED
        BY <2>1, <4>1
    <3>5. QED
      BY <3>1, <3>2, <3>3, <3>4
  <2>3. RegisteredAt(t)'
    BY <1>9, WatchedEffect, ThreadType DEF RegisteredAt, Moves, Leaves
  <2>4. \A u \in Threads \ {t} : RegisteredAt(u)'
    <3>1. SUFFICES ASSUME NEW u \in Threads \ {t} PROVE RegisteredAt(u)'
      OBVIOUS
    <3>2. Others(t)
      BY <1>9, WatchedEffect DEF Moves, Leaves
    <3>3. thr'[u] = thr[u] /\ RegisteredAt(u) /\ PcAt(u)
      BY <3>2 DEF Others, Live, RegisteredOk, PcOk
    <3>4. QED
      BY <3>3, StillRegistered DEF RegisteredAt, PcAt, Walking
  <2>5. QED
    BY <2>2, <2>3, <2>4 DEF RegisteredOk
<1>10. ASSUME NEW t \in Threads, NEW g \in Kinds, StartShared(t, g)
      PROVE  RegisteredOk'
  <2>1. RegisteredAt(t)'
    <3>1. CASE thr[t].run.pc = "wantStart" /\ g = thr[t].run.kind
      <4>1. Registered(SetOf[t], g)'
        BY <3>1, StillRegistered DEF Live, RegisteredOk, RegisteredAt
      <4>2. thr'[t].run.kind = g
        BY <1>10, StartSharedEffect, <3>1 DEF Moves
      <4>3. QED
        BY <4>1, <4>2 DEF RegisteredAt
    <3>2. CASE thr[t].run.pc = "starting"
      <4>1. thr[t].run.load
        BY <3>2 DEF PcOk, PcAt
      <4>2. CASE ctrl[g] = "made" /\ Moves(t, "ctrlStart", g, thr[t].run.kinds \ {g}, thr[t].run.load, thr[t].run.failed)
        BY <4>1, <4>2 DEF RegisteredAt, Moves
      <4>3. CASE Moves(t, Back(t, g, ctrl[g] = "error"), thr[t].run.kind, thr[t].run.kinds \ {g},
                       thr[t].run.load /\ ctrl[g] # "error", thr[t].run.failed \/ ctrl[g] = "error")
        <5>1. Back(t, g, ctrl[g] = "error") \in {"idle", "finish", "starting"}
          BY <4>1 DEF Back
        <5>2. QED
          BY <4>3, <5>1 DEF RegisteredAt, Moves
      <4>4. QED
        BY <1>10, StartSharedEffect, <4>2, <4>3
    <3>3. QED
      BY <1>10, StartSharedEffect, <3>1, <3>2
  <2>2. \A u \in Threads \ {t} : RegisteredAt(u)'
    <3>1. SUFFICES ASSUME NEW u \in Threads \ {t} PROVE RegisteredAt(u)'
      OBVIOUS
    <3>2. Others(t)
      BY <1>10, StartSharedEffect DEF Moves, Leaves
    <3>3. thr'[u] = thr[u] /\ RegisteredAt(u) /\ PcAt(u)
      BY <3>2 DEF Others, Live, RegisteredOk, PcOk
    <3>4. QED
      BY <3>3, StillRegistered DEF RegisteredAt, PcAt, Walking
  <2>3. QED
    BY <2>1, <2>2, OldRegistered, <1>10, StartSharedEffect DEF RegisteredOk, flags, slice, cache, workVars
<1>11. ASSUME NEW t \in Threads, CtrlStarted(t)
      PROVE  RegisteredOk'
  <2>1. RegisteredAt(t)'
    <3>1. CASE thr[t].run.load
      BY <1>11, CtrlStartedEffect, <3>1 DEF RegisteredAt, Moves
    <3>2. CASE ~thr[t].run.load
      <4>1. thr[t].run.kind \in Kinds /\ Registered(SetOf[t], thr[t].run.kind)
        BY <1>11, CtrlStartedEffect, <3>2 DEF Live, RegisteredOk, RegisteredAt
      <4>2. QED
        BY <1>11, CtrlStartedEffect, <4>1, StillRegistered DEF RegisteredAt, Moves
    <3>3. QED
      BY <3>1, <3>2
  <2>2. \A u \in Threads \ {t} : RegisteredAt(u)'
    <3>1. SUFFICES ASSUME NEW u \in Threads \ {t} PROVE RegisteredAt(u)'
      OBVIOUS
    <3>2. Others(t)
      BY <1>11, CtrlStartedEffect DEF Moves, Leaves
    <3>3. thr'[u] = thr[u] /\ RegisteredAt(u) /\ PcAt(u)
      BY <3>2 DEF Others, Live, RegisteredOk, PcOk
    <3>4. QED
      BY <3>3, StillRegistered DEF RegisteredAt, PcAt, Walking
  <2>3. QED
    BY <2>1, <2>2, OldRegistered, <1>11, CtrlStartedEffect DEF RegisteredOk, flags, slice, cache, workVars
<1>12. ASSUME NEW t \in Threads, CtrlFailed(t)
      PROVE  RegisteredOk'
  <2>1. RegisteredAt(t)'
    BY <1>12, CtrlFailedEffect, ThreadType DEF RegisteredAt, Moves, Leaves
  <2>2. \A u \in Threads \ {t} : RegisteredAt(u)'
    <3>1. SUFFICES ASSUME NEW u \in Threads \ {t} PROVE RegisteredAt(u)'
      OBVIOUS
    <3>2. Others(t)
      BY <1>12, CtrlFailedEffect DEF Moves, Leaves
    <3>3. thr'[u] = thr[u] /\ RegisteredAt(u) /\ PcAt(u)
      BY <3>2 DEF Others, Live, RegisteredOk, PcOk
    <3>4. QED
      BY <3>3, StillRegistered DEF RegisteredAt, PcAt, Walking
  <2>3. QED
    BY <2>1, <2>2, OldRegistered, <1>12, CtrlFailedEffect DEF RegisteredOk, flags, slice, cache, workVars
<1>13. ASSUME NEW t \in Threads, Begin(t)
      PROVE  RegisteredOk'
  <2>1. RegisteredAt(t)'
    BY <1>13, BeginEffect, ThreadType DEF RegisteredAt, Moves, Leaves
  <2>2. \A u \in Threads \ {t} : RegisteredAt(u)'
    <3>1. SUFFICES ASSUME NEW u \in Threads \ {t} PROVE RegisteredAt(u)'
      OBVIOUS
    <3>2. Others(t)
      BY <1>13, BeginEffect DEF Moves, Leaves
    <3>3. thr'[u] = thr[u] /\ RegisteredAt(u) /\ PcAt(u)
      BY <3>2 DEF Others, Live, RegisteredOk, PcOk
    <3>4. QED
      BY <3>3, StillRegistered DEF RegisteredAt, PcAt, Walking
  <2>3. QED
    BY <2>1, <2>2, OldRegistered, <1>13, BeginEffect DEF RegisteredOk, flags, slice, cache, workVars
<1>14. ASSUME NEW t \in Threads, Synced(t)
      PROVE  RegisteredOk'
  <2>1. RegisteredAt(t)'
    BY <1>14, SyncedEffect, ThreadType DEF RegisteredAt, Moves, Leaves
  <2>2. \A u \in Threads \ {t} : RegisteredAt(u)'
    <3>1. SUFFICES ASSUME NEW u \in Threads \ {t} PROVE RegisteredAt(u)'
      OBVIOUS
    <3>2. Others(t)
      BY <1>14, SyncedEffect DEF Moves, Leaves
    <3>3. thr'[u] = thr[u] /\ RegisteredAt(u) /\ PcAt(u)
      BY <3>2 DEF Others, Live, RegisteredOk, PcOk
    <3>4. QED
      BY <3>3, StillRegistered DEF RegisteredAt, PcAt, Walking
  <2>3. QED
    BY <2>1, <2>2, OldRegistered, <1>14, SyncedEffect DEF RegisteredOk, flags, slice, cache, workVars
<1>15. ASSUME NEW t \in Threads, Finish(t)
      PROVE  RegisteredOk'
  <2>1. RegisteredAt(t)'
    BY <1>15, FinishEffect, ThreadType DEF RegisteredAt, Moves, Leaves
  <2>2. \A u \in Threads \ {t} : RegisteredAt(u)'
    <3>1. SUFFICES ASSUME NEW u \in Threads \ {t} PROVE RegisteredAt(u)'
      OBVIOUS
    <3>2. Others(t)
      BY <1>15, FinishEffect DEF Moves, Leaves
    <3>3. thr'[u] = thr[u] /\ RegisteredAt(u) /\ PcAt(u)
      BY <3>2 DEF Others, Live, RegisteredOk, PcOk
    <3>4. QED
      BY <3>3, StillRegistered DEF RegisteredAt, PcAt, Walking
  <2>3. QED
    BY <2>1, <2>2, OldRegistered, <1>15, FinishEffect DEF RegisteredOk, flags, slice, cache, workVars
<1>16. ASSUME NEW g \in Kinds, InformerSyncs(g)
      PROVE  RegisteredOk'
  <2>1. thr' = thr /\ watching' = watching
    BY <1>16 DEF flags, slice, cache, workVars, InformerSyncs
  <2>2. \A u \in Threads : RegisteredAt(u) /\ PcAt(u)
    BY DEF Live, RegisteredOk, PcOk
  <2>3. \A u \in Threads : RegisteredAt(u)'
    BY <2>1, <2>2, StillRegistered DEF RegisteredAt, PcAt, Walking
  <2>4. QED
    BY <2>1, <2>3, OldRegistered DEF RegisteredOk
<1>17. ASSUME NEW g \in Kinds, NEW x \in Objects, Arrive(g, x)
      PROVE  RegisteredOk'
  <2>1. thr' = thr /\ watching' = watching
    BY <1>17 DEF flags, slice, cache, workVars, Arrive
  <2>2. \A u \in Threads : RegisteredAt(u) /\ PcAt(u)
    BY DEF Live, RegisteredOk, PcOk
  <2>3. \A u \in Threads : RegisteredAt(u)'
    BY <2>1, <2>2, StillRegistered DEF RegisteredAt, PcAt, Walking
  <2>4. QED
    BY <2>1, <2>3, OldRegistered DEF RegisteredOk
<1>18. ASSUME NEW g \in Kinds, NEW x \in Objects, OnChange(g, x)
      PROVE  RegisteredOk'
  <2>1. thr' = thr /\ watching' = watching
    BY <1>18, OnChangeEffect DEF flags, slice, cache, workVars
  <2>2. \A u \in Threads : RegisteredAt(u) /\ PcAt(u)
    BY DEF Live, RegisteredOk, PcOk
  <2>3. \A u \in Threads : RegisteredAt(u)'
    BY <2>1, <2>2, StillRegistered DEF RegisteredAt, PcAt, Walking
  <2>4. QED
    BY <2>1, <2>3, OldRegistered DEF RegisteredOk
<1>19. ASSUME NEW g \in Kinds, CallHandler(g)
      PROVE  RegisteredOk'
  <2>1. thr' = thr /\ watching' = watching
    BY <1>19, CallHandlerEffect DEF flags, slice, cache, workVars
  <2>2. \A u \in Threads : RegisteredAt(u) /\ PcAt(u)
    BY DEF Live, RegisteredOk, PcOk
  <2>3. \A u \in Threads : RegisteredAt(u)'
    BY <2>1, <2>2, StillRegistered DEF RegisteredAt, PcAt, Walking
  <2>4. QED
    BY <2>1, <2>3, OldRegistered DEF RegisteredOk
<1>20. ASSUME NEW g \in Kinds, OnChangeEnds(g)
      PROVE  RegisteredOk'
  <2>1. thr' = thr /\ watching' = watching
    BY <1>20, OnChangeEndsEffect DEF flags, slice, cache, workVars
  <2>2. \A u \in Threads : RegisteredAt(u) /\ PcAt(u)
    BY DEF Live, RegisteredOk, PcOk
  <2>3. \A u \in Threads : RegisteredAt(u)'
    BY <2>1, <2>2, StillRegistered DEF RegisteredAt, PcAt, Walking
  <2>4. QED
    BY <2>1, <2>3, OldRegistered DEF RegisteredOk
<1>21. ASSUME NEW g \in Kinds, Deregister(g)
      PROVE  RegisteredOk'
  <2>1. thr' = thr /\ watching' = watching
    BY <1>21, DeregisterEffect DEF flags, slice, cache, workVars
  <2>2. \A u \in Threads : RegisteredAt(u) /\ PcAt(u)
    BY DEF Live, RegisteredOk, PcOk
  <2>3. \A u \in Threads : RegisteredAt(u)'
    BY <2>1, <2>2, StillRegistered DEF RegisteredAt, PcAt, Walking
  <2>4. QED
    BY <2>1, <2>3, OldRegistered DEF RegisteredOk
<1>22. ASSUME NEW g \in Kinds, Reset(g)
      PROVE  RegisteredOk'
  <2>1. thr' = thr /\ watching' = watching
    BY <1>22 DEF flags, slice, cache, workVars, Reset
  <2>2. \A u \in Threads : RegisteredAt(u) /\ PcAt(u)
    BY DEF Live, RegisteredOk, PcOk
  <2>3. \A u \in Threads : RegisteredAt(u)'
    BY <2>1, <2>2, StillRegistered DEF RegisteredAt, PcAt, Walking
  <2>4. QED
    BY <2>1, <2>3, OldRegistered DEF RegisteredOk
<1>23. ASSUME NEW g \in Kinds, Drained(g)
      PROVE  RegisteredOk'
  <2>1. thr' = thr /\ watching' = watching
    BY <1>23 DEF flags, slice, cache, workVars, Drained
  <2>2. \A u \in Threads : RegisteredAt(u) /\ PcAt(u)
    BY DEF Live, RegisteredOk, PcOk
  <2>3. \A u \in Threads : RegisteredAt(u)'
    BY <2>1, <2>2, StillRegistered DEF RegisteredAt, PcAt, Walking
  <2>4. QED
    BY <2>1, <2>3, OldRegistered DEF RegisteredOk
<1>24. CASE Cancel
  <2>1. thr' = thr /\ watching' = watching
    BY <1>24 DEF flags, slice, cache, workVars, Cancel
  <2>2. \A u \in Threads : RegisteredAt(u) /\ PcAt(u)
    BY DEF Live, RegisteredOk, PcOk
  <2>3. \A u \in Threads : RegisteredAt(u)'
    BY <2>1, <2>2, StillRegistered DEF RegisteredAt, PcAt, Walking
  <2>4. QED
    BY <2>1, <2>3, OldRegistered DEF RegisteredOk
<1>25. QED
  BY <1>1, <1>2, <1>3, <1>4, <1>5, <1>6, <1>7, <1>8, <1>9, <1>10, <1>11, <1>12, <1>13, <1>14, <1>15, <1>16, <1>17, <1>18, <1>19, <1>20, <1>21, <1>22, <1>23, <1>24
     DEF Next, Step, Work, Ending

\* The entries of an OnChange under way stay what they were.
LEMMA WorkStep ==
    ASSUME Types, PcOk, SliceOk, MadeOk, Live, ~cancelled, ~cancelled', [Next]_vars
    PROVE  WorkOk'
<1>1. CASE UNCHANGED vars
  <2>1. work' = work
    BY <1>1 DEF vars, flags, slice, cache, workVars
  <2>2. \A h \in Kinds : WorkAt(h) /\ work[h] \in Works
    BY DEF Live, WorkOk, Types
  <2>3. QED
    BY <2>1, <2>2, GrowStep DEF WorkOk, WorkAt, Works
<1>2. ASSUME NEW t \in Threads, NEW host \in Kinds \cup {None}, Call(t, host)
      PROVE  WorkOk'
  <2>1. work' = work
    BY <1>2, CallEffect DEF flags, slice, cache, workVars
  <2>2. \A h \in Kinds : WorkAt(h) /\ work[h] \in Works
    BY DEF Live, WorkOk, Types
  <2>3. QED
    BY <2>1, <2>2, GrowStep DEF WorkOk, WorkAt, Works
<1>3. ASSUME NEW t \in Threads, WatchEnd(t)
      PROVE  WorkOk'
  <2>1. work' = work
    BY <1>3, WatchEndEffect DEF flags, slice, cache, workVars
  <2>2. \A h \in Kinds : WorkAt(h) /\ work[h] \in Works
    BY DEF Live, WorkOk, Types
  <2>3. QED
    BY <2>1, <2>2, GrowStep DEF WorkOk, WorkAt, Works
<1>4. ASSUME NEW t \in Threads, NEW g \in Kinds, ForKind(t, g)
      PROVE  WorkOk'
  <2>1. work' = work
    BY <1>4, ForKindEffect DEF flags, slice, cache, workVars
  <2>2. \A h \in Kinds : WorkAt(h) /\ work[h] \in Works
    BY DEF Live, WorkOk, Types
  <2>3. QED
    BY <2>1, <2>2, GrowStep DEF WorkOk, WorkAt, Works
<1>5. ASSUME NEW t \in Threads, InitController(t)
      PROVE  WorkOk'
  <2>1. work' = work
    BY <1>5, InitControllerEffect DEF flags, slice, cache, workVars
  <2>2. \A h \in Kinds : WorkAt(h) /\ work[h] \in Works
    BY DEF Live, WorkOk, Types
  <2>3. QED
    BY <2>1, <2>2, GrowStep DEF WorkOk, WorkAt, Works
<1>6. ASSUME NEW t \in Threads, Register(t)
      PROVE  WorkOk'
  <2>1. SUFFICES ASSUME NEW h \in Kinds PROVE WorkAt(h)'
    BY DEF WorkOk
  <2>2. WorkAt(h) /\ work[h] \in Works /\ arr[h] \in Seq(Sets \cup {None}) /\ len[h] <= Len(arr[h])
    BY DEF Live, WorkOk, Types, SliceOk, SliceAt
  <2>3. CASE h # thr[t].run.kind
    BY <1>6, RegisterEffect, <2>2, <2>3, GrowStep DEF WorkAt, Works
  <2>4. CASE h = thr[t].run.kind
    <3>1. work'[h].obj = work[h].obj /\ work'[h].i = work[h].i /\ work'[h].n = work[h].n
      BY <1>6, RegisterEffect, <2>4
    <3>2. CASE work'[h].own = work[h].own
      BY <2>2, <3>1, <3>2, GrowStep DEF WorkAt, Works
    <3>3. CASE work'[h].own = arr[h]
      BY <2>2, <3>1, <3>3, GrowStep DEF WorkAt, Works
    <3>4. QED
      BY <1>6, RegisterEffect, <2>4, <3>2, <3>3
  <2>5. QED
    BY <2>3, <2>4
<1>7. ASSUME NEW t \in Threads, ListExisting(t)
      PROVE  WorkOk'
  <2>1. work' = work
    BY <1>7, ListExistingEffect DEF flags, slice, cache, workVars
  <2>2. \A h \in Kinds : WorkAt(h) /\ work[h] \in Works
    BY DEF Live, WorkOk, Types
  <2>3. QED
    BY <2>1, <2>2, GrowStep DEF WorkOk, WorkAt, Works
<1>8. ASSUME NEW t \in Threads, HasStarted(t)
      PROVE  WorkOk'
  <2>1. work' = work
    BY <1>8, HasStartedEffect DEF flags, slice, cache, workVars
  <2>2. \A h \in Kinds : WorkAt(h) /\ work[h] \in Works
    BY DEF Live, WorkOk, Types
  <2>3. QED
    BY <2>1, <2>2, GrowStep DEF WorkOk, WorkAt, Works
<1>9. ASSUME NEW t \in Threads, Watched(t)
      PROVE  WorkOk'
  <2>1. work' = work
    BY <1>9, WatchedEffect DEF flags, slice, cache, workVars
  <2>2. \A h \in Kinds : WorkAt(h) /\ work[h] \in Works
    BY DEF Live, WorkOk, Types
  <2>3. QED
    BY <2>1, <2>2, GrowStep DEF WorkOk, WorkAt, Works
<1>10. ASSUME NEW t \in Threads, NEW g \in Kinds, StartShared(t, g)
      PROVE  WorkOk'
  <2>1. work' = work
    BY <1>10, StartSharedEffect DEF flags, slice, cache, workVars
  <2>2. \A h \in Kinds : WorkAt(h) /\ work[h] \in Works
    BY DEF Live, WorkOk, Types
  <2>3. QED
    BY <2>1, <2>2, GrowStep DEF WorkOk, WorkAt, Works
<1>11. ASSUME NEW t \in Threads, CtrlStarted(t)
      PROVE  WorkOk'
  <2>1. work' = work
    BY <1>11, CtrlStartedEffect DEF flags, slice, cache, workVars
  <2>2. \A h \in Kinds : WorkAt(h) /\ work[h] \in Works
    BY DEF Live, WorkOk, Types
  <2>3. QED
    BY <2>1, <2>2, GrowStep DEF WorkOk, WorkAt, Works
<1>12. ASSUME NEW t \in Threads, CtrlFailed(t)
      PROVE  WorkOk'
  <2>1. work' = work
    BY <1>12, CtrlFailedEffect DEF flags, slice, cache, workVars
  <2>2. \A h \in Kinds : WorkAt(h) /\ work[h] \in Works
    BY DEF Live, WorkOk, Types
  <2>3. QED
    BY <2>1, <2>2, GrowStep DEF WorkOk, WorkAt, Works
<1>13. ASSUME NEW t \in Threads, Begin(t)
      PROVE  WorkOk'
  <2>1. work' = work
    BY <1>13, BeginEffect DEF flags, slice, cache, workVars
  <2>2. \A h \in Kinds : WorkAt(h) /\ work[h] \in Works
    BY DEF Live, WorkOk, Types
  <2>3. QED
    BY <2>1, <2>2, GrowStep DEF WorkOk, WorkAt, Works
<1>14. ASSUME NEW t \in Threads, Synced(t)
      PROVE  WorkOk'
  <2>1. work' = work
    BY <1>14, SyncedEffect DEF flags, slice, cache, workVars
  <2>2. \A h \in Kinds : WorkAt(h) /\ work[h] \in Works
    BY DEF Live, WorkOk, Types
  <2>3. QED
    BY <2>1, <2>2, GrowStep DEF WorkOk, WorkAt, Works
<1>15. ASSUME NEW t \in Threads, Finish(t)
      PROVE  WorkOk'
  <2>1. work' = work
    BY <1>15, FinishEffect DEF flags, slice, cache, workVars
  <2>2. \A h \in Kinds : WorkAt(h) /\ work[h] \in Works
    BY DEF Live, WorkOk, Types
  <2>3. QED
    BY <2>1, <2>2, GrowStep DEF WorkOk, WorkAt, Works
<1>16. ASSUME NEW g \in Kinds, InformerSyncs(g)
      PROVE  WorkOk'
  <2>1. work' = work
    BY <1>16 DEF flags, slice, cache, workVars, InformerSyncs
  <2>2. \A h \in Kinds : WorkAt(h) /\ work[h] \in Works
    BY DEF Live, WorkOk, Types
  <2>3. QED
    BY <2>1, <2>2, GrowStep DEF WorkOk, WorkAt, Works
<1>17. ASSUME NEW g \in Kinds, NEW x \in Objects, Arrive(g, x)
      PROVE  WorkOk'
  <2>1. work' = work
    BY <1>17 DEF flags, slice, cache, workVars, Arrive
  <2>2. \A h \in Kinds : WorkAt(h) /\ work[h] \in Works
    BY DEF Live, WorkOk, Types
  <2>3. QED
    BY <2>1, <2>2, GrowStep DEF WorkOk, WorkAt, Works
<1>18. ASSUME NEW g \in Kinds, NEW x \in Objects, OnChange(g, x)
      PROVE  WorkOk'
  <2>1. SUFFICES ASSUME NEW h \in Kinds PROVE WorkAt(h)'
    BY DEF WorkOk
  <2>2. WorkAt(h) /\ work[h] \in Works
    BY DEF Live, WorkOk, Types
  <2>3. CASE h # g
    BY <1>18, OnChangeEffect, <2>2, <2>3, GrowStep DEF WorkAt, Works
  <2>4. CASE h = g
    BY <1>18, OnChangeEffect, <2>2, <2>4, GrowStep DEF WorkAt, Works
  <2>5. QED
    BY <2>3, <2>4
<1>19. ASSUME NEW g \in Kinds, CallHandler(g)
      PROVE  WorkOk'
  <2>1. SUFFICES ASSUME NEW h \in Kinds PROVE WorkAt(h)'
    BY DEF WorkOk
  <2>2. WorkAt(h) /\ work[h] \in Works
    BY DEF Live, WorkOk, Types
  <2>3. CASE h # g
    BY <1>19, CallHandlerEffect, <2>2, <2>3, GrowStep DEF WorkAt, Works
  <2>4. CASE h = g
    BY <1>19, CallHandlerEffect, <2>2, <2>4, GrowStep DEF WorkAt, Works
  <2>5. QED
    BY <2>3, <2>4
<1>20. ASSUME NEW g \in Kinds, OnChangeEnds(g)
      PROVE  WorkOk'
  <2>1. SUFFICES ASSUME NEW h \in Kinds PROVE WorkAt(h)'
    BY DEF WorkOk
  <2>2. WorkAt(h) /\ work[h] \in Works
    BY DEF Live, WorkOk, Types
  <2>3. CASE h # g
    BY <1>20, OnChangeEndsEffect, <2>2, <2>3, GrowStep DEF WorkAt, Works
  <2>4. CASE h = g
    BY <1>20, OnChangeEndsEffect, <2>2, <2>4, GrowStep DEF WorkAt, Works
  <2>5. QED
    BY <2>3, <2>4
<1>21. ASSUME NEW g \in Kinds, Deregister(g)
      PROVE  WorkOk'
  <2>1. work' = work
    BY <1>21, DeregisterEffect DEF flags, slice, cache, workVars
  <2>2. \A h \in Kinds : WorkAt(h) /\ work[h] \in Works
    BY DEF Live, WorkOk, Types
  <2>3. QED
    BY <2>1, <2>2, GrowStep DEF WorkOk, WorkAt, Works
<1>22. ASSUME NEW g \in Kinds, Reset(g)
      PROVE  WorkOk'
  <2>1. work' = work
    BY <1>22 DEF flags, slice, cache, workVars, Reset
  <2>2. \A h \in Kinds : WorkAt(h) /\ work[h] \in Works
    BY DEF Live, WorkOk, Types
  <2>3. QED
    BY <2>1, <2>2, GrowStep DEF WorkOk, WorkAt, Works
<1>23. ASSUME NEW g \in Kinds, Drained(g)
      PROVE  WorkOk'
  <2>1. work' = work
    BY <1>23 DEF flags, slice, cache, workVars, Drained
  <2>2. \A h \in Kinds : WorkAt(h) /\ work[h] \in Works
    BY DEF Live, WorkOk, Types
  <2>3. QED
    BY <2>1, <2>2, GrowStep DEF WorkOk, WorkAt, Works
<1>24. CASE Cancel
  <2>1. work' = work
    BY <1>24 DEF flags, slice, cache, workVars, Cancel
  <2>2. \A h \in Kinds : WorkAt(h) /\ work[h] \in Works
    BY DEF Live, WorkOk, Types
  <2>3. QED
    BY <2>1, <2>2, GrowStep DEF WorkOk, WorkAt, Works
<1>25. QED
  BY <1>1, <1>2, <1>3, <1>4, <1>5, <1>6, <1>7, <1>8, <1>9, <1>10, <1>11, <1>12, <1>13, <1>14, <1>15, <1>16, <1>17, <1>18, <1>19, <1>20, <1>21, <1>22, <1>23, <1>24
     DEF Next, Step, Work, Ending

\* A thread that has to list the objects of h still has to.
ListKept(h) ==
    \A u \in Threads : thr[u].run.pc = "list" /\ thr[u].run.kind = h
                       => thr'[u].run.pc = "list" /\ thr'[u].run.kind = h

\* Nothing is taken from object x on its way to entry i of h.
LEMMA ReachKept ==
    ASSUME NEW h \in Kinds, NEW i, NEW x, Reaches(h, i, x), due[h] \subseteq due'[h], seen \subseteq seen',
           work'[h].obj = work[h].obj, work'[h].i = work[h].i, work'[h].n = work[h].n,
           arr'[h][i] = arr[h][i], ListKept(h)
    PROVE  Reaches(h, i, x)'
<1>1. CASE x \in due[h] \/ <<arr[h][i], h, x>> \in seen \/ (work[h].obj = x /\ work[h].i <= i /\ i <= work[h].n)
  BY <1>1 DEF Reaches
<1>2. CASE \E t \in Threads : thr[t].run.pc = "list" /\ thr[t].run.kind = h /\ SetOf[t] = arr[h][i]
  BY <1>2 DEF Reaches, ListKept
<1>3. QED
  BY <1>1, <1>2 DEF Reaches

LEMMA ReachSame ==
    ASSUME Types, ReachOk, UNCHANGED <<slice, cache, work, seen>>, started' \subseteq started,
           \A h \in Kinds : due[h] \subseteq due'[h], \A h \in Kinds : ListKept(h)
    PROVE  ReachOk'
<1>1. SUFFICES ASSUME NEW h \in started', NEW i \in 1..len'[h], NEW x \in cached'[h]
               PROVE  Reaches(h, i, x)'
  BY DEF ReachOk
<1>2. h \in Kinds /\ h \in started /\ len' = len /\ cached' = cached /\ work' = work /\ arr' = arr /\ seen' = seen
  BY DEF Types, slice, cache
<1>3. Reaches(h, i, x)
  BY <1>2 DEF ReachOk
<1>4. QED
  BY <1>2, <1>3, ReachKept

\* A thread that is not at "list" takes a step.
LEMMA ListElsewhere ==
    ASSUME NEW t \in Threads, thr[t].run.pc # "list", Others(t)
    PROVE  \A h \in Kinds : ListKept(h)
BY DEF ListKept, Others

\* No object of a started kind is lost on its way to a registered set.
LEMMA ReachStep ==
    ASSUME Types, PcOk, SliceOk, MadeOk, Live, ~cancelled, ~cancelled', [Next]_vars
    PROVE  ReachOk'
<1>1. CASE UNCHANGED vars
  <2>1. /\ UNCHANGED <<slice, cache, work, seen>> /\ started' \subseteq started
        /\ \A h \in Kinds : due[h] \subseteq due'[h] /\ ListKept(h)
    BY <1>1 DEF vars, flags, slice, cache, workVars, ListKept
  <2>2. QED
    BY <2>1, ReachSame DEF Live
<1>2. ASSUME NEW t \in Threads, NEW host \in Kinds \cup {None}, Call(t, host)
      PROVE  ReachOk'
  <2>1. /\ UNCHANGED <<slice, cache, work, seen>> /\ started' \subseteq started
        /\ \A h \in Kinds : due[h] \subseteq due'[h]
    BY <1>2, CallEffect DEF flags, slice, cache, workVars
  <2>2. thr[t].run.pc # "list" /\ Others(t)
    BY <1>2, CallEffect DEF Moves, Leaves
  <2>3. QED
    BY <2>1, <2>2, ReachSame, ListElsewhere DEF Live
<1>3. ASSUME NEW t \in Threads, WatchEnd(t)
      PROVE  ReachOk'
  <2>1. /\ UNCHANGED <<slice, cache, work, seen>> /\ started' \subseteq started
        /\ \A h \in Kinds : due[h] \subseteq due'[h]
    BY <1>3, WatchEndEffect DEF flags, slice, cache, workVars
  <2>2. thr[t].run.pc # "list" /\ Others(t)
    BY <1>3, WatchEndEffect DEF Moves, Leaves
  <2>3. QED
    BY <2>1, <2>2, ReachSame, ListElsewhere DEF Live
<1>4. ASSUME NEW t \in Threads, NEW g \in Kinds, ForKind(t, g)
      PROVE  ReachOk'
  <2>1. /\ UNCHANGED <<slice, cache, work, seen>> /\ started' \subseteq started
        /\ \A h \in Kinds : due[h] \subseteq due'[h]
    BY <1>4, ForKindEffect DEF flags, slice, cache, workVars
  <2>2. thr[t].run.pc # "list" /\ Others(t)
    BY <1>4, ForKindEffect DEF Moves, Leaves
  <2>3. QED
    BY <2>1, <2>2, ReachSame, ListElsewhere DEF Live
<1>5. ASSUME NEW t \in Threads, InitController(t)
      PROVE  ReachOk'
  <2>1. /\ UNCHANGED <<slice, cache, work, seen>> /\ started' \subseteq started
        /\ \A h \in Kinds : due[h] \subseteq due'[h]
    BY <1>5, InitControllerEffect DEF flags, slice, cache, workVars
  <2>2. thr[t].run.pc # "list" /\ Others(t)
    BY <1>5, InitControllerEffect DEF Moves, Leaves
  <2>3. QED
    BY <2>1, <2>2, ReachSame, ListElsewhere DEF Live
<1>6. ASSUME NEW t \in Threads, Register(t)
      PROVE  ReachOk'
  <2>1. SUFFICES ASSUME NEW h \in started', NEW i \in 1..len'[h], NEW x \in cached'[h]
                PROVE  Reaches(h, i, x)'
    BY DEF ReachOk
  <2>2. h \in started /\ h \in Kinds /\ x \in cached[h] /\ due' = due /\ seen' = seen
    BY <1>6, RegisterEffect DEF flags, slice, cache, workVars, Types
  <2>3. \A u \in Threads \ {t} : thr'[u] = thr[u]
    BY <1>6, RegisterEffect DEF Moves, Others
  <2>4. ListKept(h)
    BY <1>6, RegisterEffect, <2>3 DEF ListKept
  <2>5. work'[h].obj = work[h].obj /\ work'[h].i = work[h].i /\ work'[h].n = work[h].n
    BY <1>6, RegisterEffect, <2>2
  <2>6. CASE i \in 1..len[h]
    <3>1. Reaches(h, i, x) /\ arr'[h][i] = arr[h][i]
      BY <2>2, <2>6, GrowStep DEF Live, ReachOk
    <3>2. QED
      BY <2>2, <2>4, <2>5, <3>1, ReachKept
  <2>7. CASE i \notin 1..len[h]
    <3>1. /\ thr[t].run.kind \in Kinds /\ len' = [len EXCEPT ![thr[t].run.kind] = @ + 1]
          /\ arr'[thr[t].run.kind][len[thr[t].run.kind] + 1] = SetOf[t]
          /\ thr'[t].run.pc = "list" /\ thr'[t].run.kind = thr[t].run.kind
      BY <1>6, RegisterEffect DEF Moves
    <3>2. h = thr[t].run.kind /\ i = len[h] + 1
      BY <2>2, <2>7, <3>1 DEF Types
    <3>3. QED
      BY <3>1, <3>2 DEF Reaches
  <2>8. QED
    BY <2>6, <2>7
<1>7. ASSUME NEW t \in Threads, ListExisting(t)
      PROVE  ReachOk'
  <2>1. SUFFICES ASSUME NEW h \in started', NEW i \in 1..len'[h], NEW x \in cached'[h]
                PROVE  Reaches(h, i, x)'
    BY DEF ReachOk
  <2>2. h \in started /\ h \in Kinds /\ UNCHANGED <<len, arr, cached, work, seen>>
    BY <1>7, ListExistingEffect DEF flags, slice, cache, workVars, Types
  <2>3. Reaches(h, i, x)
    BY <2>2 DEF Live, ReachOk
  <2>4. /\ thr[t].run.kind \in Kinds /\ Others(t)
        /\ due' = IF thr[t].run.kind \in started
                  THEN [due EXCEPT ![thr[t].run.kind] = @ \cup cached[thr[t].run.kind]] ELSE due
    BY <1>7, ListExistingEffect DEF Moves
  <2>5. CASE h = thr[t].run.kind
    <3>1. x \in due'[h]
      BY <2>2, <2>4, <2>5 DEF Types
    <3>2. QED
      BY <3>1 DEF Reaches
  <2>6. CASE h # thr[t].run.kind
    <3>1. ListKept(h) /\ due'[h] = due[h]
      BY <2>2, <2>4, <2>6 DEF ListKept, Others, Types
    <3>2. QED
      BY <2>2, <2>3, <3>1, ReachKept
  <2>7. QED
    BY <2>5, <2>6
<1>8. ASSUME NEW t \in Threads, HasStarted(t)
      PROVE  ReachOk'
  <2>1. /\ UNCHANGED <<slice, cache, work, seen>> /\ started' \subseteq started
        /\ \A h \in Kinds : due[h] \subseteq due'[h]
    BY <1>8, HasStartedEffect DEF flags, slice, cache, workVars
  <2>2. thr[t].run.pc # "list" /\ Others(t)
    BY <1>8, HasStartedEffect DEF Moves, Leaves
  <2>3. QED
    BY <2>1, <2>2, ReachSame, ListElsewhere DEF Live
<1>9. ASSUME NEW t \in Threads, Watched(t)
      PROVE  ReachOk'
  <2>1. /\ UNCHANGED <<slice, cache, work, seen>> /\ started' \subseteq started
        /\ \A h \in Kinds : due[h] \subseteq due'[h]
    BY <1>9, WatchedEffect DEF flags, slice, cache, workVars
  <2>2. thr[t].run.pc # "list" /\ Others(t)
    BY <1>9, WatchedEffect DEF Moves, Leaves
  <2>3. QED
    BY <2>1, <2>2, ReachSame, ListElsewhere DEF Live
<1>10. ASSUME NEW t \in Threads, NEW g \in Kinds, StartShared(t, g)
      PROVE  ReachOk'
  <2>1. /\ UNCHANGED <<slice, cache, work, seen>> /\ started' \subseteq started
        /\ \A h \in Kinds : due[h] \subseteq due'[h]
    BY <1>10, StartSharedEffect DEF flags, slice, cache, workVars
  <2>2. thr[t].run.pc # "list" /\ Others(t)
    BY <1>10, StartSharedEffect DEF Moves, Leaves
  <2>3. QED
    BY <2>1, <2>2, ReachSame, ListElsewhere DEF Live
<1>11. ASSUME NEW t \in Threads, CtrlStarted(t)
      PROVE  ReachOk'
  <2>1. SUFFICES ASSUME NEW h \in started', NEW i \in 1..len'[h], NEW x \in cached'[h]
                PROVE  Reaches(h, i, x)'
    BY DEF ReachOk
  <2>2. /\ thr[t].run.kind \in Kinds /\ Others(t) /\ thr[t].run.pc # "list"
        /\ started' = started \cup {thr[t].run.kind}
        /\ due' = IF thr[t].run.kind \in running \/ cancelled THEN due
                  ELSE [due EXCEPT ![thr[t].run.kind] = @ \cup cached[thr[t].run.kind]]
    BY <1>11, CtrlStartedEffect DEF Moves
  <2>3. h \in Kinds /\ UNCHANGED <<len, arr, cached, work, seen>>
    BY <1>11, CtrlStartedEffect, <2>2 DEF flags, slice, cache, workVars, Types
  <2>4. CASE h \in started
    <3>1. Reaches(h, i, x) /\ due[h] \subseteq due'[h]
      BY <2>2, <2>3, <2>4 DEF Live, ReachOk, Types
    <3>2. QED
      BY <2>2, <2>3, <3>1, ReachKept, ListElsewhere
  <2>5. CASE h \notin started
    <3>1. h = thr[t].run.kind /\ h \notin running
      BY <2>2, <2>5 DEF Live, FlagsOk
    <3>2. x \in due'[h]
      BY <2>2, <2>3, <3>1 DEF Types
    <3>3. QED
      BY <3>2 DEF Reaches
  <2>6. QED
    BY <2>4, <2>5
<1>12. ASSUME NEW t \in Threads, CtrlFailed(t)
      PROVE  ReachOk'
  <2>1. /\ UNCHANGED <<slice, cache, work, seen>> /\ started' \subseteq started
        /\ \A h \in Kinds : due[h] \subseteq due'[h]
    BY <1>12, CtrlFailedEffect DEF flags, slice, cache, workVars
  <2>2. thr[t].run.pc # "list" /\ Others(t)
    BY <1>12, CtrlFailedEffect DEF Moves, Leaves
  <2>3. QED
    BY <2>1, <2>2, ReachSame, ListElsewhere DEF Live
<1>13. ASSUME NEW t \in Threads, Begin(t)
      PROVE  ReachOk'
  <2>1. SUFFICES ASSUME NEW h \in started', NEW i \in 1..len'[h], NEW x \in cached'[h]
                PROVE  Reaches(h, i, x)'
    BY DEF ReachOk
  <2>2. h \in Kinds /\ h \in started /\ UNCHANGED <<len, arr, cached, work, due, seen>>
    BY <1>13, BeginEffect DEF flags, slice, cache, workVars, Types
  <2>3. Reaches(h, i, x) /\ thr[t].run.pc # "list" /\ Others(t)
    BY <1>13, BeginEffect, <2>2 DEF Live, ReachOk, Moves
  <2>4. QED
    BY <2>2, <2>3, ReachKept, ListElsewhere
<1>14. ASSUME NEW t \in Threads, Synced(t)
      PROVE  ReachOk'
  <2>1. /\ UNCHANGED <<slice, cache, work, seen>> /\ started' \subseteq started
        /\ \A h \in Kinds : due[h] \subseteq due'[h]
    BY <1>14, SyncedEffect DEF flags, slice, cache, workVars
  <2>2. thr[t].run.pc # "list" /\ Others(t)
    BY <1>14, SyncedEffect DEF Moves, Leaves
  <2>3. QED
    BY <2>1, <2>2, ReachSame, ListElsewhere DEF Live
<1>15. ASSUME NEW t \in Threads, Finish(t)
      PROVE  ReachOk'
  <2>1. /\ UNCHANGED <<slice, cache, work, seen>> /\ started' \subseteq started
        /\ \A h \in Kinds : due[h] \subseteq due'[h]
    BY <1>15, FinishEffect DEF flags, slice, cache, workVars
  <2>2. thr[t].run.pc # "list" /\ Others(t)
    BY <1>15, FinishEffect DEF Moves, Leaves
  <2>3. QED
    BY <2>1, <2>2, ReachSame, ListElsewhere DEF Live
<1>16. ASSUME NEW g \in Kinds, InformerSyncs(g)
      PROVE  ReachOk'
  <2>1. SUFFICES ASSUME NEW h \in started', NEW i \in 1..len'[h], NEW x \in cached'[h]
                PROVE  Reaches(h, i, x)'
    BY DEF ReachOk
  <2>2. /\ h \in started /\ h \in Kinds /\ UNCHANGED <<thr, len, arr, work, due, seen>>
        /\ cached' = [cached EXCEPT ![g] = @ \cup Initial[g]] /\ g \notin synced
    BY <1>16 DEF flags, slice, cache, workVars, InformerSyncs, Types
  <2>3. h # g
    BY <2>2 DEF Live, FlagsOk
  <2>4. x \in cached[h] /\ ListKept(h)
    BY <2>2, <2>3 DEF Types, ListKept
  <2>5. Reaches(h, i, x)
    BY <2>2, <2>4 DEF Live, ReachOk
  <2>6. QED
    BY <2>2, <2>4, <2>5, ReachKept
<1>17. ASSUME NEW g \in Kinds, NEW x \in Objects, Arrive(g, x)
      PROVE  ReachOk'
  <2>1. SUFFICES ASSUME NEW h \in started', NEW i \in 1..len'[h], NEW y \in cached'[h]
                PROVE  Reaches(h, i, y)'
    BY DEF ReachOk
  <2>2. /\ h \in started /\ h \in Kinds /\ UNCHANGED <<thr, len, arr, work, seen>>
        /\ cached' = [cached EXCEPT ![g] = @ \cup {x}]
        /\ due' = IF g \in running THEN [due EXCEPT ![g] = @ \cup {x}] ELSE due
    BY <1>17 DEF flags, slice, cache, workVars, Arrive, Types
  <2>3. ListKept(h) /\ due[h] \subseteq due'[h] /\ h \in running
    BY <2>2 DEF ListKept, Types, Live, FlagsOk
  <2>4. CASE y \in cached[h]
    <3>1. Reaches(h, i, y)
      BY <2>2, <2>4 DEF Live, ReachOk
    <3>2. QED
      BY <2>2, <2>3, <3>1, ReachKept
  <2>5. CASE y \notin cached[h]
    <3>1. y \in due'[h]
      BY <2>2, <2>3, <2>5 DEF Types
    <3>2. QED
      BY <3>1 DEF Reaches
  <2>6. QED
    BY <2>4, <2>5
<1>18. ASSUME NEW g \in Kinds, NEW x \in Objects, OnChange(g, x)
      PROVE  ReachOk'
  <2>1. SUFFICES ASSUME NEW h \in started', NEW i \in 1..len'[h], NEW y \in cached'[h]
                PROVE  Reaches(h, i, y)'
    BY DEF ReachOk
  <2>2. /\ h \in started /\ h \in Kinds /\ UNCHANGED <<thr, len, arr, cached>>
        /\ \A q \in Kinds \ {g} : work'[q] = work[q]
    BY <1>18, OnChangeEffect DEF flags, slice, cache, workVars, Types
  <2>3. Reaches(h, i, y) /\ ListKept(h) /\ y # None /\ len[g] \in Nat
    BY <2>2, SharedAssumption DEF Live, ReachOk, ListKept, Types
  <2>4. CASE h # g
    <3>1. due[h] \subseteq due'[h] /\ seen \subseteq seen'
      BY <1>18, OnChangeEffect, <2>2, <2>4 DEF Types
    <3>2. QED
      BY <2>2, <2>3, <2>4, <3>1, ReachKept
  <2>5. CASE h = g
    <3>1. CASE y = x
      BY <1>18, OnChangeEffect, <2>2, <2>5, <3>1 DEF Reaches
    <3>2. CASE y # x
      <4>1. due' = [due EXCEPT ![g] = @ \ {x}] /\ seen' = seen /\ work[g].obj = None
        BY <1>18, OnChangeEffect
      <4>2. y \in due[h] => y \in due'[h]
        BY <4>1, <3>2 DEF Types
      <4>3. QED
        BY <2>2, <2>3, <2>5, <4>1, <4>2 DEF Reaches
    <3>3. QED
      BY <3>1, <3>2
  <2>6. QED
    BY <2>4, <2>5
<1>19. ASSUME NEW g \in Kinds, CallHandler(g)
      PROVE  ReachOk'
  <2>1. SUFFICES ASSUME NEW h \in started', NEW i \in 1..len'[h], NEW y \in cached'[h]
                PROVE  Reaches(h, i, y)'
    BY DEF ReachOk
  <2>2. /\ h \in started /\ h \in Kinds /\ UNCHANGED <<thr, len, arr, cached>>
        /\ \A q \in Kinds \ {g} : work'[q] = work[q]
    BY <1>19, CallHandlerEffect DEF flags, slice, cache, workVars, Types
  <2>3. Reaches(h, i, y) /\ ListKept(h) /\ y # None /\ len[g] \in Nat
    BY <2>2, SharedAssumption DEF Live, ReachOk, ListKept, Types
  <2>4. CASE h # g
    <3>1. due[h] \subseteq due'[h] /\ seen \subseteq seen'
      BY <1>19, CallHandlerEffect, <2>2, <2>4 DEF Types
    <3>2. QED
      BY <2>2, <2>3, <2>4, <3>1, ReachKept
  <2>5. CASE h = g
    <3>1. /\ due' = due /\ work'[h].obj = work[h].obj /\ work'[h].i = work[h].i + 1 /\ work'[h].n = work[h].n
          /\ seen' = IF Entry(h) = None THEN seen ELSE seen \cup {<<Entry(h), h, work[h].obj>>}
      BY <1>19, CallHandlerEffect, <2>5
    <3>2. work[h] \in Works /\ WorkAt(h) /\ work[h].i \in Nat /\ i \in Nat /\ work[h].n \in Nat
      BY <2>2 DEF Types, Live, WorkOk, Works
    <3>3. CASE work[h].obj = y /\ work[h].i <= i /\ i <= work[h].n
      <4>1. CASE work[h].i = i
        <5>1. i \in 1..len[h] /\ i \in 1..work[h].n
          BY <2>2, <2>3, <3>3, <4>1
        <5>2. Entry(h) = arr[h][i]
          BY <2>3, <3>2, <3>3, <4>1, <5>1 DEF Entry, WorkAt
        <5>3. arr[h][i] # None
          BY <2>2, <5>1, SharedAssumption DEF SliceOk, SliceAt
        <5>4. QED
          BY <2>2, <3>1, <3>3, <5>2, <5>3 DEF Reaches
      <4>2. CASE work[h].i # i
        <5>1. work'[h].i <= i
          BY <3>1, <3>2, <3>3, <4>2
        <5>2. QED
          BY <3>1, <3>3, <5>1 DEF Reaches
      <4>3. QED
        BY <4>1, <4>2
    <3>4. CASE ~(work[h].obj = y /\ work[h].i <= i /\ i <= work[h].n)
      BY <2>2, <2>3, <3>1, <3>4 DEF Reaches
    <3>5. QED
      BY <3>3, <3>4
  <2>6. QED
    BY <2>4, <2>5
<1>20. ASSUME NEW g \in Kinds, OnChangeEnds(g)
      PROVE  ReachOk'
  <2>1. SUFFICES ASSUME NEW h \in started', NEW i \in 1..len'[h], NEW y \in cached'[h]
                PROVE  Reaches(h, i, y)'
    BY DEF ReachOk
  <2>2. /\ h \in started /\ h \in Kinds /\ UNCHANGED <<thr, len, arr, cached>>
        /\ \A q \in Kinds \ {g} : work'[q] = work[q]
    BY <1>20, OnChangeEndsEffect DEF flags, slice, cache, workVars, Types
  <2>3. Reaches(h, i, y) /\ ListKept(h) /\ y # None /\ len[g] \in Nat
    BY <2>2, SharedAssumption DEF Live, ReachOk, ListKept, Types
  <2>4. CASE h # g
    <3>1. due[h] \subseteq due'[h] /\ seen \subseteq seen'
      BY <1>20, OnChangeEndsEffect, <2>2, <2>4 DEF Types
    <3>2. QED
      BY <2>2, <2>3, <2>4, <3>1, ReachKept
  <2>5. CASE h = g
    <3>1. due' = due /\ seen' = seen /\ work[h].i > work[h].n
      BY <1>20, OnChangeEndsEffect, <2>5
    <3>2. work[h].i \in Nat /\ work[h].n \in Nat /\ i \in Nat
      BY <2>2 DEF Types, Works
    <3>3. QED
      BY <2>2, <2>3, <3>1, <3>2 DEF Reaches
  <2>6. QED
    BY <2>4, <2>5
<1>21. ASSUME NEW g \in Kinds, Deregister(g)
      PROVE  ReachOk'
  <2>1. /\ UNCHANGED <<slice, cache, work, seen>> /\ started' \subseteq started
        /\ \A h \in Kinds : due[h] \subseteq due'[h] /\ ListKept(h)
    BY <1>21, DeregisterEffect DEF flags, slice, cache, workVars, ListKept
  <2>2. QED
    BY <2>1, ReachSame DEF Live
<1>22. ASSUME NEW g \in Kinds, Reset(g)
      PROVE  ReachOk'
  <2>1. /\ UNCHANGED <<slice, cache, work, seen>> /\ started' \subseteq started
        /\ \A h \in Kinds : due[h] \subseteq due'[h] /\ ListKept(h)
    BY <1>22 DEF flags, slice, cache, workVars, Reset, ListKept
  <2>2. QED
    BY <2>1, ReachSame DEF Live
<1>23. ASSUME NEW g \in Kinds, Drained(g)
      PROVE  ReachOk'
  <2>1. /\ UNCHANGED <<slice, cache, work, seen>> /\ started' \subseteq started
        /\ \A h \in Kinds : due[h] \subseteq due'[h] /\ ListKept(h)
    BY <1>23 DEF flags, slice, cache, workVars, Drained, ListKept
  <2>2. QED
    BY <2>1, ReachSame DEF Live
<1>24. CASE Cancel
  <2>1. /\ UNCHANGED <<slice, cache, work, seen>> /\ started' \subseteq started
        /\ \A h \in Kinds : due[h] \subseteq due'[h] /\ ListKept(h)
    BY <1>24 DEF flags, slice, cache, workVars, Cancel, ListKept
  <2>2. QED
    BY <2>1, ReachSame DEF Live
<1>25. QED
  BY <1>1, <1>2, <1>3, <1>4, <1>5, <1>6, <1>7, <1>8, <1>9, <1>10, <1>11, <1>12, <1>13, <1>14, <1>15, <1>16, <1>17, <1>18, <1>19, <1>20, <1>21, <1>22, <1>23, <1>24
     DEF Next, Step, Work, Ending

-------------------------------------------------------------------------------
(* Every watched kind gets started                                         *)


\* A set that could not be started stays as it is.
LEMMA FailedStep ==
    ASSUME Types, PcOk, SliceOk, MadeOk, RestOk, Live, ~cancelled, ~cancelled', NEW u \in Threads, FailedAt(u), [Next]_vars
    PROVE  FailedAt(u)'
<1>1. CASE UNCHANGED vars
  BY <1>1 DEF vars, flags, slice, cache, workVars, FailedAt
<1>2. ASSUME NEW t \in Threads, NEW host \in Kinds \cup {None}, Call(t, host)
      PROVE  FailedAt(u)'
  <2>0. PcAt(u) /\ thr[u].run \in Runs
    BY ThreadType DEF PcOk
  <2>1. CASE u = t
    BY <1>2, CallEffect, <2>1, <2>0 DEF FailedAt, Moves, Leaves, PcAt, Walking
  <2>2. CASE u # t
    <3>1. Others(t)
      BY <1>2, CallEffect DEF Moves, Leaves
    <3>2. thr'[u] = thr[u]
      BY <2>2, <3>1 DEF Others
    <3>3. QED
      BY <3>2 DEF FailedAt
  <2>3. QED
    BY <2>1, <2>2
<1>3. ASSUME NEW t \in Threads, WatchEnd(t)
      PROVE  FailedAt(u)'
  <2>0. PcAt(u) /\ thr[u].run \in Runs
    BY ThreadType DEF PcOk
  <2>1. CASE u = t
    BY <1>3, WatchEndEffect, <2>1, <2>0 DEF FailedAt, Moves, Leaves, PcAt, Walking
  <2>2. CASE u # t
    <3>1. Others(t)
      BY <1>3, WatchEndEffect DEF Moves, Leaves
    <3>2. thr'[u] = thr[u]
      BY <2>2, <3>1 DEF Others
    <3>3. QED
      BY <3>2 DEF FailedAt
  <2>3. QED
    BY <2>1, <2>2
<1>4. ASSUME NEW t \in Threads, NEW g \in Kinds, ForKind(t, g)
      PROVE  FailedAt(u)'
  <2>0. PcAt(u) /\ thr[u].run \in Runs
    BY ThreadType DEF PcOk
  <2>1. CASE u = t
    BY <1>4, ForKindEffect, <2>1, <2>0 DEF FailedAt, Moves, Leaves, PcAt, Walking
  <2>2. CASE u # t
    <3>1. Others(t)
      BY <1>4, ForKindEffect DEF Moves, Leaves
    <3>2. thr'[u] = thr[u]
      BY <2>2, <3>1 DEF Others
    <3>3. QED
      BY <3>2 DEF FailedAt
  <2>3. QED
    BY <2>1, <2>2
<1>5. ASSUME NEW t \in Threads, InitController(t)
      PROVE  FailedAt(u)'
  <2>0. PcAt(u) /\ thr[u].run \in Runs
    BY ThreadType DEF PcOk
  <2>1. CASE u = t
    BY <1>5, InitControllerEffect, <2>1, <2>0 DEF FailedAt, Moves, Leaves, PcAt, Walking
  <2>2. CASE u # t
    <3>1. Others(t)
      BY <1>5, InitControllerEffect DEF Moves, Leaves
    <3>2. thr'[u] = thr[u]
      BY <2>2, <3>1 DEF Others
    <3>3. QED
      BY <3>2 DEF FailedAt
  <2>3. QED
    BY <2>1, <2>2
<1>6. ASSUME NEW t \in Threads, Register(t)
      PROVE  FailedAt(u)'
  <2>0. PcAt(u) /\ thr[u].run \in Runs
    BY ThreadType DEF PcOk
  <2>1. CASE u = t
    BY <1>6, RegisterEffect, <2>1, <2>0 DEF FailedAt, Moves, Leaves, PcAt, Walking
  <2>2. CASE u # t
    <3>1. Others(t)
      BY <1>6, RegisterEffect DEF Moves, Leaves
    <3>2. thr'[u] = thr[u]
      BY <2>2, <3>1 DEF Others
    <3>3. QED
      BY <3>2 DEF FailedAt
  <2>3. QED
    BY <2>1, <2>2
<1>7. ASSUME NEW t \in Threads, ListExisting(t)
      PROVE  FailedAt(u)'
  <2>0. PcAt(u) /\ thr[u].run \in Runs
    BY ThreadType DEF PcOk
  <2>1. CASE u = t
    BY <1>7, ListExistingEffect, <2>1, <2>0 DEF FailedAt, Moves, Leaves, PcAt, Walking
  <2>2. CASE u # t
    <3>1. Others(t)
      BY <1>7, ListExistingEffect DEF Moves, Leaves
    <3>2. thr'[u] = thr[u]
      BY <2>2, <3>1 DEF Others
    <3>3. QED
      BY <3>2 DEF FailedAt
  <2>3. QED
    BY <2>1, <2>2
<1>8. ASSUME NEW t \in Threads, HasStarted(t)
      PROVE  FailedAt(u)'
  <2>0. PcAt(u) /\ thr[u].run \in Runs
    BY ThreadType DEF PcOk
  <2>1. CASE u = t
    BY <1>8, HasStartedEffect, <2>1, <2>0 DEF FailedAt, Moves, Leaves, PcAt, Walking
  <2>2. CASE u # t
    <3>1. Others(t)
      BY <1>8, HasStartedEffect DEF Moves, Leaves
    <3>2. thr'[u] = thr[u]
      BY <2>2, <3>1 DEF Others
    <3>3. QED
      BY <3>2 DEF FailedAt
  <2>3. QED
    BY <2>1, <2>2
<1>9. ASSUME NEW t \in Threads, Watched(t)
      PROVE  FailedAt(u)'
  <2>0. PcAt(u) /\ thr[u].run \in Runs
    BY ThreadType DEF PcOk
  <2>1. CASE u = t
    BY <1>9, WatchedEffect, <2>1, <2>0 DEF FailedAt, Moves, Leaves, PcAt, Walking
  <2>2. CASE u # t
    <3>1. Others(t)
      BY <1>9, WatchedEffect DEF Moves, Leaves
    <3>2. thr'[u] = thr[u]
      BY <2>2, <3>1 DEF Others
    <3>3. QED
      BY <3>2 DEF FailedAt
  <2>3. QED
    BY <2>1, <2>2
<1>10. ASSUME NEW t \in Threads, NEW g \in Kinds, StartShared(t, g)
      PROVE  FailedAt(u)'
  <2>0. PcAt(u) /\ thr[u].run \in Runs
    BY ThreadType DEF PcOk
  <2>1. CASE u = t
    BY <1>10, StartSharedEffect, <2>1, <2>0 DEF FailedAt, Moves, Leaves, PcAt, Walking
  <2>2. CASE u # t
    <3>1. Others(t)
      BY <1>10, StartSharedEffect DEF Moves, Leaves
    <3>2. thr'[u] = thr[u]
      BY <2>2, <3>1 DEF Others
    <3>3. QED
      BY <3>2 DEF FailedAt
  <2>3. QED
    BY <2>1, <2>2
<1>11. ASSUME NEW t \in Threads, CtrlStarted(t)
      PROVE  FailedAt(u)'
  <2>0. PcAt(u) /\ thr[u].run \in Runs
    BY ThreadType DEF PcOk
  <2>1. CASE u = t
    BY <1>11, CtrlStartedEffect, <2>1, <2>0 DEF FailedAt, Moves, Leaves, PcAt, Walking
  <2>2. CASE u # t
    <3>1. Others(t)
      BY <1>11, CtrlStartedEffect DEF Moves, Leaves
    <3>2. thr'[u] = thr[u]
      BY <2>2, <3>1 DEF Others
    <3>3. QED
      BY <3>2 DEF FailedAt
  <2>3. QED
    BY <2>1, <2>2
<1>12. ASSUME NEW t \in Threads, CtrlFailed(t)
      PROVE  FailedAt(u)'
  <2>0. PcAt(u) /\ thr[u].run \in Runs
    BY ThreadType DEF PcOk
  <2>1. CASE u = t
    BY <1>12, CtrlFailedEffect, <2>1, <2>0 DEF FailedAt, Moves, Leaves, PcAt, Walking
  <2>2. CASE u # t
    <3>1. Others(t)
      BY <1>12, CtrlFailedEffect DEF Moves, Leaves
    <3>2. thr'[u] = thr[u]
      BY <2>2, <3>1 DEF Others
    <3>3. QED
      BY <3>2 DEF FailedAt
  <2>3. QED
    BY <2>1, <2>2
<1>13. ASSUME NEW t \in Threads, Begin(t)
      PROVE  FailedAt(u)'
  <2>0. PcAt(u) /\ thr[u].run \in Runs
    BY ThreadType DEF PcOk
  <2>1. CASE u = t
    BY <1>13, BeginEffect, <2>1, <2>0 DEF FailedAt, Moves, Leaves, PcAt, Walking
  <2>2. CASE u # t
    <3>1. Others(t)
      BY <1>13, BeginEffect DEF Moves, Leaves
    <3>2. thr'[u] = thr[u]
      BY <2>2, <3>1 DEF Others
    <3>3. QED
      BY <3>2 DEF FailedAt
  <2>3. QED
    BY <2>1, <2>2
<1>14. ASSUME NEW t \in Threads, Synced(t)
      PROVE  FailedAt(u)'
  <2>0. PcAt(u) /\ thr[u].run \in Runs
    BY ThreadType DEF PcOk
  <2>1. CASE u = t
    BY <1>14, SyncedEffect, <2>1, <2>0 DEF FailedAt, Moves, Leaves, PcAt, Walking
  <2>2. CASE u # t
    <3>1. Others(t)
      BY <1>14, SyncedEffect DEF Moves, Leaves
    <3>2. thr'[u] = thr[u]
      BY <2>2, <3>1 DEF Others
    <3>3. QED
      BY <3>2 DEF FailedAt
  <2>3. QED
    BY <2>1, <2>2
<1>15. ASSUME NEW t \in Threads, Finish(t)
      PROVE  FailedAt(u)'
  <2>0. PcAt(u) /\ thr[u].run \in Runs
    BY ThreadType DEF PcOk
  <2>1. CASE u = t
    BY <1>15, FinishEffect, <2>1, <2>0 DEF FailedAt, Moves, Leaves, PcAt, Walking
  <2>2. CASE u # t
    <3>1. Others(t)
      BY <1>15, FinishEffect DEF Moves, Leaves
    <3>2. thr'[u] = thr[u]
      BY <2>2, <3>1 DEF Others
    <3>3. QED
      BY <3>2 DEF FailedAt
  <2>3. QED
    BY <2>1, <2>2
<1>16. ASSUME NEW g \in Kinds, InformerSyncs(g)
      PROVE  FailedAt(u)'
  BY <1>16 DEF flags, slice, cache, workVars, InformerSyncs, FailedAt
<1>17. ASSUME NEW g \in Kinds, NEW x \in Objects, Arrive(g, x)
      PROVE  FailedAt(u)'
  BY <1>17 DEF flags, slice, cache, workVars, Arrive, FailedAt
<1>18. ASSUME NEW g \in Kinds, NEW x \in Objects, OnChange(g, x)
      PROVE  FailedAt(u)'
  BY <1>18, OnChangeEffect DEF flags, slice, cache, workVars, FailedAt
<1>19. ASSUME NEW g \in Kinds, CallHandler(g)
      PROVE  FailedAt(u)'
  BY <1>19, CallHandlerEffect DEF flags, slice, cache, workVars, FailedAt
<1>20. ASSUME NEW g \in Kinds, OnChangeEnds(g)
      PROVE  FailedAt(u)'
  BY <1>20, OnChangeEndsEffect DEF flags, slice, cache, workVars, FailedAt
<1>21. ASSUME NEW g \in Kinds, Deregister(g)
      PROVE  FailedAt(u)'
  BY <1>21, DeregisterEffect DEF flags, slice, cache, workVars, FailedAt
<1>22. ASSUME NEW g \in Kinds, Reset(g)
      PROVE  FailedAt(u)'
  BY <1>22 DEF flags, slice, cache, workVars, Reset, FailedAt
<1>23. ASSUME NEW g \in Kinds, Drained(g)
      PROVE  FailedAt(u)'
  BY <1>23 DEF flags, slice, cache, workVars, Drained, FailedAt
<1>24. CASE Cancel
  BY <1>24 DEF flags, slice, cache, workVars, Cancel, FailedAt
<1>25. QED
  BY <1>1, <1>2, <1>3, <1>4, <1>5, <1>6, <1>7, <1>8, <1>9, <1>10, <1>11, <1>12, <1>13, <1>14, <1>15, <1>16, <1>17, <1>18, <1>19, <1>20, <1>21, <1>22, <1>23, <1>24
     DEF Next, Step, Work, Ending

\* Start has copied the kinds that it will start.
LoadedAt(u) == thr[u].run.op = "start" /\ thr[u].run.load /\ made \subseteq thr[u].run.kinds

\* Start comes to loadAndStart, unless a kind cannot be watched.
LEMMA AheadStep ==
    ASSUME Types, PcOk, SliceOk, MadeOk, RestOk, Live, ~cancelled, ~cancelled', NEW u \in Threads, AheadAt(u), [Next]_vars
    PROVE  AheadAt(u)' \/ FailedAt(u)' \/ LoadedAt(u)'
<1>1. CASE UNCHANGED vars
  BY <1>1 DEF vars, flags, slice, cache, workVars, AheadAt, FailedAt, LoadedAt
<1>2. ASSUME NEW t \in Threads, NEW host \in Kinds \cup {None}, Call(t, host)
      PROVE  AheadAt(u)' \/ FailedAt(u)' \/ LoadedAt(u)'
  <2>0. PcAt(u) /\ thr[u].run \in Runs
    BY ThreadType DEF PcOk
  <2>1. CASE u = t
    BY <1>2, CallEffect, <2>1, <2>0 DEF AheadAt, FailedAt, LoadedAt, Moves, Leaves, PcAt, Walking
  <2>2. CASE u # t
    <3>1. Others(t)
      BY <1>2, CallEffect DEF Moves, Leaves
    <3>2. thr'[u] = thr[u]
      BY <2>2, <3>1 DEF Others
    <3>3. QED
      BY <3>2 DEF AheadAt, FailedAt, LoadedAt
  <2>3. QED
    BY <2>1, <2>2
<1>3. ASSUME NEW t \in Threads, WatchEnd(t)
      PROVE  AheadAt(u)' \/ FailedAt(u)' \/ LoadedAt(u)'
  <2>0. PcAt(u) /\ thr[u].run \in Runs
    BY ThreadType DEF PcOk
  <2>1. CASE u = t
    BY <1>3, WatchEndEffect, <2>1, <2>0 DEF AheadAt, FailedAt, LoadedAt, Moves, Leaves, PcAt, Walking
  <2>2. CASE u # t
    <3>1. Others(t)
      BY <1>3, WatchEndEffect DEF Moves, Leaves
    <3>2. thr'[u] = thr[u]
      BY <2>2, <3>1 DEF Others
    <3>3. QED
      BY <3>2 DEF AheadAt, FailedAt, LoadedAt
  <2>3. QED
    BY <2>1, <2>2
<1>4. ASSUME NEW t \in Threads, NEW g \in Kinds, ForKind(t, g)
      PROVE  AheadAt(u)' \/ FailedAt(u)' \/ LoadedAt(u)'
  <2>0. PcAt(u) /\ thr[u].run \in Runs
    BY ThreadType DEF PcOk
  <2>1. CASE u = t
    BY <1>4, ForKindEffect, <2>1, <2>0 DEF AheadAt, FailedAt, LoadedAt, Moves, Leaves, PcAt, Walking
  <2>2. CASE u # t
    <3>1. Others(t)
      BY <1>4, ForKindEffect DEF Moves, Leaves
    <3>2. thr'[u] = thr[u]
      BY <2>2, <3>1 DEF Others
    <3>3. QED
      BY <3>2 DEF AheadAt, FailedAt, LoadedAt
  <2>3. QED
    BY <2>1, <2>2
<1>5. ASSUME NEW t \in Threads, InitController(t)
      PROVE  AheadAt(u)' \/ FailedAt(u)' \/ LoadedAt(u)'
  <2>0. PcAt(u) /\ thr[u].run \in Runs
    BY ThreadType DEF PcOk
  <2>1. CASE u = t
    BY <1>5, InitControllerEffect, <2>1, <2>0 DEF AheadAt, FailedAt, LoadedAt, Moves, Leaves, PcAt, Walking
  <2>2. CASE u # t
    <3>1. Others(t)
      BY <1>5, InitControllerEffect DEF Moves, Leaves
    <3>2. thr'[u] = thr[u]
      BY <2>2, <3>1 DEF Others
    <3>3. QED
      BY <3>2 DEF AheadAt, FailedAt, LoadedAt
  <2>3. QED
    BY <2>1, <2>2
<1>6. ASSUME NEW t \in Threads, Register(t)
      PROVE  AheadAt(u)' \/ FailedAt(u)' \/ LoadedAt(u)'
  <2>0. PcAt(u) /\ thr[u].run \in Runs
    BY ThreadType DEF PcOk
  <2>1. CASE u = t
    BY <1>6, RegisterEffect, <2>1, <2>0 DEF AheadAt, FailedAt, LoadedAt, Moves, Leaves, PcAt, Walking
  <2>2. CASE u # t
    <3>1. Others(t)
      BY <1>6, RegisterEffect DEF Moves, Leaves
    <3>2. thr'[u] = thr[u]
      BY <2>2, <3>1 DEF Others
    <3>3. QED
      BY <3>2 DEF AheadAt, FailedAt, LoadedAt
  <2>3. QED
    BY <2>1, <2>2
<1>7. ASSUME NEW t \in Threads, ListExisting(t)
      PROVE  AheadAt(u)' \/ FailedAt(u)' \/ LoadedAt(u)'
  <2>0. PcAt(u) /\ thr[u].run \in Runs
    BY ThreadType DEF PcOk
  <2>1. CASE u = t
    BY <1>7, ListExistingEffect, <2>1, <2>0 DEF AheadAt, FailedAt, LoadedAt, Moves, Leaves, PcAt, Walking
  <2>2. CASE u # t
    <3>1. Others(t)
      BY <1>7, ListExistingEffect DEF Moves, Leaves
    <3>2. thr'[u] = thr[u]
      BY <2>2, <3>1 DEF Others
    <3>3. QED
      BY <3>2 DEF AheadAt, FailedAt, LoadedAt
  <2>3. QED
    BY <2>1, <2>2
<1>8. ASSUME NEW t \in Threads, HasStarted(t)
      PROVE  AheadAt(u)' \/ FailedAt(u)' \/ LoadedAt(u)'
  <2>0. PcAt(u) /\ thr[u].run \in Runs
    BY ThreadType DEF PcOk
  <2>1. CASE u = t
    BY <1>8, HasStartedEffect, <2>1, <2>0 DEF AheadAt, FailedAt, LoadedAt, Moves, Leaves, PcAt, Walking
  <2>2. CASE u # t
    <3>1. Others(t)
      BY <1>8, HasStartedEffect DEF Moves, Leaves
    <3>2. thr'[u] = thr[u]
      BY <2>2, <3>1 DEF Others
    <3>3. QED
      BY <3>2 DEF AheadAt, FailedAt, LoadedAt
  <2>3. QED
    BY <2>1, <2>2
<1>9. ASSUME NEW t \in Threads, Watched(t)
      PROVE  AheadAt(u)' \/ FailedAt(u)' \/ LoadedAt(u)'
  <2>0. PcAt(u) /\ thr[u].run \in Runs
    BY ThreadType DEF PcOk
  <2>1. CASE u = t
    BY <1>9, WatchedEffect, <2>1, <2>0 DEF AheadAt, FailedAt, LoadedAt, Moves, Leaves, PcAt, Walking
  <2>2. CASE u # t
    <3>1. Others(t)
      BY <1>9, WatchedEffect DEF Moves, Leaves
    <3>2. thr'[u] = thr[u]
      BY <2>2, <3>1 DEF Others
    <3>3. QED
      BY <3>2 DEF AheadAt, FailedAt, LoadedAt
  <2>3. QED
    BY <2>1, <2>2
<1>10. ASSUME NEW t \in Threads, NEW g \in Kinds, StartShared(t, g)
      PROVE  AheadAt(u)' \/ FailedAt(u)' \/ LoadedAt(u)'
  <2>0. PcAt(u) /\ thr[u].run \in Runs
    BY ThreadType DEF PcOk
  <2>1. CASE u = t
    <3>1. ~thr[t].run.load
      BY <2>1 DEF AheadAt
    <3>2. thr'[t].run.load = FALSE /\ thr'[t].run.op = thr[t].run.op /\ thr'[t].run.pc \in {"watch", "watched", "ctrlStart"}
      <4>1. CASE Moves(t, "ctrlStart", g, thr[t].run.kinds \ {g}, thr[t].run.load, thr[t].run.failed)
        BY <2>0, <2>1, <3>1, <4>1 DEF Moves, Runs
      <4>2. CASE Moves(t, Back(t, g, ctrl[g] = "error"), thr[t].run.kind, thr[t].run.kinds \ {g},
                       thr[t].run.load /\ ctrl[g] # "error", thr[t].run.failed \/ ctrl[g] = "error")
        <5>1. Back(t, g, ctrl[g] = "error") \in {"watch", "watched"}
          BY <3>1 DEF Back
        <5>2. (thr[t].run.load /\ ctrl[g] # "error") = FALSE
          BY <3>1
        <5>3. QED
          BY <4>2, <5>1, <5>2 DEF Moves
      <4>3. QED
        BY <1>10, StartSharedEffect, <4>1, <4>2
    <3>3. QED
      BY <2>1, <3>2 DEF AheadAt
  <2>2. CASE u # t
    <3>1. Others(t)
      BY <1>10, StartSharedEffect DEF Moves, Leaves
    <3>2. thr'[u] = thr[u]
      BY <2>2, <3>1 DEF Others
    <3>3. QED
      BY <3>2 DEF AheadAt, FailedAt, LoadedAt
  <2>3. QED
    BY <2>1, <2>2
<1>11. ASSUME NEW t \in Threads, CtrlStarted(t)
      PROVE  AheadAt(u)' \/ FailedAt(u)' \/ LoadedAt(u)'
  <2>0. PcAt(u) /\ thr[u].run \in Runs
    BY ThreadType DEF PcOk
  <2>1. CASE u = t
    BY <1>11, CtrlStartedEffect, <2>1, <2>0 DEF AheadAt, FailedAt, LoadedAt, Moves, Leaves, PcAt, Walking
  <2>2. CASE u # t
    <3>1. Others(t)
      BY <1>11, CtrlStartedEffect DEF Moves, Leaves
    <3>2. thr'[u] = thr[u]
      BY <2>2, <3>1 DEF Others
    <3>3. QED
      BY <3>2 DEF AheadAt, FailedAt, LoadedAt
  <2>3. QED
    BY <2>1, <2>2
<1>12. ASSUME NEW t \in Threads, CtrlFailed(t)
      PROVE  AheadAt(u)' \/ FailedAt(u)' \/ LoadedAt(u)'
  <2>0. PcAt(u) /\ thr[u].run \in Runs
    BY ThreadType DEF PcOk
  <2>1. CASE u = t
    BY <1>12, CtrlFailedEffect, <2>1, <2>0 DEF AheadAt, FailedAt, LoadedAt, Moves, Leaves, PcAt, Walking
  <2>2. CASE u # t
    <3>1. Others(t)
      BY <1>12, CtrlFailedEffect DEF Moves, Leaves
    <3>2. thr'[u] = thr[u]
      BY <2>2, <3>1 DEF Others
    <3>3. QED
      BY <3>2 DEF AheadAt, FailedAt, LoadedAt
  <2>3. QED
    BY <2>1, <2>2
<1>13. ASSUME NEW t \in Threads, Begin(t)
      PROVE  AheadAt(u)' \/ FailedAt(u)' \/ LoadedAt(u)'
  <2>0. PcAt(u) /\ thr[u].run \in Runs
    BY ThreadType DEF PcOk
  <2>1. CASE u = t
    BY <1>13, BeginEffect, <2>1, <2>0 DEF AheadAt, LoadedAt, Moves, flags
  <2>2. CASE u # t
    <3>1. Others(t)
      BY <1>13, BeginEffect DEF Moves, Leaves
    <3>2. thr'[u] = thr[u]
      BY <2>2, <3>1 DEF Others
    <3>3. QED
      BY <3>2 DEF AheadAt, FailedAt, LoadedAt
  <2>3. QED
    BY <2>1, <2>2
<1>14. ASSUME NEW t \in Threads, Synced(t)
      PROVE  AheadAt(u)' \/ FailedAt(u)' \/ LoadedAt(u)'
  <2>0. PcAt(u) /\ thr[u].run \in Runs
    BY ThreadType DEF PcOk
  <2>1. CASE u = t
    BY <1>14, SyncedEffect, <2>1, <2>0 DEF AheadAt, FailedAt, LoadedAt, Moves, Leaves, PcAt, Walking
  <2>2. CASE u # t
    <3>1. Others(t)
      BY <1>14, SyncedEffect DEF Moves, Leaves
    <3>2. thr'[u] = thr[u]
      BY <2>2, <3>1 DEF Others
    <3>3. QED
      BY <3>2 DEF AheadAt, FailedAt, LoadedAt
  <2>3. QED
    BY <2>1, <2>2
<1>15. ASSUME NEW t \in Threads, Finish(t)
      PROVE  AheadAt(u)' \/ FailedAt(u)' \/ LoadedAt(u)'
  <2>0. PcAt(u) /\ thr[u].run \in Runs
    BY ThreadType DEF PcOk
  <2>1. CASE u = t
    BY <1>15, FinishEffect, <2>1, <2>0 DEF AheadAt, FailedAt, LoadedAt, Moves, Leaves, PcAt, Walking
  <2>2. CASE u # t
    <3>1. Others(t)
      BY <1>15, FinishEffect DEF Moves, Leaves
    <3>2. thr'[u] = thr[u]
      BY <2>2, <3>1 DEF Others
    <3>3. QED
      BY <3>2 DEF AheadAt, FailedAt, LoadedAt
  <2>3. QED
    BY <2>1, <2>2
<1>16. ASSUME NEW g \in Kinds, InformerSyncs(g)
      PROVE  AheadAt(u)' \/ FailedAt(u)' \/ LoadedAt(u)'
  BY <1>16 DEF flags, slice, cache, workVars, InformerSyncs, AheadAt, FailedAt, LoadedAt
<1>17. ASSUME NEW g \in Kinds, NEW x \in Objects, Arrive(g, x)
      PROVE  AheadAt(u)' \/ FailedAt(u)' \/ LoadedAt(u)'
  BY <1>17 DEF flags, slice, cache, workVars, Arrive, AheadAt, FailedAt, LoadedAt
<1>18. ASSUME NEW g \in Kinds, NEW x \in Objects, OnChange(g, x)
      PROVE  AheadAt(u)' \/ FailedAt(u)' \/ LoadedAt(u)'
  BY <1>18, OnChangeEffect DEF flags, slice, cache, workVars, AheadAt, FailedAt, LoadedAt
<1>19. ASSUME NEW g \in Kinds, CallHandler(g)
      PROVE  AheadAt(u)' \/ FailedAt(u)' \/ LoadedAt(u)'
  BY <1>19, CallHandlerEffect DEF flags, slice, cache, workVars, AheadAt, FailedAt, LoadedAt
<1>20. ASSUME NEW g \in Kinds, OnChangeEnds(g)
      PROVE  AheadAt(u)' \/ FailedAt(u)' \/ LoadedAt(u)'
  BY <1>20, OnChangeEndsEffect DEF flags, slice, cache, workVars, AheadAt, FailedAt, LoadedAt
<1>21. ASSUME NEW g \in Kinds, Deregister(g)
      PROVE  AheadAt(u)' \/ FailedAt(u)' \/ LoadedAt(u)'
  BY <1>21, DeregisterEffect DEF flags, slice, cache, workVars, AheadAt, FailedAt, LoadedAt
<1>22. ASSUME NEW g \in Kinds, Reset(g)
      PROVE  AheadAt(u)' \/ FailedAt(u)' \/ LoadedAt(u)'
  BY <1>22 DEF flags, slice, cache, workVars, Reset, AheadAt, FailedAt, LoadedAt
<1>23. ASSUME NEW g \in Kinds, Drained(g)
      PROVE  AheadAt(u)' \/ FailedAt(u)' \/ LoadedAt(u)'
  BY <1>23 DEF flags, slice, cache, workVars, Drained, AheadAt, FailedAt, LoadedAt
<1>24. CASE Cancel
  BY <1>24 DEF flags, slice, cache, workVars, Cancel, AheadAt, FailedAt, LoadedAt
<1>25. QED
  BY <1>1, <1>2, <1>3, <1>4, <1>5, <1>6, <1>7, <1>8, <1>9, <1>10, <1>11, <1>12, <1>13, <1>14, <1>15, <1>16, <1>17, <1>18, <1>19, <1>20, <1>21, <1>22, <1>23, <1>24
     DEF Next, Step, Work, Ending

\* loadAndStart comes to every kind it has copied, or fails.
LEMMA WillStep ==
    ASSUME Types, PcOk, SliceOk, MadeOk, RestOk, Live, ~cancelled, ~cancelled', NEW u \in Threads, NEW q \in Kinds, ctrl[q] = "made", WillStartAt(u, q), [Next]_vars
    PROVE  WillStartAt(u, q)' \/ q \in started' \/ FailedAt(u)'
<1>1. CASE UNCHANGED vars
  BY <1>1 DEF vars, flags, slice, cache, workVars, WillStartAt, FailedAt
<1>2. ASSUME NEW t \in Threads, NEW host \in Kinds \cup {None}, Call(t, host)
      PROVE  WillStartAt(u, q)' \/ q \in started' \/ FailedAt(u)'
  <2>0. PcAt(u) /\ thr[u].run \in Runs
    BY ThreadType DEF PcOk
  <2>1. CASE u = t
    BY <1>2, CallEffect, <2>1, <2>0 DEF WillStartAt, FailedAt, Moves, Leaves, PcAt, Walking
  <2>2. CASE u # t
    <3>1. Others(t)
      BY <1>2, CallEffect DEF Moves, Leaves
    <3>2. thr'[u] = thr[u]
      BY <2>2, <3>1 DEF Others
    <3>3. QED
      BY <3>2 DEF WillStartAt, FailedAt
  <2>3. QED
    BY <2>1, <2>2
<1>3. ASSUME NEW t \in Threads, WatchEnd(t)
      PROVE  WillStartAt(u, q)' \/ q \in started' \/ FailedAt(u)'
  <2>0. PcAt(u) /\ thr[u].run \in Runs
    BY ThreadType DEF PcOk
  <2>1. CASE u = t
    BY <1>3, WatchEndEffect, <2>1, <2>0 DEF WillStartAt, FailedAt, Moves, Leaves, PcAt, Walking
  <2>2. CASE u # t
    <3>1. Others(t)
      BY <1>3, WatchEndEffect DEF Moves, Leaves
    <3>2. thr'[u] = thr[u]
      BY <2>2, <3>1 DEF Others
    <3>3. QED
      BY <3>2 DEF WillStartAt, FailedAt
  <2>3. QED
    BY <2>1, <2>2
<1>4. ASSUME NEW t \in Threads, NEW g \in Kinds, ForKind(t, g)
      PROVE  WillStartAt(u, q)' \/ q \in started' \/ FailedAt(u)'
  <2>0. PcAt(u) /\ thr[u].run \in Runs
    BY ThreadType DEF PcOk
  <2>1. CASE u = t
    BY <1>4, ForKindEffect, <2>1, <2>0 DEF WillStartAt, FailedAt, Moves, Leaves, PcAt, Walking
  <2>2. CASE u # t
    <3>1. Others(t)
      BY <1>4, ForKindEffect DEF Moves, Leaves
    <3>2. thr'[u] = thr[u]
      BY <2>2, <3>1 DEF Others
    <3>3. QED
      BY <3>2 DEF WillStartAt, FailedAt
  <2>3. QED
    BY <2>1, <2>2
<1>5. ASSUME NEW t \in Threads, InitController(t)
      PROVE  WillStartAt(u, q)' \/ q \in started' \/ FailedAt(u)'
  <2>0. PcAt(u) /\ thr[u].run \in Runs
    BY ThreadType DEF PcOk
  <2>1. CASE u = t
    BY <1>5, InitControllerEffect, <2>1, <2>0 DEF WillStartAt, FailedAt, Moves, Leaves, PcAt, Walking
  <2>2. CASE u # t
    <3>1. Others(t)
      BY <1>5, InitControllerEffect DEF Moves, Leaves
    <3>2. thr'[u] = thr[u]
      BY <2>2, <3>1 DEF Others
    <3>3. QED
      BY <3>2 DEF WillStartAt, FailedAt
  <2>3. QED
    BY <2>1, <2>2
<1>6. ASSUME NEW t \in Threads, Register(t)
      PROVE  WillStartAt(u, q)' \/ q \in started' \/ FailedAt(u)'
  <2>0. PcAt(u) /\ thr[u].run \in Runs
    BY ThreadType DEF PcOk
  <2>1. CASE u = t
    BY <1>6, RegisterEffect, <2>1, <2>0 DEF WillStartAt, FailedAt, Moves, Leaves, PcAt, Walking
  <2>2. CASE u # t
    <3>1. Others(t)
      BY <1>6, RegisterEffect DEF Moves, Leaves
    <3>2. thr'[u] = thr[u]
      BY <2>2, <3>1 DEF Others
    <3>3. QED
      BY <3>2 DEF WillStartAt, FailedAt
  <2>3. QED
    BY <2>1, <2>2
<1>7. ASSUME NEW t \in Threads, ListExisting(t)
      PROVE  WillStartAt(u, q)' \/ q \in started' \/ FailedAt(u)'
  <2>0. PcAt(u) /\ thr[u].run \in Runs
    BY ThreadType DEF PcOk
  <2>1. CASE u = t
    BY <1>7, ListExistingEffect, <2>1, <2>0 DEF WillStartAt, FailedAt, Moves, Leaves, PcAt, Walking
  <2>2. CASE u # t
    <3>1. Others(t)
      BY <1>7, ListExistingEffect DEF Moves, Leaves
    <3>2. thr'[u] = thr[u]
      BY <2>2, <3>1 DEF Others
    <3>3. QED
      BY <3>2 DEF WillStartAt, FailedAt
  <2>3. QED
    BY <2>1, <2>2
<1>8. ASSUME NEW t \in Threads, HasStarted(t)
      PROVE  WillStartAt(u, q)' \/ q \in started' \/ FailedAt(u)'
  <2>0. PcAt(u) /\ thr[u].run \in Runs
    BY ThreadType DEF PcOk
  <2>1. CASE u = t
    BY <1>8, HasStartedEffect, <2>1, <2>0 DEF WillStartAt, FailedAt, Moves, Leaves, PcAt, Walking
  <2>2. CASE u # t
    <3>1. Others(t)
      BY <1>8, HasStartedEffect DEF Moves, Leaves
    <3>2. thr'[u] = thr[u]
      BY <2>2, <3>1 DEF Others
    <3>3. QED
      BY <3>2 DEF WillStartAt, FailedAt
  <2>3. QED
    BY <2>1, <2>2
<1>9. ASSUME NEW t \in Threads, Watched(t)
      PROVE  WillStartAt(u, q)' \/ q \in started' \/ FailedAt(u)'
  <2>0. PcAt(u) /\ thr[u].run \in Runs
    BY ThreadType DEF PcOk
  <2>1. CASE u = t
    BY <1>9, WatchedEffect, <2>1, <2>0 DEF WillStartAt, FailedAt, Moves, Leaves, PcAt, Walking
  <2>2. CASE u # t
    <3>1. Others(t)
      BY <1>9, WatchedEffect DEF Moves, Leaves
    <3>2. thr'[u] = thr[u]
      BY <2>2, <3>1 DEF Others
    <3>3. QED
      BY <3>2 DEF WillStartAt, FailedAt
  <2>3. QED
    BY <2>1, <2>2
<1>10. ASSUME NEW t \in Threads, NEW g \in Kinds, StartShared(t, g)
      PROVE  WillStartAt(u, q)' \/ q \in started' \/ FailedAt(u)'
  <2>0. PcAt(u) /\ thr[u].run \in Runs
    BY ThreadType DEF PcOk
  <2>1. CASE u = t
    <3>1. thr[t].run.load /\ thr[t].run.pc = "starting" /\ thr[t].run.op = "start" /\ q \in thr[t].run.kinds
      BY <1>10, StartSharedEffect, <2>0, <2>1 DEF WillStartAt, PcAt, Walking
    <3>2. CASE g \notin started /\ Moves(t, "ctrlStart", g, thr[t].run.kinds \ {g}, thr[t].run.load, thr[t].run.failed)
      BY <2>1, <3>1, <3>2 DEF WillStartAt, Moves
    <3>3. CASE /\ ctrl[g] # "made" \/ g \in started
               /\ Moves(t, Back(t, g, ctrl[g] = "error"), thr[t].run.kind, thr[t].run.kinds \ {g},
                        thr[t].run.load /\ ctrl[g] # "error", thr[t].run.failed \/ ctrl[g] = "error")
      <4>1. CASE ctrl[g] = "error"
        BY <2>1, <3>1, <3>3, <4>1 DEF FailedAt, Moves
      <4>2. CASE ctrl[g] # "error" /\ q = g
        BY <1>10, StartSharedEffect, <3>3, <4>2 DEF flags
      <4>3. CASE ctrl[g] # "error" /\ q # g
        BY <2>1, <3>1, <3>3, <4>3 DEF WillStartAt, Moves
      <4>4. QED
        BY <4>1, <4>2, <4>3
    <3>4. QED
      BY <1>10, StartSharedEffect, <3>2, <3>3
  <2>2. CASE u # t
    <3>1. Others(t)
      BY <1>10, StartSharedEffect DEF Moves, Leaves
    <3>2. thr'[u] = thr[u]
      BY <2>2, <3>1 DEF Others
    <3>3. QED
      BY <3>2 DEF WillStartAt, FailedAt
  <2>3. QED
    BY <2>1, <2>2
<1>11. ASSUME NEW t \in Threads, CtrlStarted(t)
      PROVE  WillStartAt(u, q)' \/ q \in started' \/ FailedAt(u)'
  <2>0. PcAt(u) /\ thr[u].run \in Runs
    BY ThreadType DEF PcOk
  <2>1. CASE u = t
    <3>1. CASE q = thr[t].run.kind
      BY <1>11, CtrlStartedEffect, <3>1
    <3>2. CASE q # thr[t].run.kind
      BY <1>11, CtrlStartedEffect, <2>1, <3>2 DEF WillStartAt, Moves
    <3>3. QED
      BY <3>1, <3>2
  <2>2. CASE u # t
    <3>1. Others(t)
      BY <1>11, CtrlStartedEffect DEF Moves, Leaves
    <3>2. thr'[u] = thr[u]
      BY <2>2, <3>1 DEF Others
    <3>3. QED
      BY <3>2 DEF WillStartAt, FailedAt
  <2>3. QED
    BY <2>1, <2>2
<1>12. ASSUME NEW t \in Threads, CtrlFailed(t)
      PROVE  WillStartAt(u, q)' \/ q \in started' \/ FailedAt(u)'
  <2>0. PcAt(u) /\ thr[u].run \in Runs
    BY ThreadType DEF PcOk
  <2>1. CASE u = t
    BY <1>12, CtrlFailedEffect, <2>1, <2>0 DEF WillStartAt, FailedAt, Moves, Leaves, PcAt, Walking
  <2>2. CASE u # t
    <3>1. Others(t)
      BY <1>12, CtrlFailedEffect DEF Moves, Leaves
    <3>2. thr'[u] = thr[u]
      BY <2>2, <3>1 DEF Others
    <3>3. QED
      BY <3>2 DEF WillStartAt, FailedAt
  <2>3. QED
    BY <2>1, <2>2
<1>13. ASSUME NEW t \in Threads, Begin(t)
      PROVE  WillStartAt(u, q)' \/ q \in started' \/ FailedAt(u)'
  <2>0. PcAt(u) /\ thr[u].run \in Runs
    BY ThreadType DEF PcOk
  <2>1. CASE u = t
    BY <1>13, BeginEffect, <2>1, <2>0 DEF WillStartAt, FailedAt, Moves, Leaves, PcAt, Walking
  <2>2. CASE u # t
    <3>1. Others(t)
      BY <1>13, BeginEffect DEF Moves, Leaves
    <3>2. thr'[u] = thr[u]
      BY <2>2, <3>1 DEF Others
    <3>3. QED
      BY <3>2 DEF WillStartAt, FailedAt
  <2>3. QED
    BY <2>1, <2>2
<1>14. ASSUME NEW t \in Threads, Synced(t)
      PROVE  WillStartAt(u, q)' \/ q \in started' \/ FailedAt(u)'
  <2>0. PcAt(u) /\ thr[u].run \in Runs
    BY ThreadType DEF PcOk
  <2>1. CASE u = t
    BY <1>14, SyncedEffect, <2>1, <2>0 DEF WillStartAt, FailedAt, Moves, Leaves, PcAt, Walking
  <2>2. CASE u # t
    <3>1. Others(t)
      BY <1>14, SyncedEffect DEF Moves, Leaves
    <3>2. thr'[u] = thr[u]
      BY <2>2, <3>1 DEF Others
    <3>3. QED
      BY <3>2 DEF WillStartAt, FailedAt
  <2>3. QED
    BY <2>1, <2>2
<1>15. ASSUME NEW t \in Threads, Finish(t)
      PROVE  WillStartAt(u, q)' \/ q \in started' \/ FailedAt(u)'
  <2>0. PcAt(u) /\ thr[u].run \in Runs
    BY ThreadType DEF PcOk
  <2>1. CASE u = t
    BY <1>15, FinishEffect, <2>1, <2>0 DEF WillStartAt, FailedAt, Moves, Leaves, PcAt, Walking
  <2>2. CASE u # t
    <3>1. Others(t)
      BY <1>15, FinishEffect DEF Moves, Leaves
    <3>2. thr'[u] = thr[u]
      BY <2>2, <3>1 DEF Others
    <3>3. QED
      BY <3>2 DEF WillStartAt, FailedAt
  <2>3. QED
    BY <2>1, <2>2
<1>16. ASSUME NEW g \in Kinds, InformerSyncs(g)
      PROVE  WillStartAt(u, q)' \/ q \in started' \/ FailedAt(u)'
  BY <1>16 DEF flags, slice, cache, workVars, InformerSyncs, WillStartAt, FailedAt
<1>17. ASSUME NEW g \in Kinds, NEW x \in Objects, Arrive(g, x)
      PROVE  WillStartAt(u, q)' \/ q \in started' \/ FailedAt(u)'
  BY <1>17 DEF flags, slice, cache, workVars, Arrive, WillStartAt, FailedAt
<1>18. ASSUME NEW g \in Kinds, NEW x \in Objects, OnChange(g, x)
      PROVE  WillStartAt(u, q)' \/ q \in started' \/ FailedAt(u)'
  BY <1>18, OnChangeEffect DEF flags, slice, cache, workVars, WillStartAt, FailedAt
<1>19. ASSUME NEW g \in Kinds, CallHandler(g)
      PROVE  WillStartAt(u, q)' \/ q \in started' \/ FailedAt(u)'
  BY <1>19, CallHandlerEffect DEF flags, slice, cache, workVars, WillStartAt, FailedAt
<1>20. ASSUME NEW g \in Kinds, OnChangeEnds(g)
      PROVE  WillStartAt(u, q)' \/ q \in started' \/ FailedAt(u)'
  BY <1>20, OnChangeEndsEffect DEF flags, slice, cache, workVars, WillStartAt, FailedAt
<1>21. ASSUME NEW g \in Kinds, Deregister(g)
      PROVE  WillStartAt(u, q)' \/ q \in started' \/ FailedAt(u)'
  BY <1>21, DeregisterEffect DEF flags, slice, cache, workVars, WillStartAt, FailedAt
<1>22. ASSUME NEW g \in Kinds, Reset(g)
      PROVE  WillStartAt(u, q)' \/ q \in started' \/ FailedAt(u)'
  BY <1>22 DEF flags, slice, cache, workVars, Reset, WillStartAt, FailedAt
<1>23. ASSUME NEW g \in Kinds, Drained(g)
      PROVE  WillStartAt(u, q)' \/ q \in started' \/ FailedAt(u)'
  BY <1>23 DEF flags, slice, cache, workVars, Drained, WillStartAt, FailedAt
<1>24. CASE Cancel
  BY <1>24 DEF flags, slice, cache, workVars, Cancel, WillStartAt, FailedAt
<1>25. QED
  BY <1>1, <1>2, <1>3, <1>4, <1>5, <1>6, <1>7, <1>8, <1>9, <1>10, <1>11, <1>12, <1>13, <1>14, <1>15, <1>16, <1>17, <1>18, <1>19, <1>20, <1>21, <1>22, <1>23, <1>24
     DEF Next, Step, Work, Ending

\* A thread that did not see the flag of the Backend is seen by the Start that
\* sets it.
LEMMA WatchesStep ==
    ASSUME Types, PcOk, SliceOk, MadeOk, RestOk, Live, ~cancelled, ~cancelled', StartCalled, ~StartFailed, ~StartAhead, NEW q \in Kinds, [Next]_vars
    PROVE  Watches(q)' /\ ctrl'[q] = "made" => (Watches(q) /\ ctrl[q] = "made") \/ q \in started'
<1>1. CASE UNCHANGED vars
  BY <1>1 DEF vars, flags, slice, cache, workVars, Watches
<1>2. ASSUME NEW t \in Threads, NEW host \in Kinds \cup {None}, Call(t, host)
      PROVE  Watches(q)' /\ ctrl'[q] = "made" => (Watches(q) /\ ctrl[q] = "made") \/ q \in started'
  <2>1. watching' = watching /\ ctrl' = ctrl
    BY <1>2, CallEffect DEF flags, slice, cache, workVars
  <2>2. thr'[t].run.pc # "watched" /\ Others(t)
    BY <1>2, CallEffect DEF Moves, Leaves
  <2>3. QED
    BY <2>1, <2>2 DEF Watches, Others
<1>3. ASSUME NEW t \in Threads, WatchEnd(t)
      PROVE  Watches(q)' /\ ctrl'[q] = "made" => (Watches(q) /\ ctrl[q] = "made") \/ q \in started'
  <2>1. watching' = watching /\ ctrl' = ctrl
    BY <1>3, WatchEndEffect DEF flags, slice, cache, workVars
  <2>2. thr'[t].run.pc # "watched" /\ Others(t)
    BY <1>3, WatchEndEffect DEF Moves, Leaves
  <2>3. QED
    BY <2>1, <2>2 DEF Watches, Others
<1>4. ASSUME NEW t \in Threads, NEW g \in Kinds, ForKind(t, g)
      PROVE  Watches(q)' /\ ctrl'[q] = "made" => (Watches(q) /\ ctrl[q] = "made") \/ q \in started'
  <2>1. watching' = watching /\ ctrl' = ctrl
    BY <1>4, ForKindEffect DEF flags, slice, cache, workVars
  <2>2. thr'[t].run.pc # "watched" /\ Others(t)
    BY <1>4, ForKindEffect DEF Moves, Leaves
  <2>3. QED
    BY <2>1, <2>2 DEF Watches, Others
<1>5. ASSUME NEW t \in Threads, InitController(t)
      PROVE  Watches(q)' /\ ctrl'[q] = "made" => (Watches(q) /\ ctrl[q] = "made") \/ q \in started'
  <2>1. watching' = watching /\ thr'[t].run.pc # "watched" /\ Others(t)
    BY <1>5, InitControllerEffect DEF Moves
  <2>2. Watches(q)' => Watches(q)
    BY <2>1 DEF Watches, Others
  <2>3. Watches(q) => ctrl[q] # "none"
    <3>1. \A s \in Sets : <<s, q>> \in watching => ctrl[q] # "none"
      <4>1. \A s \in Sets : <<s, q>>[2] = q
        OBVIOUS
      <4>2. QED
        BY <4>1 DEF MadeOk
    <3>2. \A u \in Threads : thr[u].run.pc = "watched" /\ thr[u].run.kind = q => ctrl[q] # "none"
      BY DEF PcOk, PcAt, Walking
    <3>3. QED
      BY <3>1, <3>2 DEF Watches
  <2>4. ctrl[q] # "none" => ctrl'[q] = ctrl[q]
    <3>1. ctrl' = [ctrl EXCEPT ![thr[t].run.kind] = IF @ # "none" THEN @
                                                     ELSE IF thr[t].run.kind \in Broken THEN "error" ELSE "made"]
      BY <1>5, InitControllerEffect
    <3>2. QED
      BY <3>1 DEF Types
  <2>5. QED
    BY <2>2, <2>3, <2>4
<1>6. ASSUME NEW t \in Threads, Register(t)
      PROVE  Watches(q)' /\ ctrl'[q] = "made" => (Watches(q) /\ ctrl[q] = "made") \/ q \in started'
  <2>1. watching' = watching /\ ctrl' = ctrl
    BY <1>6, RegisterEffect DEF flags, slice, cache, workVars
  <2>2. thr'[t].run.pc # "watched" /\ Others(t)
    BY <1>6, RegisterEffect DEF Moves, Leaves
  <2>3. QED
    BY <2>1, <2>2 DEF Watches, Others
<1>7. ASSUME NEW t \in Threads, ListExisting(t)
      PROVE  Watches(q)' /\ ctrl'[q] = "made" => (Watches(q) /\ ctrl[q] = "made") \/ q \in started'
  <2>1. watching' = watching /\ ctrl' = ctrl
    BY <1>7, ListExistingEffect DEF flags, slice, cache, workVars
  <2>2. thr'[t].run.pc # "watched" /\ Others(t)
    BY <1>7, ListExistingEffect DEF Moves, Leaves
  <2>3. QED
    BY <2>1, <2>2 DEF Watches, Others
<1>8. ASSUME NEW t \in Threads, HasStarted(t)
      PROVE  Watches(q)' /\ ctrl'[q] = "made" => (Watches(q) /\ ctrl[q] = "made") \/ q \in started'
  <2>1. watching' = watching /\ ctrl' = ctrl /\ Others(t)
    BY <1>8, HasStartedEffect DEF flags, slice, cache, workVars, Moves
  <2>2. backend
    BY <1>8, HasStartedEffect DEF Live, BackendOk
  <2>3. thr'[t].run.pc # "watched"
    BY <1>8, HasStartedEffect, <2>2 DEF Moves
  <2>4. QED
    BY <2>1, <2>3 DEF Watches, Others
<1>9. ASSUME NEW t \in Threads, Watched(t)
      PROVE  Watches(q)' /\ ctrl'[q] = "made" => (Watches(q) /\ ctrl[q] = "made") \/ q \in started'
  <2>1. /\ ctrl' = ctrl /\ watching' = watching \cup {<<SetOf[t], thr[t].run.kind>>} /\ thr[t].run.pc = "watched"
        /\ thr'[t].run.pc # "watched" /\ Others(t)
    BY <1>9, WatchedEffect DEF Moves
  <2>2. CASE q = thr[t].run.kind
    BY <2>1, <2>2 DEF Watches
  <2>3. CASE q # thr[t].run.kind
    <3>1. \A s \in Sets : <<s, q>> \in watching' => <<s, q>> \in watching
      BY <2>1, <2>3
    <3>2. QED
      BY <2>1, <3>1 DEF Watches, Others
  <2>4. QED
    BY <2>2, <2>3
<1>10. ASSUME NEW t \in Threads, NEW g \in Kinds, StartShared(t, g)
      PROVE  Watches(q)' /\ ctrl'[q] = "made" => (Watches(q) /\ ctrl[q] = "made") \/ q \in started'
  <2>1. watching' = watching /\ ctrl' = ctrl /\ started' = started
    BY <1>10, StartSharedEffect DEF flags, slice, cache, workVars
  <2>2. Others(t)
    BY <1>10, StartSharedEffect DEF Moves
  <2>3. ASSUME thr'[t].run.pc = "watched", thr'[t].run.kind = q, ctrl[q] = "made"
        PROVE  q \in started
    <3>1. /\ ctrl[g] # "made" \/ g \in started
          /\ Moves(t, Back(t, g, ctrl[g] = "error"), thr[t].run.kind, thr[t].run.kinds \ {g},
                   thr[t].run.load /\ ctrl[g] # "error", thr[t].run.failed \/ ctrl[g] = "error")
      BY <1>10, StartSharedEffect, <2>3 DEF Moves
    <3>2. ~thr[t].run.load /\ thr[t].run.kind = q
      BY <2>3, <3>1 DEF Moves, Back
    <3>3. g = q
      BY <1>10, StartSharedEffect, <3>2 DEF PcOk, PcAt
    <3>4. QED
      BY <2>3, <3>1, <3>3
  <2>4. QED
    BY <2>1, <2>2, <2>3 DEF Watches, Others
<1>11. ASSUME NEW t \in Threads, CtrlStarted(t)
      PROVE  Watches(q)' /\ ctrl'[q] = "made" => (Watches(q) /\ ctrl[q] = "made") \/ q \in started'
  <2>1. watching' = watching /\ ctrl' = ctrl /\ started' = started \cup {thr[t].run.kind}
    BY <1>11, CtrlStartedEffect
  <2>2. Others(t) /\ thr'[t].run.kind = thr[t].run.kind
    BY <1>11, CtrlStartedEffect DEF Moves
  <2>3. QED
    BY <2>1, <2>2 DEF Watches, Others
<1>12. ASSUME NEW t \in Threads, CtrlFailed(t)
      PROVE  Watches(q)' /\ ctrl'[q] = "made" => (Watches(q) /\ ctrl[q] = "made") \/ q \in started'
  <2>1. watching' = watching /\ ctrl' = ctrl
    BY <1>12, CtrlFailedEffect DEF flags, slice, cache, workVars
  <2>2. thr'[t].run.pc # "watched" /\ Others(t)
    BY <1>12, CtrlFailedEffect DEF Moves, Leaves
  <2>3. QED
    BY <2>1, <2>2 DEF Watches, Others
<1>13. ASSUME NEW t \in Threads, Begin(t)
      PROVE  Watches(q)' /\ ctrl'[q] = "made" => (Watches(q) /\ ctrl[q] = "made") \/ q \in started'
  <2>1. watching' = watching /\ ctrl' = ctrl
    BY <1>13, BeginEffect DEF flags, slice, cache, workVars
  <2>2. thr'[t].run.pc # "watched" /\ Others(t)
    BY <1>13, BeginEffect DEF Moves, Leaves
  <2>3. QED
    BY <2>1, <2>2 DEF Watches, Others
<1>14. ASSUME NEW t \in Threads, Synced(t)
      PROVE  Watches(q)' /\ ctrl'[q] = "made" => (Watches(q) /\ ctrl[q] = "made") \/ q \in started'
  <2>1. watching' = watching /\ ctrl' = ctrl
    BY <1>14, SyncedEffect DEF flags, slice, cache, workVars
  <2>2. thr'[t].run.pc # "watched" /\ Others(t)
    BY <1>14, SyncedEffect DEF Moves, Leaves
  <2>3. QED
    BY <2>1, <2>2 DEF Watches, Others
<1>15. ASSUME NEW t \in Threads, Finish(t)
      PROVE  Watches(q)' /\ ctrl'[q] = "made" => (Watches(q) /\ ctrl[q] = "made") \/ q \in started'
  <2>1. watching' = watching /\ ctrl' = ctrl
    BY <1>15, FinishEffect DEF flags, slice, cache, workVars
  <2>2. thr'[t].run.pc # "watched" /\ Others(t)
    BY <1>15, FinishEffect DEF Moves, Leaves
  <2>3. QED
    BY <2>1, <2>2 DEF Watches, Others
<1>16. ASSUME NEW g \in Kinds, InformerSyncs(g)
      PROVE  Watches(q)' /\ ctrl'[q] = "made" => (Watches(q) /\ ctrl[q] = "made") \/ q \in started'
  BY <1>16 DEF flags, slice, cache, workVars, InformerSyncs, Watches
<1>17. ASSUME NEW g \in Kinds, NEW x \in Objects, Arrive(g, x)
      PROVE  Watches(q)' /\ ctrl'[q] = "made" => (Watches(q) /\ ctrl[q] = "made") \/ q \in started'
  BY <1>17 DEF flags, slice, cache, workVars, Arrive, Watches
<1>18. ASSUME NEW g \in Kinds, NEW x \in Objects, OnChange(g, x)
      PROVE  Watches(q)' /\ ctrl'[q] = "made" => (Watches(q) /\ ctrl[q] = "made") \/ q \in started'
  BY <1>18, OnChangeEffect DEF flags, slice, cache, workVars, Watches
<1>19. ASSUME NEW g \in Kinds, CallHandler(g)
      PROVE  Watches(q)' /\ ctrl'[q] = "made" => (Watches(q) /\ ctrl[q] = "made") \/ q \in started'
  BY <1>19, CallHandlerEffect DEF flags, slice, cache, workVars, Watches
<1>20. ASSUME NEW g \in Kinds, OnChangeEnds(g)
      PROVE  Watches(q)' /\ ctrl'[q] = "made" => (Watches(q) /\ ctrl[q] = "made") \/ q \in started'
  BY <1>20, OnChangeEndsEffect DEF flags, slice, cache, workVars, Watches
<1>21. ASSUME NEW g \in Kinds, Deregister(g)
      PROVE  Watches(q)' /\ ctrl'[q] = "made" => (Watches(q) /\ ctrl[q] = "made") \/ q \in started'
  BY <1>21, DeregisterEffect DEF flags, slice, cache, workVars, Watches
<1>22. ASSUME NEW g \in Kinds, Reset(g)
      PROVE  Watches(q)' /\ ctrl'[q] = "made" => (Watches(q) /\ ctrl[q] = "made") \/ q \in started'
  BY <1>22 DEF flags, slice, cache, workVars, Reset, Watches
<1>23. ASSUME NEW g \in Kinds, Drained(g)
      PROVE  Watches(q)' /\ ctrl'[q] = "made" => (Watches(q) /\ ctrl[q] = "made") \/ q \in started'
  BY <1>23 DEF flags, slice, cache, workVars, Drained, Watches
<1>24. CASE Cancel
  BY <1>24 DEF flags, slice, cache, workVars, Cancel, Watches
<1>25. QED
  BY <1>1, <1>2, <1>3, <1>4, <1>5, <1>6, <1>7, <1>8, <1>9, <1>10, <1>11, <1>12, <1>13, <1>14, <1>15, <1>16, <1>17, <1>18, <1>19, <1>20, <1>21, <1>22, <1>23, <1>24
     DEF Next, Step, Work, Ending

\* What is started stays so, until the context ends.
LEMMA StartedGrows ==
    ASSUME Types, PcOk, SliceOk, MadeOk, RestOk, Live, ~cancelled, ~cancelled', [Next]_vars
    PROVE  started \subseteq started'
<1>1. CASE UNCHANGED vars
  BY <1>1 DEF vars, flags, slice, cache, workVars
<1>2. ASSUME NEW t \in Threads, NEW host \in Kinds \cup {None}, Call(t, host)
      PROVE  started \subseteq started'
  BY <1>2, CallEffect DEF flags, slice, cache, workVars
<1>3. ASSUME NEW t \in Threads, WatchEnd(t)
      PROVE  started \subseteq started'
  BY <1>3, WatchEndEffect DEF flags, slice, cache, workVars
<1>4. ASSUME NEW t \in Threads, NEW g \in Kinds, ForKind(t, g)
      PROVE  started \subseteq started'
  BY <1>4, ForKindEffect DEF flags, slice, cache, workVars
<1>5. ASSUME NEW t \in Threads, InitController(t)
      PROVE  started \subseteq started'
  BY <1>5, InitControllerEffect DEF flags, slice, cache, workVars
<1>6. ASSUME NEW t \in Threads, Register(t)
      PROVE  started \subseteq started'
  BY <1>6, RegisterEffect DEF flags, slice, cache, workVars
<1>7. ASSUME NEW t \in Threads, ListExisting(t)
      PROVE  started \subseteq started'
  BY <1>7, ListExistingEffect DEF flags, slice, cache, workVars
<1>8. ASSUME NEW t \in Threads, HasStarted(t)
      PROVE  started \subseteq started'
  BY <1>8, HasStartedEffect DEF flags, slice, cache, workVars
<1>9. ASSUME NEW t \in Threads, Watched(t)
      PROVE  started \subseteq started'
  BY <1>9, WatchedEffect DEF flags, slice, cache, workVars
<1>10. ASSUME NEW t \in Threads, NEW g \in Kinds, StartShared(t, g)
      PROVE  started \subseteq started'
  BY <1>10, StartSharedEffect DEF flags, slice, cache, workVars
<1>11. ASSUME NEW t \in Threads, CtrlStarted(t)
      PROVE  started \subseteq started'
  BY <1>11, CtrlStartedEffect DEF flags, slice, cache, workVars
<1>12. ASSUME NEW t \in Threads, CtrlFailed(t)
      PROVE  started \subseteq started'
  BY <1>12, CtrlFailedEffect DEF flags, slice, cache, workVars
<1>13. ASSUME NEW t \in Threads, Begin(t)
      PROVE  started \subseteq started'
  BY <1>13, BeginEffect DEF flags, slice, cache, workVars
<1>14. ASSUME NEW t \in Threads, Synced(t)
      PROVE  started \subseteq started'
  BY <1>14, SyncedEffect DEF flags, slice, cache, workVars
<1>15. ASSUME NEW t \in Threads, Finish(t)
      PROVE  started \subseteq started'
  BY <1>15, FinishEffect DEF flags, slice, cache, workVars
<1>16. ASSUME NEW g \in Kinds, InformerSyncs(g)
      PROVE  started \subseteq started'
  BY <1>16 DEF flags, slice, cache, workVars, InformerSyncs
<1>17. ASSUME NEW g \in Kinds, NEW x \in Objects, Arrive(g, x)
      PROVE  started \subseteq started'
  BY <1>17 DEF flags, slice, cache, workVars, Arrive
<1>18. ASSUME NEW g \in Kinds, NEW x \in Objects, OnChange(g, x)
      PROVE  started \subseteq started'
  BY <1>18, OnChangeEffect DEF flags, slice, cache, workVars
<1>19. ASSUME NEW g \in Kinds, CallHandler(g)
      PROVE  started \subseteq started'
  BY <1>19, CallHandlerEffect DEF flags, slice, cache, workVars
<1>20. ASSUME NEW g \in Kinds, OnChangeEnds(g)
      PROVE  started \subseteq started'
  BY <1>20, OnChangeEndsEffect DEF flags, slice, cache, workVars
<1>21. ASSUME NEW g \in Kinds, Deregister(g)
      PROVE  started \subseteq started'
  BY <1>21, DeregisterEffect DEF flags, slice, cache, workVars
<1>22. ASSUME NEW g \in Kinds, Reset(g)
      PROVE  started \subseteq started'
  BY <1>22 DEF flags, slice, cache, workVars, Reset
<1>23. ASSUME NEW g \in Kinds, Drained(g)
      PROVE  started \subseteq started'
  BY <1>23 DEF flags, slice, cache, workVars, Drained
<1>24. CASE Cancel
  BY <1>24 DEF flags, slice, cache, workVars, Cancel
<1>25. QED
  BY <1>1, <1>2, <1>3, <1>4, <1>5, <1>6, <1>7, <1>8, <1>9, <1>10, <1>11, <1>12, <1>13, <1>14, <1>15, <1>16, <1>17, <1>18, <1>19, <1>20, <1>21, <1>22, <1>23, <1>24
     DEF Next, Step, Work, Ending

\* Start is called by a call of Start.
LEMMA CalledStep ==
    ASSUME Types, PcOk, SliceOk, RestOk, [Next]_vars, StartCalled'
    PROVE  StartCalled \/ \E t \in Threads : AheadAt(t)'
<1>1. ASSUME NEW t \in Threads, NEW host \in Kinds \cup {None}, Call(t, host), ~StartCalled
      PROVE  AheadAt(t)'
  <2>1. Head(thr[t].rest) = "start"
    BY <1>1, CallEffect, CallRest
  <2>2. QED
    BY <1>1, <2>1, CallEffect DEF AheadAt
<1>2. QED
  BY <1>1, RestKept, SameRest

LEMMA StartStep ==
    ASSUME Types, PcOk, SliceOk, MadeOk, RestOk, Live, ~cancelled, ~cancelled', MadeOk', [Next]_vars
    PROVE  StartOk'
<1>1. SUFFICES ASSUME StartCalled', ~StartFailed', ~StartAhead', NEW q \in Kinds, Watches(q)', ctrl'[q] = "made"
               PROVE  q \in started' \/ WillStart(q)'
  BY DEF StartOk
<1>2. StartCalled
  BY <1>1, CalledStep DEF StartAhead
<1>3. ~StartFailed
  BY <1>1, FailedStep DEF StartFailed
<1>4. CASE StartAhead
  <2>1. PICK u \in Threads : AheadAt(u)
    BY <1>4 DEF StartAhead
  <2>2. LoadedAt(u)'
    BY <1>1, <2>1, AheadStep DEF StartAhead, StartFailed
  <2>3. q \in made'
    BY <1>1 DEF MadeOk
  <2>4. WillStartAt(u, q)'
    BY <2>2, <2>3 DEF LoadedAt, WillStartAt
  <2>5. QED
    BY <2>4 DEF WillStart
<1>5. CASE ~StartAhead
  <2>1. CASE q \in started'
    BY <2>1
  <2>2. CASE Watches(q) /\ ctrl[q] = "made"
    <3>1. q \in started \/ WillStart(q)
      BY <1>2, <1>3, <1>5, <2>2 DEF Live, StartOk
    <3>2. CASE q \in started
      BY <3>2, StartedGrows
    <3>3. CASE WillStart(q)
      <4>1. PICK u \in Threads : WillStartAt(u, q)
        BY <3>3 DEF WillStart
      <4>2. WillStartAt(u, q)' \/ q \in started' \/ FailedAt(u)'
        BY <2>2, <4>1, WillStep
      <4>3. QED
        BY <1>1, <4>2 DEF WillStart, StartFailed
    <3>4. QED
      BY <3>1, <3>2, <3>3
  <2>3. QED
    BY <1>1, <1>2, <1>3, <1>5, <2>1, <2>2, WatchesStep
<1>6. QED
  BY <1>4, <1>5

\* Whoever holds the lock of the factory sets the flag of the Backend, or fails.
LEMMA LoadStep ==
    ASSUME Types, PcOk, SliceOk, MadeOk, RestOk, Live, ~cancelled, ~cancelled', NEW u \in Threads, thr[u].run.load, [Next]_vars
    PROVE  thr'[u].run.load \/ FailedAt(u)' \/ backend'
<1>1. CASE UNCHANGED vars
  BY <1>1 DEF vars, flags, slice, cache, workVars, FailedAt
<1>2. ASSUME NEW t \in Threads, NEW host \in Kinds \cup {None}, Call(t, host)
      PROVE  thr'[u].run.load \/ FailedAt(u)' \/ backend'
  <2>0. PcAt(u) /\ thr[u].run \in Runs
    BY ThreadType DEF PcOk
  <2>1. CASE u = t
    BY <1>2, CallEffect, <2>1, <2>0 DEF FailedAt, Moves, Leaves, PcAt, Walking
  <2>2. CASE u # t
    <3>1. Others(t)
      BY <1>2, CallEffect DEF Moves, Leaves
    <3>2. thr'[u] = thr[u]
      BY <2>2, <3>1 DEF Others
    <3>3. QED
      BY <3>2 DEF FailedAt
  <2>3. QED
    BY <2>1, <2>2
<1>3. ASSUME NEW t \in Threads, WatchEnd(t)
      PROVE  thr'[u].run.load \/ FailedAt(u)' \/ backend'
  <2>0. PcAt(u) /\ thr[u].run \in Runs
    BY ThreadType DEF PcOk
  <2>1. CASE u = t
    BY <1>3, WatchEndEffect, <2>1, <2>0 DEF FailedAt, Moves, Leaves, PcAt, Walking
  <2>2. CASE u # t
    <3>1. Others(t)
      BY <1>3, WatchEndEffect DEF Moves, Leaves
    <3>2. thr'[u] = thr[u]
      BY <2>2, <3>1 DEF Others
    <3>3. QED
      BY <3>2 DEF FailedAt
  <2>3. QED
    BY <2>1, <2>2
<1>4. ASSUME NEW t \in Threads, NEW g \in Kinds, ForKind(t, g)
      PROVE  thr'[u].run.load \/ FailedAt(u)' \/ backend'
  <2>0. PcAt(u) /\ thr[u].run \in Runs
    BY ThreadType DEF PcOk
  <2>1. CASE u = t
    BY <1>4, ForKindEffect, <2>1, <2>0 DEF FailedAt, Moves, Leaves, PcAt, Walking
  <2>2. CASE u # t
    <3>1. Others(t)
      BY <1>4, ForKindEffect DEF Moves, Leaves
    <3>2. thr'[u] = thr[u]
      BY <2>2, <3>1 DEF Others
    <3>3. QED
      BY <3>2 DEF FailedAt
  <2>3. QED
    BY <2>1, <2>2
<1>5. ASSUME NEW t \in Threads, InitController(t)
      PROVE  thr'[u].run.load \/ FailedAt(u)' \/ backend'
  <2>0. PcAt(u) /\ thr[u].run \in Runs
    BY ThreadType DEF PcOk
  <2>1. CASE u = t
    BY <1>5, InitControllerEffect, <2>1, <2>0 DEF FailedAt, Moves, Leaves, PcAt, Walking
  <2>2. CASE u # t
    <3>1. Others(t)
      BY <1>5, InitControllerEffect DEF Moves, Leaves
    <3>2. thr'[u] = thr[u]
      BY <2>2, <3>1 DEF Others
    <3>3. QED
      BY <3>2 DEF FailedAt
  <2>3. QED
    BY <2>1, <2>2
<1>6. ASSUME NEW t \in Threads, Register(t)
      PROVE  thr'[u].run.load \/ FailedAt(u)' \/ backend'
  <2>0. PcAt(u) /\ thr[u].run \in Runs
    BY ThreadType DEF PcOk
  <2>1. CASE u = t
    BY <1>6, RegisterEffect, <2>1, <2>0 DEF FailedAt, Moves, Leaves, PcAt, Walking
  <2>2. CASE u # t
    <3>1. Others(t)
      BY <1>6, RegisterEffect DEF Moves, Leaves
    <3>2. thr'[u] = thr[u]
      BY <2>2, <3>1 DEF Others
    <3>3. QED
      BY <3>2 DEF FailedAt
  <2>3. QED
    BY <2>1, <2>2
<1>7. ASSUME NEW t \in Threads, ListExisting(t)
      PROVE  thr'[u].run.load \/ FailedAt(u)' \/ backend'
  <2>0. PcAt(u) /\ thr[u].run \in Runs
    BY ThreadType DEF PcOk
  <2>1. CASE u = t
    BY <1>7, ListExistingEffect, <2>1, <2>0 DEF FailedAt, Moves, Leaves, PcAt, Walking
  <2>2. CASE u # t
    <3>1. Others(t)
      BY <1>7, ListExistingEffect DEF Moves, Leaves
    <3>2. thr'[u] = thr[u]
      BY <2>2, <3>1 DEF Others
    <3>3. QED
      BY <3>2 DEF FailedAt
  <2>3. QED
    BY <2>1, <2>2
<1>8. ASSUME NEW t \in Threads, HasStarted(t)
      PROVE  thr'[u].run.load \/ FailedAt(u)' \/ backend'
  <2>0. PcAt(u) /\ thr[u].run \in Runs
    BY ThreadType DEF PcOk
  <2>1. CASE u = t
    BY <1>8, HasStartedEffect, <2>1, <2>0 DEF FailedAt, Moves, Leaves, PcAt, Walking
  <2>2. CASE u # t
    <3>1. Others(t)
      BY <1>8, HasStartedEffect DEF Moves, Leaves
    <3>2. thr'[u] = thr[u]
      BY <2>2, <3>1 DEF Others
    <3>3. QED
      BY <3>2 DEF FailedAt
  <2>3. QED
    BY <2>1, <2>2
<1>9. ASSUME NEW t \in Threads, Watched(t)
      PROVE  thr'[u].run.load \/ FailedAt(u)' \/ backend'
  <2>0. PcAt(u) /\ thr[u].run \in Runs
    BY ThreadType DEF PcOk
  <2>1. CASE u = t
    BY <1>9, WatchedEffect, <2>1, <2>0 DEF FailedAt, Moves, Leaves, PcAt, Walking
  <2>2. CASE u # t
    <3>1. Others(t)
      BY <1>9, WatchedEffect DEF Moves, Leaves
    <3>2. thr'[u] = thr[u]
      BY <2>2, <3>1 DEF Others
    <3>3. QED
      BY <3>2 DEF FailedAt
  <2>3. QED
    BY <2>1, <2>2
<1>10. ASSUME NEW t \in Threads, NEW g \in Kinds, StartShared(t, g)
      PROVE  thr'[u].run.load \/ FailedAt(u)' \/ backend'
  <2>0. PcAt(u) /\ thr[u].run \in Runs
    BY ThreadType DEF PcOk
  <2>1. CASE u = t
    <3>1. thr[t].run.op = "start"
      BY <1>10, StartSharedEffect, <2>0, <2>1 DEF PcAt, Walking
    <3>2. CASE Moves(t, "ctrlStart", g, thr[t].run.kinds \ {g}, thr[t].run.load, thr[t].run.failed)
      BY <2>1, <3>2 DEF Moves
    <3>3. CASE Moves(t, Back(t, g, ctrl[g] = "error"), thr[t].run.kind, thr[t].run.kinds \ {g},
                     thr[t].run.load /\ ctrl[g] # "error", thr[t].run.failed \/ ctrl[g] = "error")
      <4>1. CASE ctrl[g] = "error"
        BY <2>1, <3>1, <3>3, <4>1 DEF FailedAt, Moves
      <4>2. CASE ctrl[g] # "error"
        <5>1. (thr[t].run.load /\ ctrl[g] # "error") = TRUE
          BY <2>1, <4>2
        <5>2. QED
          BY <2>1, <3>3, <5>1 DEF Moves
      <4>3. QED
        BY <4>1, <4>2
    <3>4. QED
      BY <1>10, StartSharedEffect, <3>2, <3>3
  <2>2. CASE u # t
    <3>1. Others(t)
      BY <1>10, StartSharedEffect DEF Moves, Leaves
    <3>2. thr'[u] = thr[u]
      BY <2>2, <3>1 DEF Others
    <3>3. QED
      BY <3>2 DEF FailedAt
  <2>3. QED
    BY <2>1, <2>2
<1>11. ASSUME NEW t \in Threads, CtrlStarted(t)
      PROVE  thr'[u].run.load \/ FailedAt(u)' \/ backend'
  <2>0. PcAt(u) /\ thr[u].run \in Runs
    BY ThreadType DEF PcOk
  <2>1. CASE u = t
    BY <1>11, CtrlStartedEffect, <2>1, <2>0 DEF FailedAt, Moves, Leaves, PcAt, Walking
  <2>2. CASE u # t
    <3>1. Others(t)
      BY <1>11, CtrlStartedEffect DEF Moves, Leaves
    <3>2. thr'[u] = thr[u]
      BY <2>2, <3>1 DEF Others
    <3>3. QED
      BY <3>2 DEF FailedAt
  <2>3. QED
    BY <2>1, <2>2
<1>12. ASSUME NEW t \in Threads, CtrlFailed(t)
      PROVE  thr'[u].run.load \/ FailedAt(u)' \/ backend'
  <2>0. PcAt(u) /\ thr[u].run \in Runs
    BY ThreadType DEF PcOk
  <2>1. CASE u = t
    BY <1>12, CtrlFailedEffect, <2>1, <2>0 DEF FailedAt, Moves, Leaves, PcAt, Walking
  <2>2. CASE u # t
    <3>1. Others(t)
      BY <1>12, CtrlFailedEffect DEF Moves, Leaves
    <3>2. thr'[u] = thr[u]
      BY <2>2, <3>1 DEF Others
    <3>3. QED
      BY <3>2 DEF FailedAt
  <2>3. QED
    BY <2>1, <2>2
<1>13. ASSUME NEW t \in Threads, Begin(t)
      PROVE  thr'[u].run.load \/ FailedAt(u)' \/ backend'
  <2>0. PcAt(u) /\ thr[u].run \in Runs
    BY ThreadType DEF PcOk
  <2>1. CASE u = t
    BY <1>13, BeginEffect, <2>1, <2>0 DEF FailedAt, Moves, Leaves, PcAt, Walking
  <2>2. CASE u # t
    <3>1. Others(t)
      BY <1>13, BeginEffect DEF Moves, Leaves
    <3>2. thr'[u] = thr[u]
      BY <2>2, <3>1 DEF Others
    <3>3. QED
      BY <3>2 DEF FailedAt
  <2>3. QED
    BY <2>1, <2>2
<1>14. ASSUME NEW t \in Threads, Synced(t)
      PROVE  thr'[u].run.load \/ FailedAt(u)' \/ backend'
  <2>0. PcAt(u) /\ thr[u].run \in Runs
    BY ThreadType DEF PcOk
  <2>1. CASE u = t
    BY <1>14, SyncedEffect, <2>1, <2>0 DEF FailedAt, Moves, Leaves, PcAt, Walking
  <2>2. CASE u # t
    <3>1. Others(t)
      BY <1>14, SyncedEffect DEF Moves, Leaves
    <3>2. thr'[u] = thr[u]
      BY <2>2, <3>1 DEF Others
    <3>3. QED
      BY <3>2 DEF FailedAt
  <2>3. QED
    BY <2>1, <2>2
<1>15. ASSUME NEW t \in Threads, Finish(t)
      PROVE  thr'[u].run.load \/ FailedAt(u)' \/ backend'
  <2>0. PcAt(u) /\ thr[u].run \in Runs
    BY ThreadType DEF PcOk
  <2>1. CASE u = t
    BY <1>15, FinishEffect, <2>1, <2>0 DEF FailedAt, Moves, Leaves, PcAt, Walking
  <2>2. CASE u # t
    <3>1. Others(t)
      BY <1>15, FinishEffect DEF Moves, Leaves
    <3>2. thr'[u] = thr[u]
      BY <2>2, <3>1 DEF Others
    <3>3. QED
      BY <3>2 DEF FailedAt
  <2>3. QED
    BY <2>1, <2>2
<1>16. ASSUME NEW g \in Kinds, InformerSyncs(g)
      PROVE  thr'[u].run.load \/ FailedAt(u)' \/ backend'
  BY <1>16 DEF flags, slice, cache, workVars, InformerSyncs, FailedAt
<1>17. ASSUME NEW g \in Kinds, NEW x \in Objects, Arrive(g, x)
      PROVE  thr'[u].run.load \/ FailedAt(u)' \/ backend'
  BY <1>17 DEF flags, slice, cache, workVars, Arrive, FailedAt
<1>18. ASSUME NEW g \in Kinds, NEW x \in Objects, OnChange(g, x)
      PROVE  thr'[u].run.load \/ FailedAt(u)' \/ backend'
  BY <1>18, OnChangeEffect DEF flags, slice, cache, workVars, FailedAt
<1>19. ASSUME NEW g \in Kinds, CallHandler(g)
      PROVE  thr'[u].run.load \/ FailedAt(u)' \/ backend'
  BY <1>19, CallHandlerEffect DEF flags, slice, cache, workVars, FailedAt
<1>20. ASSUME NEW g \in Kinds, OnChangeEnds(g)
      PROVE  thr'[u].run.load \/ FailedAt(u)' \/ backend'
  BY <1>20, OnChangeEndsEffect DEF flags, slice, cache, workVars, FailedAt
<1>21. ASSUME NEW g \in Kinds, Deregister(g)
      PROVE  thr'[u].run.load \/ FailedAt(u)' \/ backend'
  BY <1>21, DeregisterEffect DEF flags, slice, cache, workVars, FailedAt
<1>22. ASSUME NEW g \in Kinds, Reset(g)
      PROVE  thr'[u].run.load \/ FailedAt(u)' \/ backend'
  BY <1>22 DEF flags, slice, cache, workVars, Reset, FailedAt
<1>23. ASSUME NEW g \in Kinds, Drained(g)
      PROVE  thr'[u].run.load \/ FailedAt(u)' \/ backend'
  BY <1>23 DEF flags, slice, cache, workVars, Drained, FailedAt
<1>24. CASE Cancel
  BY <1>24 DEF flags, slice, cache, workVars, Cancel, FailedAt
<1>25. QED
  BY <1>1, <1>2, <1>3, <1>4, <1>5, <1>6, <1>7, <1>8, <1>9, <1>10, <1>11, <1>12, <1>13, <1>14, <1>15, <1>16, <1>17, <1>18, <1>19, <1>20, <1>21, <1>22, <1>23, <1>24
     DEF Next, Step, Work, Ending

LEMMA FlagStays ==
    ASSUME Types, PcOk, SliceOk, MadeOk, RestOk, Live, ~cancelled, ~cancelled', backend, [Next]_vars
    PROVE  backend'
<1>1. CASE UNCHANGED vars
  BY <1>1 DEF vars, flags, slice, cache, workVars
<1>2. ASSUME NEW t \in Threads, NEW host \in Kinds \cup {None}, Call(t, host)
      PROVE  backend'
  BY <1>2, CallEffect DEF flags, slice, cache, workVars
<1>3. ASSUME NEW t \in Threads, WatchEnd(t)
      PROVE  backend'
  BY <1>3, WatchEndEffect DEF flags, slice, cache, workVars
<1>4. ASSUME NEW t \in Threads, NEW g \in Kinds, ForKind(t, g)
      PROVE  backend'
  BY <1>4, ForKindEffect DEF flags, slice, cache, workVars
<1>5. ASSUME NEW t \in Threads, InitController(t)
      PROVE  backend'
  BY <1>5, InitControllerEffect DEF flags, slice, cache, workVars
<1>6. ASSUME NEW t \in Threads, Register(t)
      PROVE  backend'
  BY <1>6, RegisterEffect DEF flags, slice, cache, workVars
<1>7. ASSUME NEW t \in Threads, ListExisting(t)
      PROVE  backend'
  BY <1>7, ListExistingEffect DEF flags, slice, cache, workVars
<1>8. ASSUME NEW t \in Threads, HasStarted(t)
      PROVE  backend'
  BY <1>8, HasStartedEffect DEF flags, slice, cache, workVars
<1>9. ASSUME NEW t \in Threads, Watched(t)
      PROVE  backend'
  BY <1>9, WatchedEffect DEF flags, slice, cache, workVars
<1>10. ASSUME NEW t \in Threads, NEW g \in Kinds, StartShared(t, g)
      PROVE  backend'
  BY <1>10, StartSharedEffect DEF flags, slice, cache, workVars
<1>11. ASSUME NEW t \in Threads, CtrlStarted(t)
      PROVE  backend'
  BY <1>11, CtrlStartedEffect DEF flags, slice, cache, workVars
<1>12. ASSUME NEW t \in Threads, CtrlFailed(t)
      PROVE  backend'
  BY <1>12, CtrlFailedEffect DEF flags, slice, cache, workVars
<1>13. ASSUME NEW t \in Threads, Begin(t)
      PROVE  backend'
  BY <1>13, BeginEffect DEF flags, slice, cache, workVars
<1>14. ASSUME NEW t \in Threads, Synced(t)
      PROVE  backend'
  BY <1>14, SyncedEffect DEF flags, slice, cache, workVars
<1>15. ASSUME NEW t \in Threads, Finish(t)
      PROVE  backend'
  BY <1>15, FinishEffect DEF flags, slice, cache, workVars
<1>16. ASSUME NEW g \in Kinds, InformerSyncs(g)
      PROVE  backend'
  BY <1>16 DEF flags, slice, cache, workVars, InformerSyncs
<1>17. ASSUME NEW g \in Kinds, NEW x \in Objects, Arrive(g, x)
      PROVE  backend'
  BY <1>17 DEF flags, slice, cache, workVars, Arrive
<1>18. ASSUME NEW g \in Kinds, NEW x \in Objects, OnChange(g, x)
      PROVE  backend'
  BY <1>18, OnChangeEffect DEF flags, slice, cache, workVars
<1>19. ASSUME NEW g \in Kinds, CallHandler(g)
      PROVE  backend'
  BY <1>19, CallHandlerEffect DEF flags, slice, cache, workVars
<1>20. ASSUME NEW g \in Kinds, OnChangeEnds(g)
      PROVE  backend'
  BY <1>20, OnChangeEndsEffect DEF flags, slice, cache, workVars
<1>21. ASSUME NEW g \in Kinds, Deregister(g)
      PROVE  backend'
  BY <1>21, DeregisterEffect DEF flags, slice, cache, workVars
<1>22. ASSUME NEW g \in Kinds, Reset(g)
      PROVE  backend'
  BY <1>22 DEF flags, slice, cache, workVars, Reset
<1>23. ASSUME NEW g \in Kinds, Drained(g)
      PROVE  backend'
  BY <1>23 DEF flags, slice, cache, workVars, Drained
<1>24. CASE Cancel
  BY <1>24 DEF flags, slice, cache, workVars, Cancel
<1>25. QED
  BY <1>1, <1>2, <1>3, <1>4, <1>5, <1>6, <1>7, <1>8, <1>9, <1>10, <1>11, <1>12, <1>13, <1>14, <1>15, <1>16, <1>17, <1>18, <1>19, <1>20, <1>21, <1>22, <1>23, <1>24
     DEF Next, Step, Work, Ending

LEMMA BackendStep ==
    ASSUME Types, PcOk, SliceOk, MadeOk, RestOk, Live, ~cancelled, ~cancelled', [Next]_vars
    PROVE  BackendOk'
<1>1. SUFFICES ASSUME StartCalled', ~StartFailed', ~StartAhead', ~StartedLocked'
               PROVE  backend'
  BY DEF BackendOk
<1>2. StartCalled
  BY <1>1, CalledStep DEF StartAhead
<1>3. ~StartFailed
  BY <1>1, FailedStep DEF StartFailed
<1>4. ~StartAhead
  <2>1. SUFFICES ASSUME NEW u \in Threads, AheadAt(u) PROVE FALSE
    BY DEF StartAhead
  <2>2. LoadedAt(u)'
    BY <1>1, <2>1, AheadStep DEF StartAhead, StartFailed
  <2>3. QED
    BY <1>1, <2>2 DEF LoadedAt, StartedLocked
<1>5. CASE backend
  BY <1>5, FlagStays
<1>6. CASE StartedLocked
  <2>1. PICK u \in Threads : thr[u].run.load
    BY <1>6 DEF StartedLocked
  <2>2. QED
    BY <1>1, <2>1, LoadStep DEF StartedLocked, StartFailed
<1>7. QED
  BY <1>2, <1>3, <1>4, <1>5, <1>6 DEF Live, BackendOk

-------------------------------------------------------------------------------
(* The theorems                                                            *)

LEMMA InitInv ==
    ASSUME Init
    PROVE  Inv
<1>1. \A t \in Threads : thr[t].run = Idle /\ thr[t].rest = Program[t] /\ Program[t] \in Seq(Ops)
  BY SharedAssumption DEF Init, Ops
<1>2. thr \in [Threads -> [run : Runs, rest : Seq(Ops)]]
  <2>1. Idle \in Runs
    BY DEF Idle, Runs, Pcs
  <2>2. \A t \in Threads : [run |-> Idle, rest |-> Program[t]] \in [run : Runs, rest : Seq(Ops)]
    BY <1>1, <2>1
  <2> HIDE DEF Idle
  <2>3. thr = [t \in Threads |-> [run |-> Idle, rest |-> Program[t]]]
    BY DEF Init
  <2>4. QED
    BY <2>2, <2>3
<1>3. IdleWork \in Works
  BY DEF IdleWork, Works
<1>4. Types
  BY <1>2, <1>3 DEF Init, Types
<1>5. SliceOk /\ MadeOk
  BY DEF Init, SliceOk, SliceAt, MadeOk
<1>6. PcOk /\ LockOk
  BY <1>1 DEF PcOk, PcAt, LockOk, HoldsWatch, Idle, Walking
<1>8. RestOk
  <2>1. SUFFICES ASSUME NEW t \in Threads PROVE RestAt(t)
    BY DEF RestOk
  <2>2. PICK n \in Nat : n = Len(Program[t]) /\ n = Len(thr[t].rest)
    BY <1>1
  <2>3. Len(Program[t]) - Len(thr[t].rest) = 0
    BY <2>2
  <2>4. \A i \in 1..n : 0 + i = i /\ thr[t].rest[i] = Program[t][i]
    BY <1>1
  <2>5. QED
    BY <2>2, <2>3, <2>4 DEF RestAt
<1>9. ~StartCalled
  <2>1. \A t \in Threads : Len(Program[t]) - Len(thr[t].rest) = 0
    BY <1>1
  <2>2. \A t \in Threads : 1..(Len(Program[t]) - Len(thr[t].rest)) = {}
    <3>1. SUFFICES ASSUME NEW t \in Threads PROVE 1..(Len(Program[t]) - Len(thr[t].rest)) = {}
      OBVIOUS
    <3>2. 1..0 = {}
      OBVIOUS
    <3>3. QED
      BY <2>1, <3>2, Zenon
  <2>3. QED
    BY <2>2, Zenon DEF StartCalled
<1>10. FlagsOk /\ ReachOk
  BY DEF Init, FlagsOk, ReachOk
<1>11. RegisteredOk
  BY <1>1 DEF Init, RegisteredOk, RegisteredAt, Idle
<1>12. WorkOk
  BY DEF Init, WorkOk, WorkAt, IdleWork
<1>13. QED
  BY <1>4, <1>5, <1>6, <1>8, <1>9, <1>10, <1>11, <1>12 DEF Inv, Base, Live, StartOk, BackendOk

LEMMA BaseStep ==
    ASSUME Base, [Next]_vars
    PROVE  Base'
BY TypesStep, SliceStep, PcStep, MadeStep, RestStep, LockStep DEF Base

\* The context ends once, what is watched stays watched, and the flag of the
\* Backend is set at the end of start.
LEMMA OneWay ==
    ASSUME [Next]_vars
    PROVE  (cancelled => cancelled') /\ watching \subseteq watching' /\ (backend' => backend \/ \E u \in Threads : Finish(u))
<1>1. CASE UNCHANGED vars
  BY <1>1 DEF vars, flags
<1>2. ASSUME NEW t \in Threads, NEW host \in Kinds \cup {None}, Call(t, host)
      PROVE  (cancelled => cancelled') /\ watching \subseteq watching' /\ (backend' => backend \/ \E u \in Threads : Finish(u))
  BY <1>2 DEF Call, flags
<1>3. ASSUME NEW t \in Threads, WatchEnd(t)
      PROVE  (cancelled => cancelled') /\ watching \subseteq watching' /\ (backend' => backend \/ \E u \in Threads : Finish(u))
  BY <1>3 DEF WatchEnd, flags
<1>4. ASSUME NEW t \in Threads, NEW g \in Kinds, ForKind(t, g)
      PROVE  (cancelled => cancelled') /\ watching \subseteq watching' /\ (backend' => backend \/ \E u \in Threads : Finish(u))
  BY <1>4 DEF ForKind, flags
<1>5. ASSUME NEW t \in Threads, InitController(t)
      PROVE  (cancelled => cancelled') /\ watching \subseteq watching' /\ (backend' => backend \/ \E u \in Threads : Finish(u))
  BY <1>5 DEF InitController, flags
<1>6. ASSUME NEW t \in Threads, Register(t)
      PROVE  (cancelled => cancelled') /\ watching \subseteq watching' /\ (backend' => backend \/ \E u \in Threads : Finish(u))
  BY <1>6 DEF Register, flags
<1>7. ASSUME NEW t \in Threads, ListExisting(t)
      PROVE  (cancelled => cancelled') /\ watching \subseteq watching' /\ (backend' => backend \/ \E u \in Threads : Finish(u))
  BY <1>7 DEF ListExisting, flags
<1>8. ASSUME NEW t \in Threads, HasStarted(t)
      PROVE  (cancelled => cancelled') /\ watching \subseteq watching' /\ (backend' => backend \/ \E u \in Threads : Finish(u))
  BY <1>8 DEF HasStarted, flags
<1>9. ASSUME NEW t \in Threads, Watched(t)
      PROVE  (cancelled => cancelled') /\ watching \subseteq watching' /\ (backend' => backend \/ \E u \in Threads : Finish(u))
  BY <1>9 DEF Watched, flags
<1>10. ASSUME NEW t \in Threads, NEW g \in Kinds, StartShared(t, g)
      PROVE  (cancelled => cancelled') /\ watching \subseteq watching' /\ (backend' => backend \/ \E u \in Threads : Finish(u))
  BY <1>10 DEF StartShared, flags
<1>11. ASSUME NEW t \in Threads, CtrlStarted(t)
      PROVE  (cancelled => cancelled') /\ watching \subseteq watching' /\ (backend' => backend \/ \E u \in Threads : Finish(u))
  BY <1>11 DEF CtrlStarted, flags
<1>12. ASSUME NEW t \in Threads, CtrlFailed(t)
      PROVE  (cancelled => cancelled') /\ watching \subseteq watching' /\ (backend' => backend \/ \E u \in Threads : Finish(u))
  BY <1>12 DEF CtrlFailed, flags
<1>13. ASSUME NEW t \in Threads, Begin(t)
      PROVE  (cancelled => cancelled') /\ watching \subseteq watching' /\ (backend' => backend \/ \E u \in Threads : Finish(u))
  BY <1>13 DEF Begin, flags
<1>14. ASSUME NEW t \in Threads, Synced(t)
      PROVE  (cancelled => cancelled') /\ watching \subseteq watching' /\ (backend' => backend \/ \E u \in Threads : Finish(u))
  BY <1>14 DEF Synced, flags
<1>15. ASSUME NEW t \in Threads, Finish(t)
      PROVE  (cancelled => cancelled') /\ watching \subseteq watching' /\ (backend' => backend \/ \E u \in Threads : Finish(u))
  BY <1>15 DEF Finish, flags
<1>16. ASSUME NEW g \in Kinds, InformerSyncs(g)
      PROVE  (cancelled => cancelled') /\ watching \subseteq watching' /\ (backend' => backend \/ \E u \in Threads : Finish(u))
  BY <1>16 DEF InformerSyncs, flags
<1>17. ASSUME NEW g \in Kinds, NEW x \in Objects, Arrive(g, x)
      PROVE  (cancelled => cancelled') /\ watching \subseteq watching' /\ (backend' => backend \/ \E u \in Threads : Finish(u))
  BY <1>17 DEF Arrive, flags
<1>18. ASSUME NEW g \in Kinds, NEW x \in Objects, OnChange(g, x)
      PROVE  (cancelled => cancelled') /\ watching \subseteq watching' /\ (backend' => backend \/ \E u \in Threads : Finish(u))
  BY <1>18 DEF OnChange, flags
<1>19. ASSUME NEW g \in Kinds, CallHandler(g)
      PROVE  (cancelled => cancelled') /\ watching \subseteq watching' /\ (backend' => backend \/ \E u \in Threads : Finish(u))
  BY <1>19 DEF CallHandler, flags
<1>20. ASSUME NEW g \in Kinds, OnChangeEnds(g)
      PROVE  (cancelled => cancelled') /\ watching \subseteq watching' /\ (backend' => backend \/ \E u \in Threads : Finish(u))
  BY <1>20 DEF OnChangeEnds, flags
<1>21. ASSUME NEW g \in Kinds, Deregister(g)
      PROVE  (cancelled => cancelled') /\ watching \subseteq watching' /\ (backend' => backend \/ \E u \in Threads : Finish(u))
  BY <1>21 DEF Deregister, flags
<1>22. ASSUME NEW g \in Kinds, Reset(g)
      PROVE  (cancelled => cancelled') /\ watching \subseteq watching' /\ (backend' => backend \/ \E u \in Threads : Finish(u))
  BY <1>22 DEF Reset, flags
<1>23. ASSUME NEW g \in Kinds, Drained(g)
      PROVE  (cancelled => cancelled') /\ watching \subseteq watching' /\ (backend' => backend \/ \E u \in Threads : Finish(u))
  BY <1>23 DEF Drained, flags
<1>24. CASE Cancel
  BY <1>24 DEF Cancel, flags
<1>25. QED
  BY <1>1, <1>2, <1>3, <1>4, <1>5, <1>6, <1>7, <1>8, <1>9, <1>10, <1>11, <1>12, <1>13, <1>14, <1>15, <1>16, <1>17, <1>18, <1>19, <1>20, <1>21, <1>22, <1>23, <1>24
     DEF Next, Step, Work, Ending

LEMMA NextInv ==
    ASSUME Inv, [Next]_vars
    PROVE  Inv'
<1>1. Base /\ Base'
  BY BaseStep DEF Inv
<1>2. cancelled => cancelled'
  BY OneWay
<1>3. ASSUME ~cancelled'
      PROVE  Live'
  <2>1. ~cancelled /\ Live
    BY <1>2, <1>3 DEF Inv
  <2>2. FlagsOk' /\ RegisteredOk' /\ WorkOk' /\ ReachOk'
    BY <1>1, <1>3, <2>1, FlagsStep, RegisteredStep, WorkStep, ReachStep DEF Base
  <2>3. StartOk' /\ BackendOk'
    BY <1>1, <1>3, <2>1, StartStep, BackendStep DEF Base
  <2>4. QED
    BY <2>2, <2>3 DEF Live
<1>4. QED
  BY <1>1, <1>3 DEF Inv

\* The inductive invariant holds in every state of every execution.
THEOREM Invariance == Spec => []Inv
<1>1. Init => Inv
  BY InitInv
<1>2. Inv /\ [Next]_vars => Inv'
  BY NextInv
<1>3. QED
  BY <1>1, <1>2, PTL DEF Spec

\* The slice of handlers of every kind lies in its backing array and has a set
\* in each of its entries, whatever Register and the AfterFuncs that
\* deregister do; a kind with a controller is known to the factory.
THEOREM TypeCorrect == Spec => []TypeOK
<1>1. Inv => TypeOK
  <2>1. ASSUME Inv PROVE TypeOK
    <3>1. Types /\ SliceOk /\ MadeOk
      BY <2>1 DEF Inv, Base
    <3>2. \A t \in Threads : thr[t].run.kinds \subseteq Kinds /\ thr[t].run.kind \in Kinds \cup {None}
      BY <3>1, ThreadType
    <3>3. \A g \in Kinds : /\ len[g] \in 0..Len(arr[g]) /\ \A i \in 1..len[g] : arr[g][i] \in Sets
                           /\ ctrl[g] # "none" => g \in made
      BY <3>1 DEF Types, SliceOk, SliceAt, MadeOk
    <3>4. QED
      BY <3>1, <3>2, <3>3 DEF TypeOK, Types
  <2>2. QED
    BY <2>1
<1>2. QED
  BY <1>1, Invariance, PTL

LEMMA InvDelivered ==
    ASSUME Inv
    PROVE  Delivered
<1>1. SUFFICES ASSUME Rest, StartCalled, NEW p \in watching, ctrl[p[2]] = "made", NEW x \in cached[p[2]]
               PROVE  <<p[1], p[2], x>> \in seen
  BY DEF Delivered
<1>2. Types /\ Live
  BY <1>1 DEF Inv, Base, Rest
<1>3. \A t \in Threads : thr[t].run.pc = "idle" /\ ~thr[t].run.load /\ ~thr[t].run.failed
  BY <1>1 DEF Rest, Idle
<1>4. p[1] \in Sets /\ p[2] \in Kinds /\ p = <<p[1], p[2]>> /\ x \in Objects
  <2>1. p \in Sets \X Kinds
    BY <1>2 DEF Types
  <2>2. p[1] \in Sets /\ p[2] \in Kinds /\ p = <<p[1], p[2]>>
    BY <2>1
  <2>3. QED
    BY <1>2, <2>2 DEF Types
<1>5. p[2] \in started
  <2>1. Watches(p[2])
    BY <1>4 DEF Watches
  <2>2. ~StartFailed /\ ~StartAhead /\ ~WillStart(p[2])
    BY <1>3 DEF StartFailed, FailedAt, StartAhead, AheadAt, WillStart, WillStartAt
  <2>3. QED
    BY <1>1, <1>2, <1>4, <2>1, <2>2 DEF Live, StartOk
<1>6. PICK i \in 1..len[p[2]] : arr[p[2]][i] = p[1]
  BY <1>2 DEF Live, RegisteredOk, Registered
<1>7. Reaches(p[2], i, x)
  BY <1>2, <1>5 DEF Live, ReachOk
<1>8. x \notin due[p[2]] /\ work[p[2]].obj # x
  BY <1>1, <1>4, SharedAssumption DEF Rest
<1>9. QED
  BY <1>3, <1>6, <1>7, <1>8 DEF Reaches

\* Once a set has been started, every object of a kind has been given to every
\* set that watches the kind as soon as no call and no key is left, in
\* whatever order Register, the start of the controller, the objects and the
\* keys came: append does not hide a handler from an OnChange, the list at the
\* end of RegisterHandler and the event handler leave no gap, and a set that
\* HasStarted told not to start its controller is started by loadAndStart.
THEOREM DeliveredToAll == Spec => []Delivered
BY Invariance, InvDelivered, PTL

-------------------------------------------------------------------------------
(* A replica that only preloads                                            *)

\* No controller runs and no OnChange is under way.
LEMMA StillIdle ==
    ASSUME Base, Follower, [Next]_vars
    PROVE  running' = {} /\ \A g \in Kinds : work'[g].obj = None
<1>0. Types /\ PcOk /\ SliceOk /\ running = {} /\ (\A q \in Kinds : work[q].obj = None) /\ \A u \in Threads : FollowerAt(u)
  BY DEF Base, Follower
<1>1. CASE UNCHANGED vars
  BY <1>1, <1>0 DEF vars, flags, slice, cache, workVars
<1>2. ASSUME NEW t \in Threads, NEW host \in Kinds \cup {None}, Call(t, host)
      PROVE  running' = {} /\ \A q \in Kinds : work'[q].obj = None
  BY <1>2, CallEffect, <1>0 DEF flags, slice, cache, workVars
<1>3. ASSUME NEW t \in Threads, WatchEnd(t)
      PROVE  running' = {} /\ \A q \in Kinds : work'[q].obj = None
  BY <1>3, WatchEndEffect, <1>0 DEF flags, slice, cache, workVars
<1>4. ASSUME NEW t \in Threads, NEW g \in Kinds, ForKind(t, g)
      PROVE  running' = {} /\ \A q \in Kinds : work'[q].obj = None
  BY <1>4, ForKindEffect, <1>0 DEF flags, slice, cache, workVars
<1>5. ASSUME NEW t \in Threads, InitController(t)
      PROVE  running' = {} /\ \A q \in Kinds : work'[q].obj = None
  BY <1>5, InitControllerEffect, <1>0 DEF flags, slice, cache, workVars
<1>6. ASSUME NEW t \in Threads, Register(t)
      PROVE  running' = {} /\ \A q \in Kinds : work'[q].obj = None
  <2>1. /\ running' = running /\ thr[t].run.kind \in Kinds
        /\ work'[thr[t].run.kind].obj = work[thr[t].run.kind].obj
        /\ \A q \in Kinds \ {thr[t].run.kind} : work'[q] = work[q]
    BY <1>6, RegisterEffect, <1>0 DEF flags, slice, cache, workVars
  <2>2. QED
    BY <1>0, <2>1
<1>7. ASSUME NEW t \in Threads, ListExisting(t)
      PROVE  running' = {} /\ \A q \in Kinds : work'[q].obj = None
  BY <1>7, ListExistingEffect, <1>0 DEF flags, slice, cache, workVars
<1>8. ASSUME NEW t \in Threads, HasStarted(t)
      PROVE  running' = {} /\ \A q \in Kinds : work'[q].obj = None
  BY <1>8, HasStartedEffect, <1>0 DEF flags, slice, cache, workVars
<1>9. ASSUME NEW t \in Threads, Watched(t)
      PROVE  running' = {} /\ \A q \in Kinds : work'[q].obj = None
  BY <1>9, WatchedEffect, <1>0 DEF flags, slice, cache, workVars
<1>10. ASSUME NEW t \in Threads, NEW g \in Kinds, StartShared(t, g)
      PROVE  running' = {} /\ \A q \in Kinds : work'[q].obj = None
  BY <1>10, StartSharedEffect, <1>0 DEF flags, slice, cache, workVars
<1>11. ASSUME NEW t \in Threads, CtrlStarted(t)
      PROVE  running' = {} /\ \A q \in Kinds : work'[q].obj = None
  BY <1>11, CtrlStartedEffect, <1>0 DEF FollowerAt
<1>12. ASSUME NEW t \in Threads, CtrlFailed(t)
      PROVE  running' = {} /\ \A q \in Kinds : work'[q].obj = None
  BY <1>12, CtrlFailedEffect, <1>0 DEF FollowerAt
<1>13. ASSUME NEW t \in Threads, Begin(t)
      PROVE  running' = {} /\ \A q \in Kinds : work'[q].obj = None
  BY <1>13, BeginEffect, <1>0 DEF flags, slice, cache, workVars
<1>14. ASSUME NEW t \in Threads, Synced(t)
      PROVE  running' = {} /\ \A q \in Kinds : work'[q].obj = None
  BY <1>14, SyncedEffect, <1>0 DEF flags, slice, cache, workVars
<1>15. ASSUME NEW t \in Threads, Finish(t)
      PROVE  running' = {} /\ \A q \in Kinds : work'[q].obj = None
  BY <1>15, FinishEffect, <1>0 DEF flags, slice, cache, workVars
<1>16. ASSUME NEW g \in Kinds, InformerSyncs(g)
      PROVE  running' = {} /\ \A q \in Kinds : work'[q].obj = None
  BY <1>16, <1>0 DEF flags, slice, cache, workVars, InformerSyncs
<1>17. ASSUME NEW g \in Kinds, NEW x \in Objects, Arrive(g, x)
      PROVE  running' = {} /\ \A q \in Kinds : work'[q].obj = None
  BY <1>17, <1>0 DEF flags, slice, cache, workVars, Arrive
<1>18. ASSUME NEW g \in Kinds, NEW x \in Objects, OnChange(g, x)
      PROVE  running' = {} /\ \A q \in Kinds : work'[q].obj = None
  BY <1>18, OnChangeEffect, <1>0 DEF flags, slice, cache, workVars
<1>19. ASSUME NEW g \in Kinds, CallHandler(g)
      PROVE  running' = {} /\ \A q \in Kinds : work'[q].obj = None
  BY <1>19, CallHandlerEffect, <1>0 DEF flags, slice, cache, workVars
<1>20. ASSUME NEW g \in Kinds, OnChangeEnds(g)
      PROVE  running' = {} /\ \A q \in Kinds : work'[q].obj = None
  BY <1>20, OnChangeEndsEffect, <1>0 DEF flags, slice, cache, workVars
<1>21. ASSUME NEW g \in Kinds, Deregister(g)
      PROVE  running' = {} /\ \A q \in Kinds : work'[q].obj = None
  BY <1>21, DeregisterEffect, <1>0 DEF flags, slice, cache, workVars
<1>22. ASSUME NEW g \in Kinds, Reset(g)
      PROVE  running' = {} /\ \A q \in Kinds : work'[q].obj = None
  BY <1>22, <1>0 DEF flags, slice, cache, workVars, Reset
<1>23. ASSUME NEW g \in Kinds, Drained(g)
      PROVE  running' = {} /\ \A q \in Kinds : work'[q].obj = None
  BY <1>23, <1>0 DEF flags, slice, cache, workVars, Drained
<1>24. CASE Cancel
  BY <1>24, <1>0 DEF flags, slice, cache, workVars, Cancel
<1>25. QED
  BY <1>1, <1>2, <1>3, <1>4, <1>5, <1>6, <1>7, <1>8, <1>9, <1>10, <1>11, <1>12, <1>13, <1>14, <1>15, <1>16, <1>17, <1>18, <1>19, <1>20, <1>21, <1>22, <1>23, <1>24
     DEF Next, Step, Work, Ending

\* A thread that preloads gets through without starting a controller.
LEMMA FollowersStep ==
    ASSUME Base, Follower, OneFollower, ~StartCalled', [Next]_vars
    PROVE  \A u \in Threads : FollowerAt(u)'
<1>1. CASE UNCHANGED vars
  <2>1. thr' = thr /\ watching' = watching
    BY <1>1 DEF vars, flags, slice, cache, workVars, Base
  <2>2. QED
    BY <2>1 DEF Follower, FollowerAt, HoldsWatch, AllWatched
<1>2. ASSUME NEW t \in Threads, NEW host \in Kinds \cup {None}, Call(t, host)
      PROVE  \A u \in Threads : FollowerAt(u)'
  <2>0. Types /\ PcOk /\ SliceOk /\ RestOk /\ LockOk /\ PcAt(t) /\ thr[t].run \in Runs /\ FollowerAt(t)
    BY ThreadType DEF Base, PcOk, Follower
  <2>1. FollowerAt(t)'
    <3>1. Head(thr[t].rest) = "preload" /\ "preload" \in ToSet(Program[t])
      <4>1. Head(thr[t].rest) # "start" /\ Head(thr[t].rest) \in ToSet(Program[t])
        BY <1>2, CallEffect, <2>0, CallRest
      <4>2. Head(thr[t].rest) # "watch"
        BY <1>2, CallEffect, <2>0 DEF Follower
      <4>3. QED
        BY <1>2, CallEffect, <2>0, <4>1, <4>2 DEF Ops
    <3>2. QED
      BY <1>2, CallEffect, <2>0, <3>1 DEF FollowerAt, HoldsWatch, Walking
  <2>2. ASSUME NEW u \in Threads \ {t}
        PROVE  FollowerAt(u)'
    <3>0. Others(t)
      BY <1>2, CallEffect, <2>0 DEF Moves, Leaves
    <3>1. thr'[u] = thr[u] /\ FollowerAt(u)
      BY <3>0 DEF Others, Follower
    <3>2. watching' = watching
      BY <1>2, CallEffect, <2>0 DEF flags, slice, cache, workVars
    <3>3. QED
      BY <3>1, <3>2 DEF FollowerAt, HoldsWatch, AllWatched
  <2>3. QED
    BY <2>1, <2>2
<1>3. ASSUME NEW t \in Threads, WatchEnd(t)
      PROVE  \A u \in Threads : FollowerAt(u)'
  <2>0. Types /\ PcOk /\ SliceOk /\ RestOk /\ LockOk /\ PcAt(t) /\ thr[t].run \in Runs /\ FollowerAt(t)
    BY ThreadType DEF Base, PcOk, Follower
  <2>1. FollowerAt(t)'
    <3>1. watching' = watching
      BY <1>3, WatchEndEffect, <2>0 DEF flags, slice, cache, workVars
    <3>2. QED
      BY <1>3, WatchEndEffect, <2>0, <3>1 DEF FollowerAt, HoldsWatch, AllWatched, Moves, Leaves, Walking, PcAt
  <2>2. ASSUME NEW u \in Threads \ {t}
        PROVE  FollowerAt(u)'
    <3>0. Others(t)
      BY <1>3, WatchEndEffect, <2>0 DEF Moves, Leaves
    <3>1. thr'[u] = thr[u] /\ FollowerAt(u)
      BY <3>0 DEF Others, Follower
    <3>2. watching' = watching
      BY <1>3, WatchEndEffect, <2>0 DEF flags, slice, cache, workVars
    <3>3. QED
      BY <3>1, <3>2 DEF FollowerAt, HoldsWatch, AllWatched
  <2>3. QED
    BY <2>1, <2>2
<1>4. ASSUME NEW t \in Threads, NEW g \in Kinds, ForKind(t, g)
      PROVE  \A u \in Threads : FollowerAt(u)'
  <2>0. Types /\ PcOk /\ SliceOk /\ RestOk /\ LockOk /\ PcAt(t) /\ thr[t].run \in Runs /\ FollowerAt(t)
    BY ThreadType DEF Base, PcOk, Follower
  <2>1. FollowerAt(t)'
    <3>1. watching' = watching /\ thr[t].run.pc = "watch" /\ g \in thr[t].run.kinds /\ ~thr[t].run.load
      BY <1>4, ForKindEffect, <2>0 DEF flags, slice, cache, workVars, PcAt
    <3>2. CASE /\ <<SetOf[t], g>> \in watching
               /\ Moves(t, "watch", g, thr[t].run.kinds \ {g}, thr[t].run.load, thr[t].run.failed)
      BY <2>0, <3>1, <3>2 DEF FollowerAt, HoldsWatch, Moves, Walking
    <3>3. CASE Moves(t, "watch", thr[t].run.kind, thr[t].run.kinds \ {g}, thr[t].run.load, TRUE)
      BY <2>0, <3>1, <3>3 DEF FollowerAt, HoldsWatch, Moves, Walking
    <3>4. CASE /\ <<SetOf[t], g>> \notin watching
               /\ Moves(t, "init", g, thr[t].run.kinds \ {g}, thr[t].run.load, thr[t].run.failed)
      BY <2>0, <3>1, <3>4 DEF FollowerAt, HoldsWatch, Moves, Walking
    <3>5. QED
      BY <1>4, ForKindEffect, <2>0, <3>2, <3>3, <3>4
  <2>2. ASSUME NEW u \in Threads \ {t}
        PROVE  FollowerAt(u)'
    <3>0. Others(t)
      BY <1>4, ForKindEffect, <2>0 DEF Moves, Leaves
    <3>1. thr'[u] = thr[u] /\ FollowerAt(u)
      BY <3>0 DEF Others, Follower
    <3>2. watching' = watching
      BY <1>4, ForKindEffect, <2>0 DEF flags, slice, cache, workVars
    <3>3. QED
      BY <3>1, <3>2 DEF FollowerAt, HoldsWatch, AllWatched
  <2>3. QED
    BY <2>1, <2>2
<1>5. ASSUME NEW t \in Threads, InitController(t)
      PROVE  \A u \in Threads : FollowerAt(u)'
  <2>0. Types /\ PcOk /\ SliceOk /\ RestOk /\ LockOk /\ PcAt(t) /\ thr[t].run \in Runs /\ FollowerAt(t)
    BY ThreadType DEF Base, PcOk, Follower
  <2>1. FollowerAt(t)'
    <3>1. watching' = watching
      BY <1>5, InitControllerEffect, <2>0 DEF flags, slice, cache, workVars
    <3>2. QED
      BY <1>5, InitControllerEffect, <2>0, <3>1 DEF FollowerAt, HoldsWatch, AllWatched, Moves, Leaves, Walking, PcAt
  <2>2. ASSUME NEW u \in Threads \ {t}
        PROVE  FollowerAt(u)'
    <3>0. Others(t)
      BY <1>5, InitControllerEffect, <2>0 DEF Moves, Leaves
    <3>1. thr'[u] = thr[u] /\ FollowerAt(u)
      BY <3>0 DEF Others, Follower
    <3>2. watching' = watching
      BY <1>5, InitControllerEffect, <2>0 DEF flags, slice, cache, workVars
    <3>3. QED
      BY <3>1, <3>2 DEF FollowerAt, HoldsWatch, AllWatched
  <2>3. QED
    BY <2>1, <2>2
<1>6. ASSUME NEW t \in Threads, Register(t)
      PROVE  \A u \in Threads : FollowerAt(u)'
  <2>0. Types /\ PcOk /\ SliceOk /\ RestOk /\ LockOk /\ PcAt(t) /\ thr[t].run \in Runs /\ FollowerAt(t)
    BY ThreadType DEF Base, PcOk, Follower
  <2>1. FollowerAt(t)'
    <3>1. /\ watching' = watching /\ thr[t].run.pc = "register"
          /\ Moves(t, "list", thr[t].run.kind, thr[t].run.kinds, thr[t].run.load, thr[t].run.failed)
      BY <1>6, RegisterEffect, <2>0 DEF flags, slice, cache, workVars
    <3>2. QED
      BY <2>0, <3>1 DEF FollowerAt, HoldsWatch, AllWatched, Moves, Walking, PcAt
  <2>2. ASSUME NEW u \in Threads \ {t}
        PROVE  FollowerAt(u)'
    <3>0. Others(t)
      BY <1>6, RegisterEffect, <2>0 DEF Moves, Leaves
    <3>1. thr'[u] = thr[u] /\ FollowerAt(u)
      BY <3>0 DEF Others, Follower
    <3>2. watching' = watching
      BY <1>6, RegisterEffect, <2>0 DEF flags, slice, cache, workVars
    <3>3. QED
      BY <3>1, <3>2 DEF FollowerAt, HoldsWatch, AllWatched
  <2>3. QED
    BY <2>1, <2>2
<1>7. ASSUME NEW t \in Threads, ListExisting(t)
      PROVE  \A u \in Threads : FollowerAt(u)'
  <2>0. Types /\ PcOk /\ SliceOk /\ RestOk /\ LockOk /\ PcAt(t) /\ thr[t].run \in Runs /\ FollowerAt(t)
    BY ThreadType DEF Base, PcOk, Follower
  <2>1. FollowerAt(t)'
    <3>1. watching' = watching
      BY <1>7, ListExistingEffect, <2>0 DEF flags, slice, cache, workVars
    <3>2. QED
      BY <1>7, ListExistingEffect, <2>0, <3>1 DEF FollowerAt, HoldsWatch, AllWatched, Moves, Leaves, Walking, PcAt
  <2>2. ASSUME NEW u \in Threads \ {t}
        PROVE  FollowerAt(u)'
    <3>0. Others(t)
      BY <1>7, ListExistingEffect, <2>0 DEF Moves, Leaves
    <3>1. thr'[u] = thr[u] /\ FollowerAt(u)
      BY <3>0 DEF Others, Follower
    <3>2. watching' = watching
      BY <1>7, ListExistingEffect, <2>0 DEF flags, slice, cache, workVars
    <3>3. QED
      BY <3>1, <3>2 DEF FollowerAt, HoldsWatch, AllWatched
  <2>3. QED
    BY <2>1, <2>2
<1>8. ASSUME NEW t \in Threads, HasStarted(t)
      PROVE  \A u \in Threads : FollowerAt(u)'
  <2>0. Types /\ PcOk /\ SliceOk /\ RestOk /\ LockOk /\ PcAt(t) /\ thr[t].run \in Runs /\ FollowerAt(t)
    BY ThreadType DEF Base, PcOk, Follower
  <2>1. FollowerAt(t)'
    <3>1. ~backend
      <4>1. thr[t].run.kind \in KindsOf[SetOf[t]] /\ <<SetOf[t], thr[t].run.kind>> \notin watching /\ "preload" \in ToSet(Program[t])
        BY <1>8, HasStartedEffect, <2>0 DEF FollowerAt, HoldsWatch, Walking, PcAt
      <4>2. QED
        BY <4>1 DEF Follower, AllWatched
    <3>2. watching' = watching
      BY <1>8, HasStartedEffect, <2>0 DEF flags, slice, cache, workVars
    <3>3. QED
      BY <1>8, HasStartedEffect, <2>0, <3>1, <3>2 DEF FollowerAt, HoldsWatch, AllWatched, Moves, Walking, PcAt
  <2>2. ASSUME NEW u \in Threads \ {t}
        PROVE  FollowerAt(u)'
    <3>0. Others(t)
      BY <1>8, HasStartedEffect, <2>0 DEF Moves, Leaves
    <3>1. thr'[u] = thr[u] /\ FollowerAt(u)
      BY <3>0 DEF Others, Follower
    <3>2. watching' = watching
      BY <1>8, HasStartedEffect, <2>0 DEF flags, slice, cache, workVars
    <3>3. QED
      BY <3>1, <3>2 DEF FollowerAt, HoldsWatch, AllWatched
  <2>3. QED
    BY <2>1, <2>2
<1>9. ASSUME NEW t \in Threads, Watched(t)
      PROVE  \A u \in Threads : FollowerAt(u)'
  <2>0. Types /\ PcOk /\ SliceOk /\ RestOk /\ LockOk /\ PcAt(t) /\ thr[t].run \in Runs /\ FollowerAt(t)
    BY ThreadType DEF Base, PcOk, Follower
  <2>1. FollowerAt(t)'
    <3>1. /\ watching' = watching \cup {<<SetOf[t], thr[t].run.kind>>} /\ thr[t].run.pc = "watched"
          /\ Moves(t, "watch", thr[t].run.kind, thr[t].run.kinds, thr[t].run.load, thr[t].run.failed)
      BY <1>9, WatchedEffect, <2>0
    <3>2. ~thr[t].run.load
      BY <2>0, <3>1 DEF PcAt
    <3>3. QED
      BY <2>0, <3>1, <3>2 DEF FollowerAt, HoldsWatch, AllWatched, Moves, Walking
  <2>2. ASSUME NEW u \in Threads \ {t}
        PROVE  FollowerAt(u)'
    <3>0. Others(t)
      BY <1>9, WatchedEffect, <2>0 DEF Moves, Leaves
    <3>1. thr'[u] = thr[u] /\ FollowerAt(u)
      BY <3>0 DEF Others, Follower
    <3>2. watching' = watching \cup {<<SetOf[t], thr[t].run.kind>>} /\ HoldsWatch(t)
      BY <1>9, WatchedEffect, <2>0 DEF HoldsWatch, PcAt
    <3>3. HoldsWatch(u) => SetOf[u] # SetOf[t]
      BY <2>0, <3>2 DEF LockOk
    <3>4. HoldsWatch(u) => \A q : <<SetOf[u], q>> \in watching' <=> <<SetOf[u], q>> \in watching
      BY <3>2, <3>3
    <3>5. QED
      BY <3>1, <3>2, <3>4 DEF FollowerAt, HoldsWatch, AllWatched
  <2>3. QED
    BY <2>1, <2>2
<1>10. ASSUME NEW t \in Threads, NEW g \in Kinds, StartShared(t, g)
      PROVE  \A u \in Threads : FollowerAt(u)'
  <2>1. Types /\ PcOk /\ FollowerAt(t)
    BY DEF Base, Follower
  <2>2. QED
    BY <1>10, StartSharedEffect, <2>1 DEF FollowerAt
<1>11. ASSUME NEW t \in Threads, CtrlStarted(t)
      PROVE  \A u \in Threads : FollowerAt(u)'
  <2>1. Types /\ PcOk /\ FollowerAt(t)
    BY DEF Base, Follower
  <2>2. QED
    BY <1>11, CtrlStartedEffect, <2>1 DEF FollowerAt
<1>12. ASSUME NEW t \in Threads, CtrlFailed(t)
      PROVE  \A u \in Threads : FollowerAt(u)'
  <2>1. Types /\ PcOk /\ FollowerAt(t)
    BY DEF Base, Follower
  <2>2. QED
    BY <1>12, CtrlFailedEffect, <2>1 DEF FollowerAt
<1>13. ASSUME NEW t \in Threads, Begin(t)
      PROVE  \A u \in Threads : FollowerAt(u)'
  <2>0. Types /\ PcOk /\ SliceOk /\ RestOk /\ LockOk /\ PcAt(t) /\ thr[t].run \in Runs /\ FollowerAt(t)
    BY ThreadType DEF Base, PcOk, Follower
  <2>1. FollowerAt(t)'
    <3>1. watching' = watching
      BY <1>13, BeginEffect, <2>0 DEF flags, slice, cache, workVars
    <3>2. QED
      BY <1>13, BeginEffect, <2>0, <3>1 DEF FollowerAt, HoldsWatch, AllWatched, Moves, Leaves, Walking, PcAt
  <2>2. ASSUME NEW u \in Threads \ {t}
        PROVE  FollowerAt(u)'
    <3>0. Others(t)
      BY <1>13, BeginEffect, <2>0 DEF Moves, Leaves
    <3>1. thr'[u] = thr[u] /\ FollowerAt(u)
      BY <3>0 DEF Others, Follower
    <3>2. watching' = watching
      BY <1>13, BeginEffect, <2>0 DEF flags, slice, cache, workVars
    <3>3. QED
      BY <3>1, <3>2 DEF FollowerAt, HoldsWatch, AllWatched
  <2>3. QED
    BY <2>1, <2>2
<1>14. ASSUME NEW t \in Threads, Synced(t)
      PROVE  \A u \in Threads : FollowerAt(u)'
  <2>0. Types /\ PcOk /\ SliceOk /\ RestOk /\ LockOk /\ PcAt(t) /\ thr[t].run \in Runs /\ FollowerAt(t)
    BY ThreadType DEF Base, PcOk, Follower
  <2>1. FollowerAt(t)'
    <3>1. watching' = watching
      BY <1>14, SyncedEffect, <2>0 DEF flags, slice, cache, workVars
    <3>2. QED
      BY <1>14, SyncedEffect, <2>0, <3>1 DEF FollowerAt, HoldsWatch, AllWatched, Moves, Leaves, Walking, PcAt
  <2>2. ASSUME NEW u \in Threads \ {t}
        PROVE  FollowerAt(u)'
    <3>0. Others(t)
      BY <1>14, SyncedEffect, <2>0 DEF Moves, Leaves
    <3>1. thr'[u] = thr[u] /\ FollowerAt(u)
      BY <3>0 DEF Others, Follower
    <3>2. watching' = watching
      BY <1>14, SyncedEffect, <2>0 DEF flags, slice, cache, workVars
    <3>3. QED
      BY <3>1, <3>2 DEF FollowerAt, HoldsWatch, AllWatched
  <2>3. QED
    BY <2>1, <2>2
<1>15. ASSUME NEW t \in Threads, Finish(t)
      PROVE  \A u \in Threads : FollowerAt(u)'
  <2>0. Types /\ PcOk /\ SliceOk /\ RestOk /\ LockOk /\ PcAt(t) /\ thr[t].run \in Runs /\ FollowerAt(t)
    BY ThreadType DEF Base, PcOk, Follower
  <2>1. FollowerAt(t)'
    <3>1. watching' = watching
      BY <1>15, FinishEffect, <2>0 DEF flags, slice, cache, workVars
    <3>2. QED
      BY <1>15, FinishEffect, <2>0, <3>1 DEF FollowerAt, HoldsWatch, AllWatched, Moves, Leaves, Walking, PcAt
  <2>2. ASSUME NEW u \in Threads \ {t}
        PROVE  FollowerAt(u)'
    <3>0. Others(t)
      BY <1>15, FinishEffect, <2>0 DEF Moves, Leaves
    <3>1. thr'[u] = thr[u] /\ FollowerAt(u)
      BY <3>0 DEF Others, Follower
    <3>2. watching' = watching
      BY <1>15, FinishEffect, <2>0 DEF flags, slice, cache, workVars
    <3>3. QED
      BY <3>1, <3>2 DEF FollowerAt, HoldsWatch, AllWatched
  <2>3. QED
    BY <2>1, <2>2
<1>16. ASSUME NEW g \in Kinds, InformerSyncs(g)
      PROVE  \A u \in Threads : FollowerAt(u)'
  <2>1. thr' = thr /\ watching' = watching
    BY <1>16 DEF flags, slice, cache, workVars, InformerSyncs, Base
  <2>2. QED
    BY <2>1 DEF Follower, FollowerAt, HoldsWatch, AllWatched
<1>17. ASSUME NEW g \in Kinds, NEW x \in Objects, Arrive(g, x)
      PROVE  \A u \in Threads : FollowerAt(u)'
  <2>1. thr' = thr /\ watching' = watching
    BY <1>17 DEF flags, slice, cache, workVars, Arrive, Base
  <2>2. QED
    BY <2>1 DEF Follower, FollowerAt, HoldsWatch, AllWatched
<1>18. ASSUME NEW g \in Kinds, NEW x \in Objects, OnChange(g, x)
      PROVE  \A u \in Threads : FollowerAt(u)'
  <2>1. thr' = thr /\ watching' = watching
    BY <1>18, OnChangeEffect DEF flags, slice, cache, workVars, Base
  <2>2. QED
    BY <2>1 DEF Follower, FollowerAt, HoldsWatch, AllWatched
<1>19. ASSUME NEW g \in Kinds, CallHandler(g)
      PROVE  \A u \in Threads : FollowerAt(u)'
  <2>1. thr' = thr /\ watching' = watching
    BY <1>19, CallHandlerEffect DEF flags, slice, cache, workVars, Base
  <2>2. QED
    BY <2>1 DEF Follower, FollowerAt, HoldsWatch, AllWatched
<1>20. ASSUME NEW g \in Kinds, OnChangeEnds(g)
      PROVE  \A u \in Threads : FollowerAt(u)'
  <2>1. thr' = thr /\ watching' = watching
    BY <1>20, OnChangeEndsEffect DEF flags, slice, cache, workVars, Base
  <2>2. QED
    BY <2>1 DEF Follower, FollowerAt, HoldsWatch, AllWatched
<1>21. ASSUME NEW g \in Kinds, Deregister(g)
      PROVE  \A u \in Threads : FollowerAt(u)'
  <2>1. thr' = thr /\ watching' = watching
    BY <1>21, DeregisterEffect DEF flags, slice, cache, workVars, Base
  <2>2. QED
    BY <2>1 DEF Follower, FollowerAt, HoldsWatch, AllWatched
<1>22. ASSUME NEW g \in Kinds, Reset(g)
      PROVE  \A u \in Threads : FollowerAt(u)'
  <2>1. thr' = thr /\ watching' = watching
    BY <1>22 DEF flags, slice, cache, workVars, Reset, Base
  <2>2. QED
    BY <2>1 DEF Follower, FollowerAt, HoldsWatch, AllWatched
<1>23. ASSUME NEW g \in Kinds, Drained(g)
      PROVE  \A u \in Threads : FollowerAt(u)'
  <2>1. thr' = thr /\ watching' = watching
    BY <1>23 DEF flags, slice, cache, workVars, Drained, Base
  <2>2. QED
    BY <2>1 DEF Follower, FollowerAt, HoldsWatch, AllWatched
<1>24. CASE Cancel
  <2>1. thr' = thr /\ watching' = watching
    BY <1>24 DEF flags, slice, cache, workVars, Cancel, Base
  <2>2. QED
    BY <2>1 DEF Follower, FollowerAt, HoldsWatch, AllWatched
<1>25. QED
  BY <1>1, <1>2, <1>3, <1>4, <1>5, <1>6, <1>7, <1>8, <1>9, <1>10, <1>11, <1>12, <1>13, <1>14, <1>15, <1>16, <1>17, <1>18, <1>19, <1>20, <1>21, <1>22, <1>23, <1>24
     DEF Next, Step, Work, Ending

LEMMA FollowerStep ==
    ASSUME Base, Follower, OneFollower, ~StartCalled', [Next]_vars
    PROVE  Follower'
<1>1. \A t \in Threads : AllWatched(t) => AllWatched(t)'
  BY OneWay DEF AllWatched
<1>2. ASSUME backend', NEW t \in Threads, "preload" \in ToSet(Program[t])
      PROVE  AllWatched(t)
  <2>1. CASE backend
    BY <1>2, <2>1 DEF Follower
  <2>2. CASE ~backend
    <3>1. PICK u \in Threads : Finish(u)
      BY <1>2, <2>2, OneWay
    <3>2. thr[u].run.pc = "finish" /\ PcAt(u) /\ FollowerAt(u)
      BY <3>1 DEF Finish, At, Base, PcOk, Follower
    <3>3. AllWatched(u) /\ "preload" \in ToSet(Program[u])
      BY <3>2 DEF PcAt, FollowerAt
    <3>4. SetOf[t] = SetOf[u]
      BY <1>2, <3>3 DEF OneFollower
    <3>5. QED
      BY <3>3, <3>4 DEF AllWatched
  <2>3. QED
    BY <2>1, <2>2
<1>3. QED
  BY <1>1, <1>2, StillIdle, FollowersStep DEF Follower

LEMMA FollowerInitially ==
    ASSUME Init
    PROVE  FollowerInv
<1>1. Base
  BY InitInv DEF Inv
<1>2. \A t \in Threads : thr[t].run = Idle
  BY DEF Init
<1>3. \A t \in Threads : FollowerAt(t)
  BY <1>2 DEF FollowerAt, HoldsWatch, Idle
<1>4. QED
  BY <1>1, <1>3 DEF FollowerInv, Follower, Init, IdleWork

\* If the threads that preload do so for one handler set (a Preload of a second
\* set on the same Backend would start the kinds of that set), then no
\* controller runs, and so no handler, before somebody calls Start: not even
\* one whose kind is watched after the Backend was marked as started by a
\* Preload.
THEOREM PreloadIsIdle ==
    ASSUME OneFollower
    PROVE  Spec => []FollowerIdle
<1>1. Init => FollowerInv
  BY FollowerInitially
<1>2. FollowerInv /\ [Next]_vars => FollowerInv'
  <2>1. ASSUME FollowerInv, [Next]_vars PROVE FollowerInv'
    <3>1. Base /\ Base'
      BY <2>1, BaseStep DEF FollowerInv
    <3>2. StartCalled => StartCalled'
      BY <2>1, <3>1, RestStep DEF Base
    <3>3. Follower /\ ~StartCalled' => Follower'
      BY <2>1, <3>1, FollowerStep
    <3>4. QED
      BY <2>1, <3>1, <3>2, <3>3 DEF FollowerInv
  <2>2. QED
    BY <2>1
<1>3. FollowerInv => FollowerIdle
  BY DEF FollowerInv, Follower, FollowerIdle
<1>4. QED
  BY <1>1, <1>2, <1>3, PTL DEF Spec
===============================================================================
