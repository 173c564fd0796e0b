-------------------------- MODULE ObjectServerProofs ---------------------------
(***************************************************************************)
(* Proofs about the two parts that work with the object server: Watcher,   *)
(* whose callback gets every change once and in order, for histories of    *)
(* any length and any number of faults, and Chain, whose finalizers are    *)
(* respected for any chain of routes and any number of edits.              *)
(***************************************************************************)
EXTENDS Chain, Watcher, WellFoundedInduction, TLAPS

(***************************************************************************)
(* Watcher                                                                 *)
(***************************************************************************)
WatchEntry == [type : {"added", "modified", "deleted", "other"}, obj : Objects]

\* The history and the locals, with their types.
LocalsOk ==
    /\ log \in Seq(WatchEntry)
    /\ w \in [pc : {"list", "open", "watch", "cb", "wait", "returned"}, rev : Nat, last : Nat,
              pos : Nat, result : {"none", "done", "gone", "error"}]
    /\ compacted \in Nat /\ acked \in Nat

\* No revision is ahead of the server, and none that retryWatch goes on from is
\* ahead of the callback.
Bounded ==
    /\ w.rev <= Len(log) /\ w.pos <= Len(log) /\ compacted <= Len(log)
    /\ w.last <= acked /\ acked <= Len(log)

\* Where the next watch begins is where the callback is: with the revision a
\* watch is opened from, with lastRevision, with what the watch has sent.
Synchronised ==
    /\ w.pc = "open" => w.rev = acked
    /\ w.pc \in {"watch", "cb", "wait"} => w.last = acked
    /\ w.pc = "watch" => w.pos = acked

\* The change the callback has been given is the next one.
InOrder == w.pc = "cb" => w.pos > acked /\ \A k \in acked + 1 .. w.pos - 1 : ~Own(k)

\* The inductive invariant.
WatchInv == LocalsOk /\ Bounded /\ Synchronised /\ InOrder

-------------------------------------------------------------------------------
\* The object has one of its contents at every place of a history.
LEMMA WatchObjectType ==
    ASSUME LocalsOk
    PROVE  Current \in Objects
<1>1. Len(log) \in Nat /\ Absent \in Objects
  BY DEF LocalsOk, Objects
<1>2. CASE Len(log) = 0
  BY <1>1, <1>2 DEF Current, ObjectAt
<1>3. CASE Len(log) # 0
  <2>1. log[Len(log)] \in WatchEntry
    BY <1>1, <1>3 DEF LocalsOk
  <2>2. log[Len(log)].obj \in Objects
    BY <2>1 DEF WatchEntry
  <2>3. QED
    BY <1>1, <1>3, <2>2 DEF Current, ObjectAt
<1>4. QED
  BY <1>2, <1>3

LEMMA WatchInitInv == WatchInit => WatchInv
BY DEF WatchInit, WatchInv, LocalsOk, Bounded, Synchronised, InOrder, WatchEntry, Objects, Object, Own

\* The history only grows, and its entries stay what they are.
LEMMA WatchChangeStep ==
    ASSUME WatchInv, NEW o \in Objects, Change(o)
    PROVE  WatchInv'
<1> DEFINE type == IF o = Current THEN "other" ELSE IF o = Absent THEN "deleted"
                   ELSE IF Current = Absent THEN "added" ELSE "modified"
           e == [type |-> type, obj |-> IF o = Absent THEN Current ELSE o]
<1>0. e \in WatchEntry
  BY WatchObjectType DEF WatchInv, WatchEntry
<1>1. log' = Append(log, e)
  BY DEF Change
<1> HIDE DEF e
<1>2. /\ log' \in Seq(WatchEntry) /\ Len(log) \in Nat /\ Len(log') = Len(log) + 1
      /\ \A n \in 1..Len(log) : log'[n] = log[n]
  BY <1>0, <1>1 DEF WatchInv, LocalsOk
<1>3. UNCHANGED <<w, compacted, acked>>
  BY DEF Change
<1>4. LocalsOk' /\ Bounded'
  BY <1>2, <1>3 DEF WatchInv, LocalsOk, Bounded
<1>5. InOrder'
  BY <1>2, <1>3 DEF WatchInv, LocalsOk, Bounded, InOrder, Own
<1>6. QED
  BY <1>3, <1>4, <1>5 DEF WatchInv, Synchronised

\* Every step of the caller and of its connection, with or without a fault.
LEMMA WatchCallerStep ==
    ASSUME WatchInv, UNCHANGED log,
           \/ List \/ Open \/ OpenFails \/ Receive \/ Callback \/ Conflict \/ Bookmark \/ Closed
           \/ Again \/ Terminal \/ Compact
    PROVE  WatchInv'
<1> USE DEF WatchInv, LocalsOk, Own, Returned
<1>1. Len(log) \in Nat
  OBVIOUS
<1>2. CASE List
  <2>1. LocalsOk'
    BY <1>1, <1>2 DEF List
  <2>2. Bounded'
    <3>1. w'.rev \in {w.rev, Len(log)} /\ w'.pos = w.pos /\ w'.last = w.last
      BY <1>2 DEF List
    <3>2. QED
      BY <1>1, <1>2, <3>1 DEF List, Bounded
  <2>3. Synchronised'
    BY <1>1, <1>2 DEF List, Synchronised
  <2>4. InOrder'
    BY <1>1, <1>2 DEF List, Synchronised, InOrder
  <2>5. QED
    BY <2>1, <2>2, <2>3, <2>4
<1>3. CASE Open
  <2>1. LocalsOk'
    BY <1>1, <1>3 DEF Open
  <2>2. Bounded'
    <3>1. /\ w'.rev = w.rev
          /\ (w'.pos = w.pos /\ w'.last = w.last) \/ (w'.pos = w.rev /\ w'.last = w.rev)
      BY <1>3 DEF Open
    <3>2. w.rev = acked
      BY <1>3 DEF Open, Synchronised
    <3>3. QED
      BY <1>1, <1>3, <3>1, <3>2 DEF Open, Bounded
  <2>3. Synchronised'
    BY <1>1, <1>3 DEF Open, Synchronised
  <2>4. InOrder'
    BY <1>1, <1>3 DEF Open, Synchronised, InOrder
  <2>5. QED
    BY <2>1, <2>2, <2>3, <2>4
<1>4. CASE OpenFails
  <2>1. LocalsOk'
    BY <1>1, <1>4 DEF OpenFails
  <2>2. Bounded'
    BY <1>1, <1>4 DEF OpenFails, Bounded, Synchronised
  <2>3. Synchronised'
    BY <1>1, <1>4 DEF OpenFails, Synchronised
  <2>4. InOrder'
    BY <1>1, <1>4 DEF OpenFails, Synchronised, InOrder
  <2>5. QED
    BY <2>1, <2>2, <2>3, <2>4
<1>5. CASE Receive
  <2>1. w.pc = "watch" /\ UNCHANGED <<compacted, acked>>
    BY <1>5 DEF Receive
  <2>2. PICK n \in w.pos + 1 .. Len(log) :
           /\ \A k \in w.pos + 1 .. n - 1 : ~Own(k)
           /\ w' = [w EXCEPT !.pc = "cb", !.pos = n]
    BY <1>5 DEF Receive
  <2>3. n \in Nat /\ w.pos < n /\ n <= Len(log)
    BY <1>1
  <2>4. LocalsOk'
    BY <2>1, <2>2, <2>3
  <2>5. w'.pc = "cb" /\ w'.pos = n /\ w'.rev = w.rev /\ w'.last = w.last
    BY <2>2
  <2>6. Bounded'
    BY <1>1, <2>1, <2>3, <2>5 DEF Bounded
  <2>7. Synchronised' /\ InOrder'
    BY <2>1, <2>2, <2>3, <2>5 DEF Synchronised, InOrder
  <2>8. QED
    BY <2>4, <2>6, <2>7
<1>6. CASE Callback
  <2>1. LocalsOk'
    BY <1>1, <1>6 DEF Callback
  <2>2. Bounded'
    <3>1. w'.rev = w.rev /\ w'.pos = w.pos /\ w'.last \in {w.last, w.pos} /\ acked' = w.pos
      BY <1>6 DEF Callback
    <3>2. w.last < w.pos
      BY <1>6 DEF Callback, Synchronised, InOrder
    <3>3. QED
      BY <1>1, <1>6, <3>1, <3>2 DEF Callback, Bounded
  <2>3. Synchronised'
    BY <1>1, <1>6 DEF Callback, Synchronised
  <2>4. InOrder'
    BY <1>1, <1>6 DEF Callback, Synchronised, InOrder
  <2>5. QED
    BY <2>1, <2>2, <2>3, <2>4
<1>7. CASE Conflict \/ Closed \/ Again
  <2>1. LocalsOk'
    BY <1>1, <1>7 DEF Conflict, Closed, Again
  <2>2. Bounded'
    BY <1>1, <1>7 DEF Conflict, Closed, Again, Bounded, Synchronised
  <2>3. Synchronised'
    BY <1>1, <1>7 DEF Conflict, Closed, Again, Synchronised
  <2>4. InOrder'
    BY <1>1, <1>7 DEF Conflict, Closed, Again, Synchronised, InOrder
  <2>5. QED
    BY <2>1, <2>2, <2>3, <2>4
<1>8. CASE Terminal
  <2>1. LocalsOk'
    BY <1>1, <1>8 DEF Terminal
  <2>2. Bounded'
    BY <1>1, <1>8 DEF Terminal, Bounded, Synchronised
  <2>3. Synchronised'
    BY <1>1, <1>8 DEF Terminal, Synchronised
  <2>4. InOrder'
    BY <1>1, <1>8 DEF Terminal, Synchronised, InOrder
  <2>5. QED
    BY <2>1, <2>2, <2>3, <2>4
<1>9. CASE Bookmark
  <2>1. LocalsOk'
    BY <1>1, <1>9 DEF Bookmark
  <2>2. Bounded'
    BY <1>1, <1>9 DEF Bookmark, Bounded, Synchronised
  <2>3. Synchronised'
    BY <1>1, <1>9 DEF Bookmark, Synchronised
  <2>4. InOrder'
    BY <1>1, <1>9 DEF Bookmark, Synchronised, InOrder
  <2>5. QED
    BY <2>1, <2>2, <2>3, <2>4
<1>10. CASE Compact
  <2>1. LocalsOk'
    BY <1>1, <1>10 DEF Compact
  <2>2. Bounded'
    BY <1>1, <1>10 DEF Compact, Bounded, Synchronised
  <2>3. Synchronised'
    BY <1>1, <1>10 DEF Compact, Synchronised
  <2>4. InOrder'
    BY <1>1, <1>10 DEF Compact, Synchronised, InOrder
  <2>5. QED
    BY <2>1, <2>2, <2>3, <2>4
<1>11. QED
  BY <1>2, <1>3, <1>4, <1>5, <1>6, <1>7, <1>8, <1>9, <1>10

LEMMA WatchNextInv == WatchInv /\ [WatchNext]_watchVars => WatchInv'
<1> SUFFICES ASSUME WatchInv, [WatchNext]_watchVars PROVE WatchInv'
  OBVIOUS
<1>1. CASE UNCHANGED watchVars
  BY <1>1 DEF watchVars, WatchInv, LocalsOk, Bounded, Synchronised, InOrder, Own
<1>2. CASE \E o \in Objects : Change(o)
  BY <1>2, WatchChangeStep
<1>3. CASE Waiting \/ OpenFails \/ Conflict \/ Closed \/ Terminal \/ Compact
  <2>1. UNCHANGED log
    BY <1>3 DEF Waiting, List, Open, OpenFails, Receive, Callback, Conflict, Bookmark, Closed, Again,
                Terminal, Compact
  <2>2. QED
    BY <1>3, <2>1, WatchCallerStep DEF Waiting
<1>4. QED
  BY <1>1, <1>2, <1>3 DEF WatchNext

-------------------------------------------------------------------------------
\* The invariant holds in every reachable state.
THEOREM WatchInvariance == WatchSpec => []WatchInv
BY WatchInitInv, WatchNextInv, PTL DEF WatchSpec

\* Over all the watches that retryWatch opens, the callback gets every change of
\* the object in its order, none is left out and none comes again once it has
\* been handled.
THEOREM WatchDelivery == WatchSpec => []ExactlyOnce
<1>1. WatchInv => ExactlyOnce
  BY DEF WatchInv, LocalsOk, Bounded, InOrder, ExactlyOnce, WatchTypes
<1>2. QED
  BY WatchInvariance, <1>1, PTL

(***************************************************************************)
(* The inductive invariant of Chain.                                       *)
(***************************************************************************)
Entries == [type : {"added", "modified", "deleted"}, obj : Contents]
Copies == Contents \cup {Absent}
Calls == [pc : {"idle", "run", "status", "remove"}, i : 1..(Len(Routes) + 1), cur : Copies, old : Copies, new : Copies,
          failed : BOOLEAN, retry : BOOLEAN, errored : BOOLEAN]

\* The types of the variables.
Types ==
    /\ log \in Seq(Entries) /\ Len(log) > 0
    /\ events \in 0..MaxEvents /\ seen \in 0..Len(log)
    /\ due \in BOOLEAN /\ told \in BOOLEAN
    /\ call \in Calls

\* The last version that the server had of the object.
Latest == log[Len(log)].obj

\* Every version is the place in the history; no finalizer is there twice, and
\* an object that is being deleted and still there has one.
EntryOk(n) ==
    /\ log[n].obj.ver = n /\ IsInjective(log[n].obj.fins)
    /\ log[n].type # "deleted" /\ log[n].obj.deleting => log[n].obj.fins # <<>>
LogOk == \A n \in 1..Len(log) : EntryOk(n)

\* Nobody takes a deletion back, and from there on finalizers only go.
Shrinks(o, p) == o.deleting => p.deleting /\ ToSet(p.fins) \subseteq ToSet(o.fins)
HistoryOk == \A n \in 1..Len(log) : Shrinks(log[n].obj, Latest)

\* A copy with the current version differs from the object in the condition at
\* most; any other is stale and will be refused.
SameBut(o, p) == o.gen = p.gen /\ o.spec = p.spec /\ o.deleting = p.deleting /\ o.fins = p.fins /\ o.label = p.label
CopyOk(o) ==
    /\ o.ver <= Len(log) /\ IsInjective(o.fins) /\ Shrinks(o, Latest)
    /\ o.ver = Len(log) /\ Current # Absent => SameBut(o, Current)
CopiesOk == \A o \in {call.cur, call.new} : o # Absent => CopyOk(o)

\* A route handles what its filters let through; a finalizer handler that has
\* run stands at the front of the finalizers and, but for a retry, is done.
CallOk ==
    /\ call.pc = "run" /\ call.i <= Len(Routes) => Passes(Route, call.cur)
    /\ call.pc \in {"status", "remove"} =>
         /\ call.i <= Len(Routes) /\ Route.does = "finalize"
         /\ call.cur # Absent /\ call.cur.deleting /\ First(call.cur) /\ call.new # Absent
         /\ Route.id \in cleaned \/ (call.pc = "status" /\ call.retry)

ChainInv == Types /\ LogOk /\ HistoryOk /\ CopiesOk /\ CallOk

-------------------------------------------------------------------------------
(* The routes                                                              *)

\* A set of natural numbers has a least one.
LEMMA MinIn ==
    ASSUME NEW S \in SUBSET Nat, S # {}
    PROVE  Min(S) \in S
<1>1. PICK x \in S : \A y \in S : ~(<<y, x>> \in OpToRel(<, Nat))
  BY NatLessThanWellFounded, WFMin, Zenon
<1>2. \A y \in S : ~(y < x)
  BY <1>1, Zenon DEF OpToRel
<1>3. \A y \in S : x <= y
  BY <1>2
<1>4. QED
  BY <1>3 DEF Min

\* The next route is behind the last one or lets the object through.
LEMMA FromOk ==
    ASSUME NEW i \in 1..(Len(Routes) + 1), NEW o
    PROVE  /\ From(i, o) \in 1..(Len(Routes) + 1)
           /\ From(i, o) <= Len(Routes) => Passes(Routes[From(i, o)], o)
<1> DEFINE S == {j \in i..Len(Routes) : Passes(Routes[j], o)} \cup {Len(Routes) + 1}
<1>1. PICK l \in Nat : l = Len(Routes)
  BY ChainAssumption
<1>2. S \in SUBSET Nat /\ S # {}
  BY <1>1
<1>3. Min(S) \in S
  BY <1>2, MinIn
<1>4. From(i, o) = Min(S)
  BY DEF From
<1>5. \A j \in S : /\ j \in 1..(Len(Routes) + 1)
                   /\ j <= Len(Routes) => Passes(Routes[j], o)
  BY <1>1
<1> HIDE DEF S
<1>6. QED
  BY <1>3, <1>4, <1>5

\* The handler of a route returns, with c as the object that the next ones get.
Comes(c) ==
    \E fails \in BOOLEAN :
       call' = [call EXCEPT !.pc = "run", !.i = From(call.i + 1, c), !.cur = c, !.new = Absent, !.failed = fails]

LEMMA ReturnOk ==
    ASSUME Types, call.i <= Len(Routes), NEW c \in Copies, Comes(c)
    PROVE  call' \in Calls /\ call'.cur = c /\ call'.new = Absent /\ CallOk'
<1>0. PICK l \in Nat : l = Len(Routes)
  BY ChainAssumption
<1>1. call \in Calls /\ call.i \in 1..(l + 1) /\ Absent \in Copies
  BY <1>0 DEF Types, Calls, Copies
<1>2. call.i + 1 \in 1..(Len(Routes) + 1)
  BY <1>0, <1>1
<1> DEFINE j == From(call.i + 1, c)
<1>3. j \in 1..(Len(Routes) + 1) /\ (j <= Len(Routes) => Passes(Routes[j], c))
  BY <1>2, FromOk
<1>4. PICK fails \in BOOLEAN :
        call' = [call EXCEPT !.pc = "run", !.i = j, !.cur = c, !.new = Absent, !.failed = fails]
  BY DEF Comes
<1> HIDE DEF j
<1>5. call' \in Calls
  BY <1>1, <1>3, <1>4 DEF Calls
<1>6. call'.pc = "run" /\ call'.i = j /\ call'.cur = c /\ call'.new = Absent
  BY <1>1, <1>4 DEF Calls
<1>7. CallOk'
  BY <1>3, <1>6 DEF CallOk, Route
<1>8. QED
  BY <1>5, <1>6, <1>7

LEMMA ReturnComes ==
    ASSUME NEW c, NEW f \in BOOLEAN, Types, Return(c, f)
    PROVE  Comes(c)
<1>1. (call.failed \/ f) \in BOOLEAN
  OBVIOUS
<1>2. call' = [call EXCEPT !.pc = "run", !.i = From(call.i + 1, c), !.cur = c, !.new = Absent, !.failed = (call.failed \/ f)]
  BY DEF Return
<1>3. QED
  BY <1>1, <1>2, Zenon DEF Comes

-------------------------------------------------------------------------------
(* The object and its history                                              *)

LEMMA CurrentOk ==
    ASSUME Types, LogOk
    PROVE  /\ Len(log) \in Nat /\ Len(log) > 0 /\ Latest \in Contents /\ Latest.ver = Len(log)
           /\ Current # Absent => /\ Current = Latest /\ Current \in Contents /\ Current.ver = Len(log)
                                  /\ IsInjective(Current.fins) /\ (Current.deleting => Current.fins # <<>>)
           /\ \A n \in 0..Len(log) : /\ ObjectAt(n) \in Copies
                                     /\ ObjectAt(n) # Absent => n \in 1..Len(log) /\ ObjectAt(n) = log[n].obj
<1>1. Len(log) \in Nat /\ Len(log) > 0 /\ \A n \in 1..Len(log) : log[n] \in Entries
  BY DEF Types
<1>2. \A n \in 1..Len(log) : log[n].obj \in Contents
  BY <1>1 DEF Entries
<1>3. Len(log) \in 1..Len(log) /\ EntryOk(Len(log))
  BY <1>1 DEF LogOk
<1>4. Latest \in Contents /\ Latest.ver = Len(log)
  BY <1>2, <1>3 DEF Latest, EntryOk
<1>5. \A n \in 0..Len(log) : /\ ObjectAt(n) \in Copies
                             /\ ObjectAt(n) # Absent => n \in 1..Len(log) /\ ObjectAt(n) = log[n].obj
  <2>1. SUFFICES ASSUME NEW n \in 0..Len(log)
                 PROVE  /\ ObjectAt(n) \in Copies
                        /\ ObjectAt(n) # Absent => n \in 1..Len(log) /\ ObjectAt(n) = log[n].obj
    OBVIOUS
  <2>2. n = 0 \/ n \in 1..Len(log)
    BY <1>1
  <2>3. QED
    BY <1>2, <2>2 DEF ObjectAt, Copies
<1>6. Current # Absent => Current = Latest /\ log[Len(log)].type # "deleted"
  BY <1>1 DEF Current, ObjectAt, Latest
<1>7. Current # Absent => IsInjective(Current.fins) /\ (Current.deleting => Current.fins # <<>>)
  BY <1>3, <1>6 DEF EntryOk, Latest
<1>8. QED
  BY <1>1, <1>4, <1>5, <1>6, <1>7

\* The finalizers of an object that may be gone.
Fins(o) == IF o = Absent THEN {} ELSE ToSet(o.fins)

LEMMA StoredOk ==
    ASSUME Types, LogOk, Current # Absent, NEW o \in Contents
    PROVE  /\ Stored(o) \in Contents /\ Stored(o).ver = Len(log) + 1
           /\ Stored(o).deleting = o.deleting /\ Stored(o).fins = o.fins /\ Stored(o).label = o.label
<1>1. Len(log) + 1 \in Nat
  BY CurrentOk
<1> DEFINE gen == IF Current # Absent /\ o.spec # Current.spec THEN o.gen + 1 ELSE o.gen
           ver == Len(log) + 1
<1>2. gen \in Nat /\ ver \in Nat
  BY <1>1 DEF Contents
<1>3. Stored(o) = [o EXCEPT !.ver = ver, !.gen = gen]
  BY DEF Stored, Contents
<1> HIDE DEF gen, ver
<1>4. Stored(o) \in Contents
  BY <1>2, <1>3 DEF Contents
<1>5. Stored(o).ver = ver /\ Stored(o).deleting = o.deleting /\ Stored(o).fins = o.fins /\ Stored(o).label = o.label
  BY <1>3 DEF Contents
<1>6. QED
  BY <1>4, <1>5 DEF ver

\* Between two versions finalizers only go.
LEMMA ShrinksTransitive ==
    ASSUME NEW o, NEW p, NEW q, Shrinks(o, p), Shrinks(p, q)
    PROVE  Shrinks(o, q)
BY DEF Shrinks

\* A write of content o that neither takes a deletion back nor adds finalizers
\* to an object that is being deleted.
LEMMA StoreOk ==
    ASSUME Types, LogOk, HistoryOk, Current # Absent, NEW o \in Contents, IsInjective(o.fins), Shrinks(Current, o), Store(o)
    PROVE  /\ log' \in Seq(Entries) /\ Len(log') > 0 /\ Len(log) <= Len(log') /\ LogOk' /\ HistoryOk'
           /\ \A c \in Contents : CopyOk(c) => CopyOk(c)'
           /\ \A c : c = Answer(o) => /\ c \in Contents /\ CopyOk(c)'
                                      /\ c.deleting = o.deleting /\ c.fins = o.fins /\ c.label = o.label
           /\ Fins(Current)' = ToSet(o.fins)
<1>0. PICK l \in Nat : l = Len(log) /\ l > 0
  BY CurrentOk
<1>1. CASE o = Current
  <2>1. log' = log
    BY <1>1 DEF Store
  <2>2. Current' = Current /\ Latest' = Latest
    BY <2>1 DEF Current, ObjectAt, Latest
  <2>3. LogOk' /\ HistoryOk'
    BY <2>1, <2>2 DEF LogOk, EntryOk, HistoryOk
  <2>4. \A c : CopyOk(c) => CopyOk(c)'
    BY <2>1, <2>2 DEF CopyOk
  <2>5. CopyOk(o)
    BY <1>1, CurrentOk DEF CopyOk, SameBut, Shrinks
  <2>6. Answer(o) = o
    BY <1>1 DEF Answer
  <2>7. Fins(Current)' = ToSet(o.fins)
    BY <1>1, <2>2 DEF Fins
  <2>8. QED
    BY <1>0, <2>1, <2>3, <2>4, <2>5, <2>6, <2>7 DEF Types
<1>2. CASE o # Current
  <2> DEFINE type == IF o.deleting /\ o.fins = <<>> THEN "deleted" ELSE "modified"
             e == [type |-> type, obj |-> Stored(o)]
  <2>1. PICK s \in Contents : /\ s = Stored(o) /\ s.ver = l + 1
                              /\ s.deleting = o.deleting /\ s.fins = o.fins /\ s.label = o.label
    BY <1>0, StoredOk
  <2>2. log' = Append(log, e)
    BY <1>2 DEF Store
  <2>3. e \in Entries /\ e.obj = s /\ (e.type # "deleted" <=> ~(o.deleting /\ o.fins = <<>>))
    BY <2>1 DEF Entries
  <2> HIDE DEF e, type
  <2>4. /\ log' \in Seq(Entries) /\ Len(log') = l + 1 /\ log'[l + 1] = e
        /\ \A n \in 1..l : log'[n] = log[n]
    BY <1>0, <2>2, <2>3 DEF Types
  <2>5. Latest' = s
    BY <2>3, <2>4 DEF Latest
  <2>6. Current' = IF o.deleting /\ o.fins = <<>> THEN Absent ELSE s
    BY <1>0, <2>3, <2>4 DEF Current, ObjectAt
  <2>7. Shrinks(Latest, s) /\ Shrinks(s, s)
    BY <2>1, CurrentOk DEF Shrinks
  <2>8. \A n \in 1..(l + 1) : n \in 1..l \/ n = l + 1
    OBVIOUS
  <2>9. LogOk'
    <3>1. EntryOk(l + 1)'
      BY <2>1, <2>3, <2>4 DEF EntryOk
    <3>2. \A n \in 1..l : EntryOk(n)'
      BY <1>0, <2>4 DEF LogOk, EntryOk
    <3>3. QED
      BY <2>4, <2>8, <3>1, <3>2 DEF LogOk
  <2>10. HistoryOk'
    <3>1. \A n \in 1..l : Shrinks(log[n].obj, s)
      BY <1>0, <2>7, ShrinksTransitive DEF HistoryOk
    <3>2. \A n \in 1..(l + 1) : Shrinks(log'[n].obj, s)
      BY <2>3, <2>4, <2>7, <2>8, <3>1
    <3>3. \A n \in 1..(l + 1) : Shrinks(log[n].obj, Latest)'
      BY <2>5, <3>2 DEF Shrinks
    <3>4. QED
      BY <2>4, <3>3 DEF HistoryOk
  <2>11. \A c \in Contents : CopyOk(c) => CopyOk(c)'
    <3>1. SUFFICES ASSUME NEW c \in Contents, CopyOk(c) PROVE CopyOk(c)'
      OBVIOUS
    <3>2. c.ver \in Nat /\ c.ver <= l /\ Shrinks(c, Latest)
      BY <1>0, <3>1 DEF CopyOk, Contents
    <3>3. c.ver <= Len(log') /\ c.ver # Len(log') /\ Shrinks(c, s)
      BY <2>4, <2>7, <3>2, ShrinksTransitive
    <3>4. QED
      BY <2>5, <3>1, <3>3 DEF CopyOk, Shrinks
  <2>12. CopyOk(s)'
    <3>1. s.ver = Len(log') /\ IsInjective(s.fins) /\ (Current' # Absent => Current' = s)
      BY <2>1, <2>4, <2>6
    <3>2. Len(log') \in Nat
      BY <2>4
    <3>3. QED
      BY <2>5, <2>7, <3>1, <3>2 DEF CopyOk, Shrinks, SameBut
  <2>13. Answer(o) = s
    BY <1>2, <2>1 DEF Answer
  <2>14. Fins(Current)' = ToSet(o.fins)
    <3>1. CASE o.deleting /\ o.fins = <<>>
      BY <2>6, <3>1 DEF Fins, ToSet
    <3>2. CASE ~(o.deleting /\ o.fins = <<>>)
      BY <2>1, <2>6, <3>2, ChainAssumption DEF Fins
    <3>3. QED
      BY <3>1, <3>2
  <2>15. QED
    BY <1>0, <2>1, <2>4, <2>9, <2>10, <2>11, <2>12, <2>13, <2>14
<1>3. QED
  BY <1>1, <1>2

-------------------------------------------------------------------------------
(* Steps                                                                   *)

\* What FinalizersRespected says of a step.
Respects == \A f \in Fins(Current) \ Fins(Current)' : IF f = Foreign THEN call' = call ELSE f \in cleaned

LEMMA LogSame ==
    ASSUME ChainInv, UNCHANGED log
    PROVE  /\ Current' = Current /\ Fins(Current)' = Fins(Current) /\ LogOk' /\ HistoryOk'
           /\ log' \in Seq(Entries) /\ Len(log) <= Len(log')
           /\ \A c \in Contents : CopyOk(c) => CopyOk(c)'
<1>1. Current' = Current /\ Latest' = Latest
  BY DEF Current, ObjectAt, Latest
<1>2. LogOk' /\ HistoryOk' /\ \A c \in Contents : CopyOk(c) => CopyOk(c)'
  BY <1>1 DEF ChainInv, LogOk, EntryOk, HistoryOk, CopyOk
<1>3. log' \in Seq(Entries) /\ Len(log) <= Len(log')
  BY DEF ChainInv, Types
<1>4. QED
  BY <1>1, <1>2, <1>3 DEF Fins

\* A step that ends with the return of a handler.
LEMMA ReturnStep ==
    ASSUME ChainInv, call.i <= Len(Routes), NEW c \in Copies, Comes(c), log' \in Seq(Entries), Len(log) <= Len(log'),
           LogOk', HistoryOk', c # Absent => CopyOk(c)', events' \in 0..MaxEvents, seen' = seen, due' = due, told' \in BOOLEAN
    PROVE  ChainInv'
<1>1. call' \in Calls /\ call'.cur = c /\ call'.new = Absent /\ CallOk'
  BY ReturnOk DEF ChainInv
<1>2. Types'
  <2>1. Len(log) \in Nat /\ Len(log') \in Nat /\ Len(log) > 0 /\ seen \in 0..Len(log) /\ due \in BOOLEAN
    BY DEF ChainInv, Types
  <2>2. Len(log') > 0 /\ seen \in 0..Len(log')
    BY <2>1
  <2>3. QED
    BY <1>1, <2>1, <2>2 DEF Types
<1>3. CopiesOk'
  BY <1>1 DEF CopiesOk
<1>4. QED
  BY <1>1, <1>2, <1>3 DEF ChainInv

\* The same, without a request to the server.
LEMMA QuietStep ==
    ASSUME ChainInv, call.i <= Len(Routes), NEW c \in Copies, Comes(c), UNCHANGED <<log, seen, due>>,
           c # Absent => CopyOk(c), events' \in 0..MaxEvents, told' \in BOOLEAN
    PROVE  ChainInv' /\ Respects
<1>1. c # Absent => CopyOk(c)'
  BY LogSame DEF Copies
<1>2. ChainInv'
  BY <1>1, LogSame, ReturnStep
<1>3. Respects
  BY LogSame DEF Respects
<1>4. QED
  BY <1>2, <1>3

LEMMA HeldOk ==
    ASSUME ChainInv
    PROVE  /\ call \in Calls /\ call.cur \in Copies /\ call.new \in Copies /\ call.old \in Copies
           /\ call.cur # Absent => call.cur \in Contents /\ CopyOk(call.cur)
           /\ call.new # Absent => call.new \in Contents /\ CopyOk(call.new)
           /\ events \in 0..MaxEvents /\ told \in BOOLEAN
BY DEF ChainInv, Types, Calls, CopiesOk, Copies

LEMMA EventOk ==
    ASSUME ChainInv, Event
    PROVE  events' \in 0..MaxEvents
BY ChainAssumption DEF ChainInv, Types, Event

LEMMA ForgetStep ==
    ASSUME ChainInv, Forget
    PROVE  ChainInv' /\ Respects
<1>1. PICK c \in Copies : c = call.cur
  BY HeldOk
<1>2. \A f \in BOOLEAN : Return(call.cur, f) => Comes(c)
  BY <1>1, ReturnComes DEF Return, ChainInv
<1>3. Comes(c)
  BY <1>2, Zenon DEF Forget
<1>4. call.i <= Len(Routes) /\ UNCHANGED <<log, events, seen, due>> /\ told' \in BOOLEAN
  BY DEF Forget, Handling
<1>5. QED
  BY <1>1, <1>3, <1>4, HeldOk, QuietStep

LEMMA QuietErrorStep ==
    ASSUME ChainInv, ReportFails \/ NextFails \/ NotMyTurn
    PROVE  ChainInv' /\ Respects
<1>1. PICK c \in Copies : c = call.cur
  BY HeldOk
<1>2. \A f \in BOOLEAN : Return(call.cur, f) => Comes(c)
  BY <1>1, ReturnComes DEF Return, ChainInv
<1>3. Comes(c)
  BY <1>2, Zenon DEF ReportFails, NextFails, NotMyTurn
<1>4. call.i <= Len(Routes) /\ UNCHANGED <<log, seen, due, told>> /\ (Event \/ UNCHANGED events)
  BY DEF ReportFails, NextFails, NotMyTurn, Handling
<1>5. events' \in 0..MaxEvents
  BY <1>4, HeldOk, EventOk
<1>6. QED
  BY <1>1, <1>3, <1>4, <1>5, HeldOk, QuietStep

LEMMA MergedOk ==
    ASSUME Types, LogOk, Current # Absent, NEW o \in Contents
    PROVE  /\ Merged(o) \in Contents /\ Merged(o).fins = o.fins /\ Merged(o).deleting = Current.deleting
           /\ Merged(o).label = o.label
           /\ MergedStatus(o) \in Contents /\ MergedStatus(o).fins = Current.fins
           /\ MergedStatus(o).deleting = Current.deleting
<1>1. Current \in Contents
  BY CurrentOk
<1>2. PICK p \in Contents : p = Current
  BY <1>1
<1>3. /\ [o EXCEPT !.cond = p.cond, !.deleting = p.deleting] \in Contents
      /\ [p EXCEPT !.cond = o.cond] \in Contents
  BY DEF Contents
<1>4. QED
  BY <1>2, <1>3 DEF Merged, MergedStatus, Contents

\* A write that is accepted is made from a copy of the current version.
LEMMA AcceptedOk ==
    ASSUME ChainInv, NEW o \in Contents, CopyOk(o), Accepts(o)
    PROVE  Current # Absent /\ Current \in Contents /\ SameBut(o, Current)
<1>1. Current # Absent /\ o.ver = Current.ver
  BY DEF Accepts
<1>2. QED
  BY <1>1, CurrentOk DEF ChainInv, CopyOk

\* A request ends the handler of a route.
LEMMA RequestStep ==
    ASSUME ChainInv, call.i <= Len(Routes), Current # Absent, NEW o \in Contents, IsInjective(o.fins), Shrinks(Current, o),
           Store(o), NEW c \in Copies, Comes(c), c = Answer(o) \/ (c \in Contents /\ CopyOk(c)),
           UNCHANGED <<events, seen, due, told>>
    PROVE  ChainInv' /\ Fins(Current)' = ToSet(o.fins)
<1>1. Types /\ LogOk /\ HistoryOk
  BY DEF ChainInv
<1>2. CopyOk(c)'
  BY <1>1, StoreOk
<1>3. /\ log' \in Seq(Entries) /\ Len(log) <= Len(log') /\ LogOk' /\ HistoryOk'
      /\ Fins(Current)' = ToSet(o.fins)
  BY <1>1, StoreOk
<1>4. events' \in 0..MaxEvents /\ told' \in BOOLEAN
  BY HeldOk
<1>5. QED
  BY <1>2, <1>3, <1>4, ReturnStep

\* Only the finalizer handlers and those for removed objects see an object that
\* is gone.
LEMMA LiveOk ==
    ASSUME ChainInv, Handling("report") \/ Handling("normalize")
    PROVE  call.cur # Absent /\ call.cur \in Contents /\ CopyOk(call.cur)
<1>1. call.i <= Len(Routes) /\ call.pc = "run" /\ Route.does \in {"report", "normalize"}
  BY DEF Handling
<1>2. call.i \in DOMAIN Routes
  <2>1. PICK l \in Nat : l = Len(Routes) /\ DOMAIN Routes = 1..l
    BY ChainAssumption
  <2>2. call.i \in 1..(l + 1)
    BY <2>1, HeldOk DEF Calls
  <2>3. QED
    BY <1>1, <2>1, <2>2
<1>3. Route.include \in {"live", "finalizing"} /\ Route.id = None
  BY <1>1, <1>2, ChainAssumption DEF Route
<1>4. IgnoreNil(Route, call.cur) /\ IgnoreRemove(Route, call.cur)
  BY <1>1 DEF ChainInv, CallOk, Passes
<1>5. call.cur # Absent
  BY <1>3, <1>4 DEF IgnoreNil, IgnoreRemove
<1>6. QED
  BY <1>5, HeldOk

LEMMA ReportStep ==
    ASSUME ChainInv, Report
    PROVE  ChainInv' /\ Respects
<1>1. Handling("report") /\ UNCHANGED <<log, events, seen, due, cleaned, told>>
  BY DEF Report
<1>2. PICK o \in Contents : o = call.cur /\ CopyOk(o)
  BY <1>1, LiveOk
<1> DEFINE rejected == o.spec \in Route.rejects
           cond == IF call.errored THEN o.cond ELSE IF rejected THEN "False" ELSE "True"
           p == [o EXCEPT !.cond = cond]
           j == From(call.i + 1, o)
           errored == call.errored \/ rejected
<1>3. /\ p \in Contents /\ p.ver = o.ver /\ p.fins = o.fins /\ p.deleting = o.deleting
      /\ p.gen = o.gen /\ p.spec = o.spec /\ p.label = o.label
  BY DEF Contents
<1>4. o # Absent /\ p # Absent
  BY <1>3, ChainAssumption
<1>5. j \in 1..(Len(Routes) + 1) /\ (j <= Len(Routes) => Passes(Routes[j], o))
  <2>1. PICK l \in Nat : l = Len(Routes)
    BY ChainAssumption
  <2>2. call.i \in 1..(l + 1) /\ call.i <= l
    BY <1>1, <2>1, HeldOk DEF Calls, Handling
  <2>3. call.i + 1 \in 1..(Len(Routes) + 1)
    BY <2>1, <2>2
  <2>4. QED
    BY <2>3, FromOk
<1>6. \A r : Passes(r, o) => Passes(r, p)
  BY <1>3, <1>4 DEF Passes, SelectorFilter, IgnoreNil, IgnoreRemove
<1>7. call' = [call EXCEPT !.i = j, !.cur.cond = cond, !.errored = errored]
  BY <1>2 DEF Report
<1>8. errored \in BOOLEAN
  BY HeldOk DEF Calls
<1> HIDE DEF errored, j, cond
<1>9. call' = [call EXCEPT !.i = j, !.cur = p, !.errored = errored]
  BY <1>2, <1>7, HeldOk DEF Calls
<1> HIDE DEF p
<1>10. call' \in Calls
  BY <1>3, <1>5, <1>8, <1>9, HeldOk DEF Calls, Copies
<1>11. call'.pc = "run" /\ call'.i = j /\ call'.cur = p /\ call'.new = call.new
  BY <1>1, <1>9, HeldOk DEF Calls, Handling
<1>12. CopyOk(p)
  BY <1>2, <1>3 DEF CopyOk, Shrinks, SameBut
<1>13. CopiesOk'
  <2>1. PICK q \in Contents : q = p
    BY <1>3
  <2>2. PICK n \in Copies : n = call.new
    BY HeldOk
  <2>3. CopyOk(q) /\ (n # Absent => n \in Contents /\ CopyOk(n))
    BY <1>12, <2>1, <2>2, HeldOk
  <2>4. CopyOk(q)' /\ (n # Absent => CopyOk(n)')
    BY <1>1, <2>3, LogSame
  <2>5. call'.cur = q /\ call'.new = n
    BY <1>11, <2>1, <2>2
  <2>6. QED
    BY <2>4, <2>5 DEF CopiesOk
<1>14. CallOk'
  BY <1>5, <1>6, <1>11 DEF CallOk, Route
<1>15. Types'
  BY <1>1, <1>10 DEF ChainInv, Types
<1>16. LogOk' /\ HistoryOk' /\ Respects
  BY <1>1, LogSame DEF Respects
<1>17. QED
  BY <1>13, <1>14, <1>15, <1>16 DEF ChainInv

LEMMA NormalizeStep ==
    ASSUME ChainInv, Normalize
    PROVE  ChainInv' /\ Respects
<1>1. Handling("normalize") /\ UNCHANGED <<events, seen, due, cleaned, told>> /\ call.i <= Len(Routes)
  BY DEF Normalize, Handling
<1>2. PICK o \in Contents : o = call.cur /\ CopyOk(o)
  BY <1>1, LiveOk
<1>3. events' \in 0..MaxEvents /\ told' \in BOOLEAN /\ o \in Copies
  BY <1>1, HeldOk DEF Copies
<1>4. PICK p \in Contents : p = [o EXCEPT !.spec = Good] /\ p.ver = o.ver /\ p.fins = o.fins /\ p.deleting = o.deleting
  <2> DEFINE q == [o EXCEPT !.spec = Good]
  <2>1. q \in Contents /\ q.ver = o.ver /\ q.fins = o.fins /\ q.deleting = o.deleting
    BY DEF Contents
  <2> HIDE DEF q
  <2>2. QED
    BY <2>1 DEF q
<1>5. CASE UNCHANGED log /\ Return(o, FALSE)
  <2>1. \A f \in BOOLEAN : Return(o, f) => Comes(o)
    BY ReturnComes DEF ChainInv
  <2>2. Comes(o)
    BY <1>5, <2>1, Zenon
  <2>3. QED
    BY <1>1, <1>2, <1>3, <1>5, <2>2, QuietStep
<1>6. CASE Accepts(o) /\ Store(Merged(p)) /\ Return(Answer(Merged(p)), FALSE)
  <2>1. Current # Absent /\ Current \in Contents /\ SameBut(o, Current)
    BY <1>2, <1>6, AcceptedOk
  <2>2. PICK m \in Contents : m = Merged(p) /\ m.fins = o.fins /\ m.deleting = Current.deleting
    <3>1. Types /\ LogOk
      BY DEF ChainInv
    <3>2. Merged(p) \in Contents /\ Merged(p).fins = p.fins /\ Merged(p).deleting = Current.deleting
      BY <2>1, <3>1, MergedOk
    <3>3. QED
      BY <1>4, <3>2
  <2>3. IsInjective(m.fins) /\ Shrinks(Current, m) /\ ToSet(m.fins) = Fins(Current)
    BY <1>2, <2>1, <2>2 DEF CopyOk, SameBut, Shrinks, Fins
  <2>4. Store(m)
    BY <1>6, <2>2 DEF Store
  <2>5. PICK c \in Copies : c = Answer(m)
    BY <2>1, <2>2, StoredOk DEF Answer, Copies, ChainInv
  <2>6. \A f \in BOOLEAN : Return(c, f) => Comes(c)
    BY ReturnComes DEF ChainInv
  <2>7. Return(c, FALSE)
    BY <1>6, <2>2, <2>5 DEF Return, Answer
  <2>8. Comes(c)
    BY <2>6, <2>7, Zenon
  <2>9. ChainInv' /\ Fins(Current)' = ToSet(m.fins)
    BY <1>1, <2>1, <2>3, <2>4, <2>5, <2>8, RequestStep
  <2>10. QED
    BY <2>3, <2>9 DEF Respects
<1>7. CASE ~Accepts(o) /\ UNCHANGED log /\ Return(p, TRUE)
  <2>1. \A f \in BOOLEAN : Return(p, f) => Comes(p)
    BY ReturnComes DEF ChainInv
  <2>2. Comes(p)
    BY <1>7, <2>1, Zenon
  <2>3. CopyOk(p)
    <3>1. Current = Absent \/ o.ver # Len(log)
      BY <1>2, <1>7, CurrentOk DEF Accepts, CopyOk, SameBut, ChainInv
    <3>2. QED
      BY <1>2, <1>4, <3>1 DEF CopyOk, Shrinks
  <2>4. p \in Copies
    BY <1>4 DEF Copies
  <2>5. QED
    BY <1>1, <1>3, <1>7, <2>2, <2>3, <2>4, QuietStep
<1>8. QED
  BY <1>2, <1>4, <1>5, <1>6, <1>7 DEF Normalize

-------------------------------------------------------------------------------
(* The finalizer handlers                                                  *)

LEMMA AppendOk ==
    ASSUME NEW S, NEW s \in Seq(S), NEW x \in S, IsInjective(s), ~Contains(s, x)
    PROVE  Append(s, x) \in Seq(S) /\ IsInjective(Append(s, x)) /\ ToSet(s) \subseteq ToSet(Append(s, x))
<1>1. PICK l \in Nat : l = Len(s) /\ DOMAIN s = 1..l
  OBVIOUS
<1>2. PICK t \in Seq(S) : t = Append(s, x)
  <2>1. Append(s, x) \in Seq(S)
    OBVIOUS
  <2>2. QED
    BY <2>1, Zenon
<1>3. DOMAIN t = 1..(l + 1) /\ t[l + 1] = x /\ \A i \in 1..l : t[i] = s[i]
  BY <1>1, <1>2
<1>4. \A i \in 1..l : s[i] # x
  BY <1>1 DEF Contains
<1>5. \A i \in 1..(l + 1) : i \in 1..l \/ i = l + 1
  OBVIOUS
<1>6. \A i, j \in 1..l : s[i] = s[j] => i = j
  BY <1>1 DEF IsInjective
<1>7. IsInjective(t)
  BY <1>3, <1>4, <1>5, <1>6 DEF IsInjective
<1>8. ToSet(s) \subseteq ToSet(t)
  BY <1>1, <1>3 DEF ToSet
<1>9. QED
  BY <1>2, <1>7, <1>8

LEMMA TailOk ==
    ASSUME NEW S, NEW s \in Seq(S), IsInjective(s), s # <<>>
    PROVE  Tail(s) \in Seq(S) /\ IsInjective(Tail(s)) /\ ToSet(s) \ {s[1]} \subseteq ToSet(Tail(s))
<1>1. PICK l \in Nat : l = Len(s) /\ DOMAIN s = 1..l /\ l > 0
  OBVIOUS
<1>2. PICK t \in Seq(S) : t = Tail(s)
  <2>1. Tail(s) \in Seq(S)
    OBVIOUS
  <2>2. QED
    BY <2>1, Zenon
<1>3. Len(t) = l - 1 /\ l - 1 \in Nat
  BY <1>1, <1>2
<1>4. DOMAIN t = 1..(l - 1)
  BY <1>3
<1>5. \A i \in 1..(l - 1) : t[i] = s[i + 1] /\ i + 1 \in 1..l
  BY <1>1, <1>2
<1>6. \A i, j \in 1..l : s[i] = s[j] => i = j
  BY <1>1 DEF IsInjective
<1>7. IsInjective(t)
  BY <1>4, <1>5, <1>6, SMTT(30) DEF IsInjective
<1>8. ASSUME NEW f \in ToSet(s), f # s[1]
      PROVE  f \in ToSet(t)
  <2>1. PICK i \in 1..l : s[i] = f
    BY <1>1 DEF ToSet
  <2>2. i # 1
    BY <1>8, <2>1
  <2>3. i - 1 \in 1..(l - 1) /\ (i - 1) + 1 = i
    BY <1>1, <2>1, <2>2
  <2>4. t[i - 1] = f
    BY <1>5, <2>1, <2>3
  <2>5. QED
    BY <1>4, <2>3, <2>4 DEF ToSet
<1>9. QED
  BY <1>2, <1>7, <1>8

\* The ids of the routes, and the finalizers that an object can have.
Names == {Foreign} \cup {Routes[i].id : i \in DOMAIN Routes}

LEMMA RouteOk ==
    ASSUME ChainInv, call.i <= Len(Routes)
    PROVE  Route.id \in Names /\ Route.id # Foreign
<1>1. PICK l \in Nat : l = Len(Routes) /\ DOMAIN Routes = 1..l
  BY ChainAssumption
<1>2. call.i \in 1..(l + 1)
  BY <1>1, HeldOk DEF Calls
<1>3. call.i \in DOMAIN Routes
  BY <1>1, <1>2
<1>4. QED
  BY <1>3, ChainAssumption DEF Route, Names

LEMMA TypesNext ==
    ASSUME ChainInv, call' \in Calls, log' \in Seq(Entries), Len(log) <= Len(log'),
           events' \in 0..MaxEvents, seen' = seen, due' \in BOOLEAN, told' \in BOOLEAN
    PROVE  Types'
<1>1. Len(log) \in Nat /\ Len(log') \in Nat /\ Len(log) > 0 /\ seen \in 0..Len(log)
  BY DEF ChainInv, Types
<1>2. Len(log') > 0 /\ seen \in 0..Len(log')
  BY <1>1
<1>3. QED
  BY <1>1, <1>2 DEF Types

LEMMA CopiesNext ==
    ASSUME NEW a \in Copies, NEW b \in Copies, call'.cur = a, call'.new = b,
           a # Absent => CopyOk(a)', b # Absent => CopyOk(b)'
    PROVE  CopiesOk'
BY DEF CopiesOk

LEMMA AddFinalizerStep ==
    ASSUME ChainInv, AddFinalizer
    PROVE  ChainInv' /\ Respects
<1>1. /\ call.i <= Len(Routes) /\ UNCHANGED <<events, seen, due, cleaned, told>>
      /\ call.cur # Absent /\ ~call.cur.deleting
  BY DEF AddFinalizer, Handling
<1>2. PICK o \in Contents : o = call.cur /\ CopyOk(o) /\ ~o.deleting
  BY <1>1, HeldOk
<1>3. events' \in 0..MaxEvents /\ told' \in BOOLEAN /\ o \in Copies
  BY <1>1, HeldOk DEF Copies
<1>4. CASE UNCHANGED log /\ Return(o, FALSE)
  <2>1. \A f \in BOOLEAN : Return(o, f) => Comes(o)
    BY ReturnComes DEF ChainInv
  <2>2. Comes(o)
    BY <1>4, <2>1, Zenon
  <2>3. QED
    BY <1>1, <1>2, <1>3, <1>4, <2>2, QuietStep
<1>5. CASE ~Contains(o.fins, Route.id)
  <2>1. PICK fins \in Seq(Names) : fins = Append(o.fins, Route.id) /\ IsInjective(fins) /\ ToSet(o.fins) \subseteq ToSet(fins)
    <3>1. o.fins \in Seq(Names) /\ IsInjective(o.fins) /\ Route.id \in Names
      BY <1>1, <1>2, RouteOk DEF Contents, Names, CopyOk
    <3>2. QED
      BY <1>5, <3>1, AppendOk
  <2>2. PICK p \in Contents : p = [o EXCEPT !.fins = Append(@, Route.id)] /\ p.ver = o.ver /\ p.fins = fins /\ ~p.deleting
    <3> DEFINE q == [o EXCEPT !.fins = fins]
    <3>1. q \in Contents /\ q.ver = o.ver /\ q.fins = fins /\ ~q.deleting
      BY <1>2 DEF Contents, Names
    <3>2. q = [o EXCEPT !.fins = Append(@, Route.id)]
      BY <2>1
    <3> HIDE DEF q
    <3>3. QED
      BY <3>1, <3>2
  <2>3. p \in Copies
    BY DEF Copies
  <2>4. CASE Accepts(p) /\ Store(Merged(p)) /\ Return(Answer(Merged(p)), FALSE)
    <3>1. Current # Absent /\ Current \in Contents /\ SameBut(o, Current)
      <4>1. Accepts(p) => Current # Absent /\ o.ver = Current.ver
        BY <2>2 DEF Accepts
      <4>2. QED
        BY <1>2, <2>4, <4>1, CurrentOk DEF ChainInv, CopyOk
    <3>2. PICK m \in Contents : m = Merged(p) /\ m.fins = fins /\ m.deleting = Current.deleting
      <4>1. Types /\ LogOk
        BY DEF ChainInv
      <4>2. Merged(p) \in Contents /\ Merged(p).fins = p.fins /\ Merged(p).deleting = Current.deleting
        BY <3>1, <4>1, MergedOk
      <4>3. QED
        BY <2>2, <4>2
    <3>3. IsInjective(m.fins) /\ Shrinks(Current, m) /\ Fins(Current) \subseteq ToSet(m.fins)
      BY <1>2, <2>1, <3>1, <3>2 DEF SameBut, Shrinks, Fins
    <3>4. Store(m)
      BY <2>4, <3>2 DEF Store
    <3>5. PICK c \in Copies : c = Answer(m)
      BY <3>1, <3>2, StoredOk DEF Answer, Copies, ChainInv
    <3>6. \A f \in BOOLEAN : Return(c, f) => Comes(c)
      BY ReturnComes DEF ChainInv
    <3>7. Return(c, FALSE)
      BY <2>4, <3>2, <3>5 DEF Return, Answer
    <3>8. Comes(c)
      BY <3>6, <3>7, Zenon
    <3>9. ChainInv' /\ Fins(Current)' = ToSet(m.fins)
      BY <1>1, <3>1, <3>3, <3>4, <3>5, <3>8, RequestStep
    <3>10. QED
      BY <3>3, <3>9 DEF Respects
  <2>5. CASE ~Accepts(p) /\ UNCHANGED log /\ Return(p, TRUE)
    <3>1. \A f \in BOOLEAN : Return(p, f) => Comes(p)
      BY ReturnComes DEF ChainInv
    <3>2. Comes(p)
      BY <2>5, <3>1, Zenon
    <3>3. Current # Absent => o.ver # Len(log)
      <4>1. SUFFICES ASSUME Current # Absent, o.ver = Len(log) PROVE FALSE
        OBVIOUS
      <4>2. Current.ver = p.ver /\ ~Current.deleting
        BY <1>2, <2>2, <4>1, CurrentOk DEF ChainInv, CopyOk, SameBut
      <4>3. QED
        BY <2>5, <4>1, <4>2 DEF Accepts
    <3>4. CopyOk(p)
      BY <1>2, <2>1, <2>2, <3>3 DEF CopyOk, Shrinks
    <3>5. QED
      BY <1>1, <1>3, <2>3, <2>5, <3>2, <3>4, QuietStep
  <2>6. QED
    BY <1>2, <1>4, <1>5, <2>2, <2>4, <2>5 DEF AddFinalizer
<1>6. QED
  BY <1>2, <1>4, <1>5 DEF AddFinalizer

LEMMA RunNextStep ==
    ASSUME ChainInv, NEW copy \in Contents, CopyOk(copy), NEW delay \in BOOLEAN, RunNext(copy, delay)
    PROVE  ChainInv' /\ Respects
<1>1. /\ Handling("finalize") /\ UNCHANGED <<log, seen, due, told>>
      /\ call.cur # Absent /\ call.cur.deleting /\ First(call.cur)
  BY DEF RunNext
<1>2. call' = [call EXCEPT !.pc = "status", !.new = [copy EXCEPT !.cond = "Cleaning"], !.retry = (call.retry \/ delay)]
  BY DEF RunNext
<1>3. events' \in 0..MaxEvents
  BY HeldOk, EventOk DEF RunNext
<1>4. PICK n \in Contents : n = [copy EXCEPT !.cond = "Cleaning"] /\ CopyOk(n)
  <2> DEFINE q == [copy EXCEPT !.cond = "Cleaning"]
  <2>1. /\ q \in Contents /\ q.ver = copy.ver /\ q.gen = copy.gen /\ q.spec = copy.spec
        /\ q.deleting = copy.deleting /\ q.fins = copy.fins /\ q.label = copy.label
    BY DEF Contents
  <2> HIDE DEF q
  <2>2. CopyOk(q)
    BY <2>1 DEF CopyOk, Shrinks, SameBut
  <2>3. QED
    BY <2>1, <2>2 DEF q
<1>5. PICK retry \in BOOLEAN : retry = (call.retry \/ delay)
  OBVIOUS
<1>6. call' = [call EXCEPT !.pc = "status", !.new = n, !.retry = retry] /\ call \in Calls
  BY <1>2, <1>4, <1>5, HeldOk
<1>7. call' \in Calls
  BY <1>6 DEF Calls, Copies
<1>8. call'.pc = "status" /\ call'.i = call.i /\ call'.cur = call.cur /\ call'.new = n /\ call'.retry = retry
  BY <1>6 DEF Calls
<1>9. cleaned' = IF delay THEN cleaned ELSE cleaned \cup {Route.id}
  BY DEF RunNext
<1>10. Types'
  <2>1. due' \in BOOLEAN /\ told' \in BOOLEAN /\ seen' = seen
    BY <1>1 DEF ChainInv, Types
  <2>2. QED
    BY <1>1, <1>3, <1>7, <2>1, LogSame, TypesNext
<1>11. CopiesOk'
  <2>1. PICK a \in Copies : a = call.cur
    BY HeldOk
  <2>2. a # Absent /\ a \in Contents /\ CopyOk(a)
    BY <1>1, <2>1, HeldOk
  <2>3. CopyOk(a)' /\ CopyOk(n)' /\ n \in Copies
    BY <1>1, <1>4, <2>2, LogSame DEF Copies
  <2>4. QED
    BY <1>8, <2>1, <2>3, CopiesNext
<1>12. CallOk'
  <2>1. Route' = Route
    BY <1>8 DEF Route
  <2>2. n # Absent
    BY <1>4, ChainAssumption
  <2>3. Route.id \in cleaned' \/ retry
    BY <1>5, <1>9
  <2>4. First(call.cur)'
    BY <1>1, <1>8, <2>1 DEF First
  <2>5. QED
    BY <1>1, <1>8, <2>1, <2>2, <2>3, <2>4 DEF CallOk, Handling
<1>13. LogOk' /\ HistoryOk' /\ Respects
  BY <1>1, LogSame DEF Respects
<1>14. QED
  BY <1>10, <1>11, <1>12, <1>13 DEF ChainInv

\* The status is saved from a copy of the current version.
LEMMA StatusStored ==
    ASSUME ChainInv, NEW c \in Contents, CopyOk(c), Accepts(c)
    PROVE  /\ Current # Absent /\ MergedStatus(c) \in Contents
           /\ IsInjective(MergedStatus(c).fins) /\ Shrinks(Current, MergedStatus(c))
           /\ ToSet(MergedStatus(c).fins) = Fins(Current)
<1>1. Types /\ LogOk
  BY DEF ChainInv
<1>2. Current # Absent /\ Current \in Contents /\ IsInjective(Current.fins)
  BY <1>1, AcceptedOk, CurrentOk
<1>3. /\ MergedStatus(c) \in Contents /\ MergedStatus(c).fins = Current.fins
      /\ MergedStatus(c).deleting = Current.deleting
  BY <1>1, <1>2, MergedOk
<1>4. QED
  BY <1>2, <1>3 DEF Shrinks, Fins

\* After the status has been saved the finalizer is removed, or not yet.
Proceeds(new) ==
    call' = IF call.retry \/ ~First(new) THEN [call EXCEPT !.pc = "run", !.i = From(call.i + 1, call.cur), !.new = Absent]
            ELSE [call EXCEPT !.pc = "remove", !.new = new]

LEMMA ProceedsOk ==
    ASSUME ChainInv, call.pc = "status", UNCHANGED cleaned, NEW new \in Contents, Proceeds(new), ~(call.retry \/ ~First(new))
    PROVE  /\ call' \in Calls /\ call'.cur = call.cur /\ call'.new = new /\ CallOk'
<1>1. call' = [call EXCEPT !.pc = "remove", !.new = new] /\ call \in Calls
  BY HeldOk DEF Proceeds
<1>2. call' \in Calls
  BY <1>1 DEF Calls, Copies
<1>3. call'.pc = "remove" /\ call'.i = call.i /\ call'.cur = call.cur /\ call'.new = new
  BY <1>1 DEF Calls
<1>4. Route' = Route /\ new # Absent
  BY <1>3, ChainAssumption DEF Route
<1>5. /\ call.i <= Len(Routes) /\ Route.does = "finalize"
      /\ call.cur # Absent /\ call.cur.deleting /\ First(call.cur) /\ Route.id \in cleaned
  BY DEF ChainInv, CallOk
<1>6. First(call.cur)'
  BY <1>3, <1>4, <1>5 DEF First
<1>7. QED
  BY <1>2, <1>3, <1>4, <1>5, <1>6 DEF CallOk

LEMMA ProceedsComes ==
    ASSUME ChainInv, NEW new, Proceeds(new), call.retry \/ ~First(new), NEW c, c = call.cur
    PROVE  Comes(c)
<1>1. PICK fails \in BOOLEAN : fails = call.failed
  BY HeldOk DEF Calls
<1>2. call' = [call EXCEPT !.pc = "run", !.i = From(call.i + 1, c), !.new = Absent]
  BY DEF Proceeds
<1> DEFINE j == From(call.i + 1, c)
<1> HIDE DEF j
<1>3. call' = [call EXCEPT !.pc = "run", !.i = j, !.new = Absent]
  BY <1>2 DEF j
<1>4. call' = [call EXCEPT !.pc = "run", !.i = j, !.cur = c, !.new = Absent, !.failed = fails]
  BY <1>1, <1>3, HeldOk DEF Calls
<1>5. QED
  BY <1>4 DEF Comes, j

LEMMA NextStatusStep ==
    ASSUME ChainInv, NextStatus
    PROVE  ChainInv' /\ Respects
<1>1. call.pc = "status" /\ UNCHANGED <<events, seen, due, cleaned, told>>
  BY DEF NextStatus
<1>2. call.i <= Len(Routes) /\ call.cur # Absent /\ call.new # Absent
  BY <1>1 DEF ChainInv, CallOk
<1>3. PICK o \in Contents : o = call.cur /\ CopyOk(o)
  BY <1>2, HeldOk
<1>4. PICK n \in Contents : n = call.new /\ CopyOk(n)
  BY <1>2, HeldOk
<1>5. /\ events' \in 0..MaxEvents /\ told' \in BOOLEAN /\ due' \in BOOLEAN /\ o \in Copies /\ n \in Copies
      /\ o # Absent
  BY <1>1, <1>2, <1>3, HeldOk DEF Copies, ChainInv, Types
<1>6. \/ UNCHANGED log /\ Proceeds(n)
      \/ Accepts(n) /\ Store(MergedStatus(n)) /\ Proceeds(Answer(MergedStatus(n)))
      \/ UNCHANGED log /\ Return(o, TRUE)
  BY <1>3, <1>4 DEF NextStatus, Proceeds
<1>7. CASE UNCHANGED log /\ Proceeds(n)
  <2>1. CASE call.retry \/ ~First(n)
    <3>1. Comes(o)
      BY <1>3, <1>7, <2>1, ProceedsComes
    <3>2. QED
      BY <1>1, <1>2, <1>3, <1>5, <1>7, <3>1, QuietStep
  <2>2. CASE ~(call.retry \/ ~First(n))
    <3>1. call' \in Calls /\ call'.cur = o /\ call'.new = n /\ CallOk'
      BY <1>1, <1>3, <1>7, <2>2, ProceedsOk
    <3>2. CopyOk(o)' /\ CopyOk(n)'
      BY <1>3, <1>4, <1>7, LogSame
    <3>3. CopiesOk'
      BY <1>5, <3>1, <3>2, CopiesNext
    <3>4. Types'
      BY <1>1, <1>5, <1>7, <3>1, LogSame, TypesNext
    <3>5. LogOk' /\ HistoryOk' /\ Respects
      BY <1>7, LogSame DEF Respects
    <3>6. QED
      BY <3>1, <3>3, <3>4, <3>5 DEF ChainInv
  <2>3. QED
    BY <2>1, <2>2
<1>8. CASE Accepts(n) /\ Store(MergedStatus(n)) /\ Proceeds(Answer(MergedStatus(n)))
  <2>1. PICK m \in Contents : /\ m = MergedStatus(n) /\ Current # Absent /\ IsInjective(m.fins) /\ Shrinks(Current, m)
                              /\ ToSet(m.fins) = Fins(Current)
    BY <1>4, <1>8, StatusStored
  <2>2. Types /\ LogOk /\ HistoryOk
    BY DEF ChainInv
  <2>3. Store(m)
    BY <1>8, <2>1 DEF Store
  <2>4. PICK a \in Contents : a = Answer(m)
    BY <2>1, <2>2, StoredOk DEF Answer
  <2>5. Proceeds(a)
    BY <1>8, <2>1, <2>4 DEF Answer, Proceeds, First
  <2>6. CASE call.retry \/ ~First(a)
    <3>1. Comes(o)
      BY <1>3, <2>5, <2>6, ProceedsComes
    <3>2. ChainInv' /\ Fins(Current)' = ToSet(m.fins)
      BY <1>1, <1>2, <1>3, <1>5, <2>1, <2>3, <3>1, RequestStep
    <3>3. QED
      BY <2>1, <3>2 DEF Respects
  <2>7. CASE ~(call.retry \/ ~First(a))
    <3>1. call' \in Calls /\ call'.cur = o /\ call'.new = a /\ CallOk'
      BY <1>1, <1>3, <2>5, <2>7, ProceedsOk
    <3>2. /\ log' \in Seq(Entries) /\ Len(log) <= Len(log') /\ LogOk' /\ HistoryOk'
          /\ CopyOk(o)' /\ CopyOk(a)' /\ Fins(Current)' = ToSet(m.fins)
      BY <1>3, <2>1, <2>2, <2>3, <2>4, StoreOk
    <3>3. CopiesOk'
      BY <1>5, <3>1, <3>2, CopiesNext DEF Copies
    <3>4. Types'
      BY <1>1, <1>5, <3>1, <3>2, TypesNext
    <3>5. QED
      BY <2>1, <3>1, <3>2, <3>3, <3>4 DEF ChainInv, Respects
  <2>8. QED
    BY <2>6, <2>7
<1>9. CASE UNCHANGED log /\ Return(o, TRUE)
  <2>1. \A f \in BOOLEAN : Return(o, f) => Comes(o)
    BY ReturnComes DEF ChainInv
  <2>2. Comes(o)
    BY <1>9, <2>1, Zenon
  <2>3. QED
    BY <1>1, <1>2, <1>3, <1>5, <1>9, <2>2, QuietStep
<1>10. QED
  BY <1>6, <1>7, <1>8, <1>9

LEMMA RemoveFinalizerStep ==
    ASSUME ChainInv, RemoveFinalizer
    PROVE  ChainInv' /\ Respects
<1>1. call.pc = "remove" /\ UNCHANGED <<events, seen, due, cleaned, told>>
  BY DEF RemoveFinalizer
<1>2. /\ call.i <= Len(Routes) /\ call.cur # Absent /\ call.new # Absent /\ call.cur.deleting /\ First(call.cur)
      /\ Route.id \in cleaned
  BY <1>1 DEF ChainInv, CallOk
<1>3. PICK o \in Contents : o = call.cur /\ CopyOk(o)
  BY <1>2, HeldOk
<1>4. PICK n \in Contents : n = call.new /\ CopyOk(n)
  BY <1>2, HeldOk
<1>5. events' \in 0..MaxEvents /\ told' \in BOOLEAN /\ o \in Copies
  BY <1>1, <1>3, HeldOk DEF Copies
<1>6. PICK fins \in Seq(Names) : fins = Tail(o.fins) /\ IsInjective(fins) /\ ToSet(o.fins) \ {Route.id} \subseteq ToSet(fins)
  <2>1. o.fins \in Seq(Names) /\ IsInjective(o.fins) /\ o.fins # <<>> /\ o.fins[1] = Route.id
    BY <1>2, <1>3 DEF Contents, Names, CopyOk, First
  <2>2. QED
    BY <2>1, TailOk
<1>7. PICK p \in Contents : p = [n EXCEPT !.fins = Tail(o.fins)] /\ p.ver = n.ver /\ p.fins = fins
  <2> DEFINE q == [n EXCEPT !.fins = fins]
  <2>1. q \in Contents /\ q.ver = n.ver /\ q.fins = fins
    BY <1>4 DEF Contents, Names
  <2>2. q = [n EXCEPT !.fins = Tail(o.fins)]
    BY <1>6
  <2> HIDE DEF q
  <2>3. QED
    BY <2>1, <2>2
<1>8. \/ Accepts(p) /\ Store(Merged(p)) /\ Return(o, FALSE)
      \/ UNCHANGED log /\ Return(o, TRUE)
  BY <1>3, <1>4, <1>7 DEF RemoveFinalizer
<1>9. \A f \in BOOLEAN : Return(o, f) => Comes(o)
  BY ReturnComes DEF ChainInv
<1>10. Comes(o)
  BY <1>8, <1>9, Zenon
<1>11. CASE Accepts(p) /\ Store(Merged(p)) /\ Return(o, FALSE)
  <2>1. Types /\ LogOk
    BY DEF ChainInv
  <2>2. Current # Absent /\ Current \in Contents /\ Current = Latest
    BY <1>11, <2>1, CurrentOk DEF Accepts
  <2>3. Current.deleting /\ ToSet(Current.fins) \subseteq ToSet(o.fins)
    BY <1>2, <1>3, <2>2 DEF CopyOk, Shrinks
  <2>4. ToSet(fins) \subseteq ToSet(Current.fins)
    BY <1>7, <1>11, <2>3 DEF Accepts
  <2>5. PICK m \in Contents : m = Merged(p) /\ m.fins = fins /\ m.deleting = Current.deleting
    <3>1. Merged(p) \in Contents /\ Merged(p).fins = p.fins /\ Merged(p).deleting = Current.deleting
      BY <2>1, <2>2, MergedOk
    <3>2. QED
      BY <1>7, <3>1
  <2>6. IsInjective(m.fins) /\ Shrinks(Current, m)
    BY <1>6, <2>4, <2>5 DEF Shrinks
  <2>7. Store(m)
    BY <1>11, <2>5 DEF Store
  <2>8. ChainInv' /\ Fins(Current)' = ToSet(m.fins)
    BY <1>1, <1>2, <1>3, <1>5, <1>10, <2>2, <2>6, <2>7, RequestStep
  <2>9. \A f \in Fins(Current) \ Fins(Current)' : f = Route.id
    BY <1>6, <2>2, <2>3, <2>5, <2>8 DEF Fins
  <2>10. Route.id # Foreign
    BY <1>2, RouteOk
  <2>11. QED
    BY <1>2, <2>8, <2>9, <2>10 DEF Respects
<1>12. CASE UNCHANGED log /\ Return(o, TRUE)
  BY <1>1, <1>2, <1>3, <1>5, <1>10, <1>12, QuietStep
<1>13. QED
  BY <1>8, <1>11, <1>12

-------------------------------------------------------------------------------
(* The worker begins and finishes, and everybody else                      *)

LEMMA BeginStep ==
    ASSUME ChainInv, Begin
    PROVE  ChainInv' /\ Respects
<1>1. UNCHANGED <<log, events, seen, cleaned, told>> /\ due' \in BOOLEAN
  BY DEF Begin
<1>2. Types /\ LogOk /\ HistoryOk
  BY DEF ChainInv
<1>3. PICK l \in Nat : l = Len(log) /\ seen \in 0..l
  BY <1>2, CurrentOk DEF Types
<1>4. PICK o \in Copies : o = ObjectAt(seen) /\ (o # Absent => seen \in 1..Len(log) /\ o = log[seen].obj)
  BY <1>2, <1>3, CurrentOk
<1>5. o # Absent => CopyOk(o)
  <2>1. SUFFICES ASSUME o # Absent PROVE CopyOk(o)
    OBVIOUS
  <2>2. seen \in 1..l /\ EntryOk(seen) /\ Shrinks(o, Latest)
    BY <1>2, <1>3, <1>4, <2>1 DEF LogOk, HistoryOk
  <2>3. o.ver = seen /\ IsInjective(o.fins)
    BY <1>4, <2>1, <2>2 DEF EntryOk
  <2>4. seen = l /\ Current # Absent => SameBut(o, Current)
    BY <1>3, <1>4 DEF Current, SameBut
  <2>5. QED
    BY <1>3, <2>2, <2>3, <2>4 DEF CopyOk
<1> DEFINE j == From(1, o)
<1>6. j \in 1..(Len(Routes) + 1) /\ (j <= Len(Routes) => Passes(Routes[j], o))
  <2>1. PICK k \in Nat : k = Len(Routes)
    BY ChainAssumption
  <2>2. 1 \in 1..(Len(Routes) + 1)
    BY <2>1
  <2>3. QED
    BY <2>2, FromOk
<1>7. call' = [IdleCall EXCEPT !.pc = "run", !.i = j, !.cur = o, !.old = o]
  BY <1>4 DEF Begin
<1> HIDE DEF j
<1>8. call' = [pc |-> "run", i |-> j, cur |-> o, old |-> o, new |-> Absent, failed |-> FALSE, retry |-> FALSE, errored |-> FALSE]
  BY <1>7 DEF IdleCall
<1>9. call' \in Calls /\ call'.pc = "run" /\ call'.i = j /\ call'.cur = o /\ call'.new = Absent
  BY <1>6, <1>8 DEF Calls, Copies
<1>10. CallOk'
  BY <1>6, <1>9 DEF CallOk, Route
<1>11. CopiesOk'
  <2>1. o # Absent => CopyOk(o)'
    BY <1>1, <1>5, LogSame DEF Copies
  <2>2. Absent \in Copies
    BY DEF Copies
  <2>3. QED
    BY <1>9, <2>1, <2>2, CopiesNext
<1>12. Types'
  BY <1>1, <1>9, HeldOk, LogSame, TypesNext
<1>13. QED
  BY <1>1, <1>10, <1>11, <1>12, LogSame DEF ChainInv, Respects

\* handle returns, and its copies are gone.
LEMMA FinishStep ==
    ASSUME ChainInv, call' = IdleCall, due' \in BOOLEAN, log' \in Seq(Entries), Len(log) <= Len(log'),
           LogOk', HistoryOk', UNCHANGED <<events, seen, told>>
    PROVE  ChainInv'
<1>1. PICK l \in Nat : l = Len(Routes)
  BY ChainAssumption
<1>2. 1 \in 1..(Len(Routes) + 1)
  BY <1>1
<1>3. /\ call' \in Calls /\ call'.pc = "idle" /\ call'.cur = Absent /\ call'.new = Absent
  BY <1>2 DEF IdleCall, Calls, Copies
<1>4. CallOk' /\ CopiesOk'
  BY <1>3 DEF CallOk, CopiesOk
<1>5. Types'
  BY <1>3, HeldOk, TypesNext
<1>6. QED
  BY <1>4, <1>5 DEF ChainInv

LEMMA SaveStep ==
    ASSUME ChainInv, Save
    PROVE  ChainInv' /\ Respects
<1>1. UNCHANGED <<events, seen, cleaned, told>>
  BY DEF Save
<1>2. \A f \in BOOLEAN : Finish(f) => call' = IdleCall /\ due' \in BOOLEAN
  BY DEF Finish, ChainInv, Types, Calls
<1>3. \/ UNCHANGED log /\ \E f \in BOOLEAN : Finish(f)
      \/ Unsaved /\ Accepts(call.cur) /\ Store(MergedStatus(call.cur)) /\ \E f \in BOOLEAN : Finish(f)
  BY Zenon DEF Save
<1>4. call' = IdleCall /\ due' \in BOOLEAN
  BY <1>2, <1>3
<1>5. CASE UNCHANGED log
  <2>1. ChainInv'
    BY <1>1, <1>4, <1>5, LogSame, FinishStep
  <2>2. QED
    BY <1>5, <2>1, LogSame DEF Respects
<1>6. CASE Unsaved /\ Accepts(call.cur) /\ Store(MergedStatus(call.cur))
  <2>1. PICK c \in Contents : c = call.cur /\ CopyOk(c)
    BY <1>6, HeldOk DEF Unsaved
  <2>2. PICK m \in Contents : /\ m = MergedStatus(c) /\ Current # Absent /\ IsInjective(m.fins) /\ Shrinks(Current, m)
                              /\ ToSet(m.fins) = Fins(Current)
    BY <1>6, <2>1, StatusStored
  <2>3. Store(m)
    BY <1>6, <2>1, <2>2 DEF Store
  <2>4. Types /\ LogOk /\ HistoryOk
    BY DEF ChainInv
  <2>5. /\ log' \in Seq(Entries) /\ Len(log) <= Len(log') /\ LogOk' /\ HistoryOk'
        /\ Fins(Current)' = ToSet(m.fins)
    BY <2>2, <2>3, <2>4, StoreOk
  <2>6. ChainInv'
    BY <1>1, <1>4, <2>5, FinishStep
  <2>7. QED
    BY <2>2, <2>5, <2>6 DEF Respects
<1>7. QED
  BY <1>3, <1>5, <1>6

LEMMA InformStep ==
    ASSUME ChainInv, Inform
    PROVE  ChainInv' /\ Respects
<1>1. UNCHANGED <<log, events, call, cleaned, told>> /\ seen' = seen + 1 /\ due' = TRUE /\ seen < Len(log)
  BY DEF Inform
<1>2. PICK l \in Nat : l = Len(log) /\ seen \in 0..l
  BY CurrentOk DEF Types, ChainInv
<1>3. seen' \in 0..Len(log)
  BY <1>1, <1>2
<1>4. Types'
  BY <1>1, <1>3 DEF ChainInv, Types
<1>5. PICK a \in Copies, b \in Copies : a = call.cur /\ b = call.new
  BY HeldOk
<1>6. (a # Absent => CopyOk(a)') /\ (b # Absent => CopyOk(b)')
  BY <1>1, <1>5, HeldOk, LogSame
<1>7. CopiesOk'
  BY <1>1, <1>5, <1>6, CopiesNext
<1>8. CallOk'
  BY <1>1 DEF ChainInv, CallOk, Route, First
<1>9. QED
  BY <1>1, <1>4, <1>7, <1>8, LogSame DEF ChainInv, Respects

\* Somebody else writes content o.
LEMMA EditStep ==
    ASSUME ChainInv, Current # Absent, NEW o \in Contents, IsInjective(o.fins), Shrinks(Current, o), Edit(o),
           events' \in 0..MaxEvents, \A f \in Fins(Current) \ ToSet(o.fins) : f = Foreign
    PROVE  ChainInv' /\ Respects
<1>1. Store(o) /\ UNCHANGED <<seen, due, call, cleaned, told>>
  BY DEF Edit, local
<1>2. Types /\ LogOk /\ HistoryOk
  BY DEF ChainInv
<1>3. /\ log' \in Seq(Entries) /\ Len(log) <= Len(log') /\ LogOk' /\ HistoryOk'
      /\ \A c \in Contents : CopyOk(c) => CopyOk(c)'
      /\ Fins(Current)' = ToSet(o.fins)
  BY <1>1, <1>2, StoreOk
<1>4. PICK a \in Copies, b \in Copies : a = call.cur /\ b = call.new
  BY HeldOk
<1>5. (a # Absent => CopyOk(a)') /\ (b # Absent => CopyOk(b)')
  BY <1>3, <1>4, HeldOk
<1>6. CopiesOk'
  BY <1>1, <1>4, <1>5, CopiesNext
<1>7. CallOk'
  BY <1>1 DEF ChainInv, CallOk, Route, First
<1>8. Types'
  <2>1. call' \in Calls /\ due' \in BOOLEAN /\ told' \in BOOLEAN
    BY <1>1, <1>2 DEF Types
  <2>2. QED
    BY <1>1, <1>3, <2>1, TypesNext
<1>9. QED
  BY <1>1, <1>3, <1>6, <1>7, <1>8 DEF ChainInv, Respects

LEMMA Concatenation ==
    ASSUME NEW S, NEW a \in Seq(S), NEW b \in Seq(S)
    PROVE  /\ a \o b \in Seq(S) /\ Len(a \o b) = Len(a) + Len(b)
           /\ \A k \in 1..Len(a) : (a \o b)[k] = a[k]
           /\ \A k \in 1..(Len(a) + Len(b)) : k > Len(a) => (a \o b)[k] = b[k - Len(a)]
<1>1. a \o b \in Seq(S) /\ Len(a \o b) = Len(a) + Len(b)
  OBVIOUS
<1>2. \A k \in 1..Len(a) : (a \o b)[k] = a[k]
  OBVIOUS
<1>3. \A k \in 1..(Len(a) + Len(b)) : k > Len(a) => (a \o b)[k] = b[k - Len(a)]
  OBVIOUS
<1>4. QED
  BY <1>1, <1>2, <1>3

LEMMA RemoveAtOk ==
    ASSUME NEW S, NEW s \in Seq(S), IsInjective(s), NEW i \in DOMAIN s
    PROVE  /\ RemoveAt(s, i) \in Seq(S) /\ IsInjective(RemoveAt(s, i))
           /\ ToSet(RemoveAt(s, i)) \subseteq ToSet(s) /\ ToSet(s) \ {s[i]} \subseteq ToSet(RemoveAt(s, i))
<1>1. PICK l \in Nat : l = Len(s) /\ DOMAIN s = 1..l
  OBVIOUS
<1>2. i \in 1..l
  BY <1>1
<1>3. PICK a \in Seq(S) : a = SubSeq(s, 1, i - 1) /\ Len(a) = i - 1 /\ \A k \in 1..(i - 1) : a[k] = s[k]
  <2>1. SubSeq(s, 1, i - 1) \in Seq(S)
    BY <1>1, <1>2
  <2>2. Len(SubSeq(s, 1, i - 1)) = i - 1
    BY <1>1, <1>2
  <2>3. \A k \in 1..(i - 1) : SubSeq(s, 1, i - 1)[k] = s[k]
    BY <1>1, <1>2
  <2>4. QED
    BY <2>1, <2>2, <2>3, Zenon
<1>4. PICK b \in Seq(S) : b = SubSeq(s, i + 1, l) /\ Len(b) = l - i /\ \A k \in 1..(l - i) : b[k] = s[i + k]
  <2>1. SubSeq(s, i + 1, l) \in Seq(S)
    BY <1>1, <1>2
  <2>2. Len(SubSeq(s, i + 1, l)) = l - i
    BY <1>1, <1>2
  <2>3. \A k \in 1..(l - i) : SubSeq(s, i + 1, l)[k] = s[i + k]
    BY <1>1, <1>2
  <2>4. QED
    BY <2>1, <2>2, <2>3, Zenon
<1>5. PICK r \in Seq(S) : r = RemoveAt(s, i) /\ r = a \o b
  <2>1. a \o b \in Seq(S)
    OBVIOUS
  <2>2. RemoveAt(s, i) = a \o b
    BY <1>1, <1>3, <1>4 DEF RemoveAt
  <2>3. QED
    BY <2>1, <2>2, Zenon
<1>6. Len(r) = l - 1 /\ DOMAIN r = 1..(l - 1)
  <2>1. Len(r) = l - 1
    BY <1>2, <1>3, <1>4, <1>5, Concatenation
  <2>2. QED
    BY <2>1
<1>7. \A k \in 1..(l - 1) : IF k < i THEN r[k] = s[k] ELSE r[k] = s[k + 1]
  <2>1. SUFFICES ASSUME NEW k \in 1..(l - 1) PROVE IF k < i THEN r[k] = s[k] ELSE r[k] = s[k + 1]
    OBVIOUS
  <2>2. CASE k < i
    <3>1. k \in 1..(i - 1) /\ r[k] = a[k]
      <4>1. k \in 1..(i - 1)
        BY <1>2, <2>2
      <4>2. QED
        BY <4>1, <1>3, <1>5, Concatenation
    <3>2. QED
      BY <1>3, <2>2, <3>1
  <2>3. CASE ~(k < i)
    <3>1. k - (i - 1) \in 1..(l - i) /\ i + (k - (i - 1)) = k + 1
      BY <1>2, <2>3
    <3>2. r[k] = b[k - (i - 1)]
      <4>1. k \in 1..(Len(a) + Len(b)) /\ k > Len(a)
        <5>1. Len(a) = i - 1 /\ Len(b) = l - i
          BY <1>3, <1>4
        <5>2. k \in 1..((i - 1) + (l - i)) /\ k > i - 1
          BY <1>2, <2>3
        <5>3. QED
          BY <5>1, <5>2
      <4>2. (a \o b)[k] = b[k - Len(a)]
        BY <4>1, Concatenation
      <4>3. QED
        BY <1>3, <1>5, <4>2
    <3>3. QED
      BY <1>4, <2>3, <3>1, <3>2
  <2>4. QED
    BY <2>2, <2>3
<1>8. \A j, k \in 1..l : s[j] = s[k] => j = k
  BY <1>1 DEF IsInjective
<1>9. IsInjective(r)
  <2>1. SUFFICES ASSUME NEW j \in 1..(l - 1), NEW k \in 1..(l - 1), r[j] = r[k] PROVE j = k
    BY <1>6 DEF IsInjective
  <2>2. j \in 1..l /\ k \in 1..l /\ j + 1 \in 1..l /\ k + 1 \in 1..l
    BY <1>2
  <2>3. QED
    BY <1>2, <1>7, <1>8, <2>1, <2>2
<1>10. ToSet(r) \subseteq ToSet(s)
  <2>1. SUFFICES ASSUME NEW k \in 1..(l - 1) PROVE r[k] \in ToSet(s)
    BY <1>6 DEF ToSet
  <2>2. k \in 1..l /\ k + 1 \in 1..l
    BY <1>2
  <2>3. QED
    BY <1>1, <1>7, <2>2 DEF ToSet
<1>11. ToSet(s) \ {s[i]} \subseteq ToSet(r)
  <2>1. SUFFICES ASSUME NEW k \in 1..l, s[k] # s[i] PROVE s[k] \in ToSet(r)
    BY <1>1 DEF ToSet
  <2>2. k # i
    BY <2>1
  <2>3. CASE k < i
    <3>1. k \in 1..(l - 1) /\ r[k] = s[k]
      BY <1>2, <1>7, <2>3
    <3>2. QED
      BY <1>6, <3>1 DEF ToSet
  <2>4. CASE k > i
    <3>1. k - 1 \in 1..(l - 1) /\ ~(k - 1 < i) /\ (k - 1) + 1 = k
      BY <1>2, <2>4
    <3>2. r[k - 1] = s[k]
      BY <1>7, <3>1
    <3>3. QED
      BY <1>6, <3>1, <3>2 DEF ToSet
  <2>5. QED
    BY <1>2, <2>2, <2>3, <2>4
<1>12. QED
  BY <1>5, <1>9, <1>10, <1>11

LEMMA OthersStep ==
    ASSUME ChainInv, Others
    PROVE  ChainInv' /\ Respects
<1>1. /\ Current # Absent /\ events' \in 0..MaxEvents
  <2>1. Current # Absent /\ (Event \/ UNCHANGED events)
    BY DEF Others, UserLabel, UserDelete, RemoveForeign, UserSpec
  <2>2. QED
    BY <2>1, EventOk, HeldOk
<1>2. PICK c \in Contents : c = Current /\ IsInjective(c.fins)
  BY <1>1, CurrentOk DEF ChainInv
<1>3. Fins(Current) = ToSet(c.fins)
  BY <1>1, <1>2 DEF Fins
<1>4. ASSUME NEW o \in Contents, o.fins = c.fins, c.deleting => o.deleting, Edit(o)
      PROVE  ChainInv' /\ Respects
  <2>1. IsInjective(o.fins) /\ Shrinks(Current, o) /\ \A f \in Fins(Current) \ ToSet(o.fins) : f = Foreign
    BY <1>2, <1>3, <1>4 DEF Shrinks
  <2>2. QED
    BY <1>1, <1>4, <2>1, EditStep
<1>5. CASE UserLabel
  <2>1. PICK label \in BOOLEAN : label = ~c.label
    BY <1>2 DEF Contents
  <2>2. [c EXCEPT !.label = label] = [Current EXCEPT !.label = ~@]
    BY <1>2, <2>1 DEF Contents
  <2> DEFINE o == [c EXCEPT !.label = label]
  <2>3. o \in Contents /\ o.fins = c.fins /\ o.deleting = c.deleting
    BY DEF Contents
  <2>4. Edit(o)
    BY <1>5, <2>2 DEF UserLabel
  <2> HIDE DEF o
  <2>5. QED
    BY <1>4, <2>3, <2>4
<1>6. CASE UserDelete
  <2> DEFINE o == [c EXCEPT !.deleting = TRUE]
  <2>1. o \in Contents /\ o.fins = c.fins /\ o.deleting
    BY DEF Contents
  <2>2. Edit(o)
    BY <1>2, <1>6 DEF UserDelete
  <2> HIDE DEF o
  <2>3. QED
    BY <1>4, <2>1, <2>2
<1>7. CASE \E spec \in Specs : UserSpec(spec)
  <2>1. PICK spec \in Specs : UserSpec(spec)
    BY <1>7
  <2> DEFINE o == [c EXCEPT !.spec = spec]
  <2>2. o \in Contents /\ o.fins = c.fins /\ o.deleting = c.deleting
    BY DEF Contents
  <2>3. Edit(o)
    BY <1>2, <2>1 DEF UserSpec
  <2> HIDE DEF o
  <2>4. QED
    BY <1>4, <2>2, <2>3
<1>8. CASE RemoveForeign
  <2>1. PICK i \in DOMAIN c.fins : c.fins[i] = Foreign /\ Edit([c EXCEPT !.fins = RemoveAt(@, i)])
    BY <1>2, <1>8 DEF RemoveForeign
  <2>2. c.fins \in Seq(Names)
    BY DEF Contents, Names
  <2>3. PICK fins \in Seq(Names) : /\ fins = RemoveAt(c.fins, i) /\ IsInjective(fins)
                                   /\ ToSet(fins) \subseteq ToSet(c.fins) /\ ToSet(c.fins) \ {c.fins[i]} \subseteq ToSet(fins)
    BY <1>2, <2>2, RemoveAtOk
  <2> DEFINE o == [c EXCEPT !.fins = fins]
  <2>4. o \in Contents /\ o.fins = fins /\ o.deleting = c.deleting
    BY DEF Contents, Names
  <2>5. Edit(o)
    BY <2>1, <2>3
  <2> HIDE DEF o
  <2>6. IsInjective(o.fins) /\ Shrinks(Current, o) /\ \A f \in Fins(Current) \ ToSet(o.fins) : f = Foreign
    BY <1>2, <1>3, <2>1, <2>3, <2>4 DEF Shrinks
  <2>7. QED
    BY <1>1, <2>4, <2>5, <2>6, EditStep
<1>9. QED
  BY <1>5, <1>6, <1>7, <1>8 DEF Others

LEMMA ChainInit ==
    ASSUME Init
    PROVE  ChainInv
<1> DEFINE o == [ver |-> 1, gen |-> 1, spec |-> Raw, cond |-> "unset", deleting |-> FALSE, fins |-> <<Foreign>>, label |-> TRUE]
           e == [type |-> "added", obj |-> o]
<1>1. o \in Contents /\ IsInjective(o.fins) /\ o.ver = 1 /\ ~o.deleting
  BY DEF Contents, IsInjective
<1>2. log = <<e>> /\ events = 0 /\ seen = 0 /\ due = FALSE /\ call = IdleCall /\ told = FALSE
  BY DEF Init, InitObject
<1> HIDE DEF o
<1>3. e \in Entries /\ e.obj = o /\ e.type # "deleted"
  BY <1>1 DEF Entries
<1> HIDE DEF e
<1>4. log \in Seq(Entries) /\ Len(log) = 1 /\ log[1] = e
  BY <1>2, <1>3
<1>5. PICK l \in Nat : l = Len(Routes)
  BY ChainAssumption
<1>6. 1 \in 1..(Len(Routes) + 1)
  BY <1>5
<1>7. call \in Calls /\ call.pc = "idle" /\ call.cur = Absent /\ call.new = Absent
  BY <1>2, <1>6 DEF IdleCall, Calls, Copies
<1>8. Types
  <2>1. 0 \in 0..MaxEvents
    BY ChainAssumption
  <2>2. Len(log) > 0 /\ 0 \in 0..Len(log)
    BY <1>4
  <2>3. events \in 0..MaxEvents /\ seen \in 0..Len(log) /\ due \in BOOLEAN /\ told \in BOOLEAN
    BY <1>2, <2>1, <2>2
  <2>4. QED
    BY <1>4, <1>7, <2>2, <2>3, Zenon DEF Types
<1>9. LogOk
  BY <1>1, <1>3, <1>4 DEF LogOk, EntryOk
<1>10. HistoryOk
  BY <1>1, <1>3, <1>4 DEF HistoryOk, Shrinks
<1>11. CopiesOk /\ CallOk
  BY <1>7 DEF CopiesOk, CallOk
<1>12. QED
  BY <1>8, <1>9, <1>10, <1>11 DEF ChainInv

\* Every step keeps the invariant and respects the finalizers.
LEMMA ChainNext ==
    ASSUME ChainInv, [Next]_vars
    PROVE  ChainInv' /\ (UNCHANGED vars \/ Respects)
<1>1. CASE UNCHANGED vars
  <2>1. UNCHANGED <<log, events, seen, due, call, cleaned, told>>
    BY <1>1 DEF vars, local
  <2>2. PICK a \in Copies, b \in Copies : a = call.cur /\ b = call.new
    BY HeldOk
  <2>3. (a # Absent => CopyOk(a)') /\ (b # Absent => CopyOk(b)')
    BY <2>1, <2>2, HeldOk, LogSame
  <2>4. CopiesOk'
    BY <2>1, <2>2, <2>3, CopiesNext
  <2>5. Types' /\ CallOk'
    BY <2>1 DEF ChainInv, Types, CallOk, Route, First
  <2>6. QED
    BY <1>1, <2>1, <2>4, <2>5, LogSame DEF ChainInv
<1>2. ASSUME NEW delay \in BOOLEAN, RunNext(call.cur, delay)
      PROVE  ChainInv' /\ Respects
  <2>1. call.cur # Absent
    BY <1>2 DEF RunNext
  <2>2. PICK c \in Contents : c = call.cur /\ CopyOk(c)
    BY <2>1, HeldOk
  <2>3. RunNext(c, delay)
    BY <1>2, <2>2 DEF RunNext
  <2>4. QED
    BY <2>2, <2>3, RunNextStep
<1>3. ASSUME NEW delay \in BOOLEAN, RunNext(Current, delay)
      PROVE  ChainInv' /\ Respects
  <2>1. Current # Absent
    BY <1>3 DEF RunNext
  <2>2. PICK c \in Contents : c = Current /\ CopyOk(c)
    <3>1. Current \in Contents /\ Current = Latest /\ Current.ver = Len(log) /\ IsInjective(Current.fins) /\ Len(log) \in Nat
      BY <2>1, CurrentOk DEF ChainInv
    <3>2. CopyOk(Current)
      BY <3>1 DEF CopyOk, Shrinks, SameBut
    <3>3. QED
      BY <3>1, <3>2
  <2>3. RunNext(c, delay)
    BY <1>3, <2>2 DEF RunNext
  <2>4. QED
    BY <2>2, <2>3, RunNextStep
<1>4. \/ Begin \/ Forget \/ Report \/ Normalize \/ AddFinalizer \/ NotMyTurn \/ NextStatus \/ RemoveFinalizer \/ Save
      \/ ReportFails \/ NextFails \/ Inform \/ Others
      \/ (\E delay \in BOOLEAN : RunNext(call.cur, delay))
      \/ (\E delay \in BOOLEAN : RunNext(Current, delay))
      \/ UNCHANGED vars
  BY Zenon DEF Next, Handle, Faults
<1>5. QED
  BY <1>1, <1>2, <1>3, <1>4, BeginStep, ForgetStep, ReportStep, NormalizeStep, AddFinalizerStep, QuietErrorStep,
     NextStatusStep, RemoveFinalizerStep, SaveStep, InformStep, OthersStep

\* Whatever chain of routes works on the object and whoever edits it meanwhile:
\* a copy that a handler may still write back is stale or differs from the
\* object in the condition only, and a finalizer handler that goes on to remove
\* its finalizer has cleaned up.
THEOREM ChainInvariance == Spec => []ChainInv
<1>1. Init => ChainInv
  BY ChainInit
<1>2. ChainInv /\ [Next]_vars => ChainInv'
  BY ChainNext
<1>3. QED
  BY <1>1, <1>2, PTL DEF Spec

\* The types of the variables of the chain; the version of an object is its
\* place in the history, and no finalizer is added twice by AddFinalizer.
THEOREM ChainTypes == Spec => []TypeOK
<1>1. ChainInv => TypeOK
  <2>1. SUFFICES ASSUME ChainInv PROVE TypeOK
    OBVIOUS
  <2>2. /\ log \in Seq(Entries) /\ events \in 0..MaxEvents /\ seen \in 0..Len(log)
        /\ due \in BOOLEAN /\ told \in BOOLEAN /\ call \in Calls /\ LogOk
    BY <2>1 DEF ChainInv, Types
  <2>3. \A n \in DOMAIN log : log[n].obj \in Contents /\ log[n].obj.ver = n /\ IsInjective(log[n].obj.fins)
    <3>1. DOMAIN log = 1..Len(log) /\ \A n \in DOMAIN log : log[n] \in Entries
      BY <2>2
    <3>2. \A n \in DOMAIN log : log[n].obj \in Contents
      BY <3>1 DEF Entries
    <3>3. QED
      BY <2>2, <3>1, <3>2 DEF LogOk, EntryOk
  <2>4. call.pc \in {"idle", "run", "status", "remove"} /\ call.i \in 1..(Len(Routes) + 1)
    BY <2>2 DEF Calls
  <2>5. QED
    BY <2>2, <2>3, <2>4, Zenon DEF TypeOK
<1>2. QED
  BY <1>1, ChainInvariance, PTL

\* No finalizer of a route leaves the object before its handler has cleaned up,
\* and no handler removes the finalizer of another controller, for any routes
\* and any interleaving of their stale copies with the edits of others.
THEOREM FinalizersSafe == Spec => FinalizersRespected
<1>1. ASSUME ChainInv, [Next]_vars
      PROVE  [LET o == Current  p == Current'
                  before == IF o = Absent THEN {} ELSE ToSet(o.fins)
                  after == IF p = Absent THEN {} ELSE ToSet(p.fins)
              IN \A f \in before \ after : IF f = Foreign THEN call' = call ELSE f \in cleaned]_vars
  <2>1. UNCHANGED vars \/ Respects
    BY <1>1, ChainNext
  <2>2. QED
    BY <2>1, Zenon DEF Respects, Fins
<1>2. QED
  BY <1>1, ChainInvariance, PTL DEF Spec, FinalizersRespected
=============================================================================
