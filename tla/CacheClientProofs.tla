-------------------------- MODULE CacheClientProofs ---------------------------
(***************************************************************************)
(* Proofs about CacheClient: a goroutine reads its own writes, for any     *)
(* number of readers and any history of the object, if it is the only      *)
(* writer of its process and the informer is not late.                     *)
(***************************************************************************)
EXTENDS CacheClient, TLAPS

\* Only one goroutine writes the object, and entries of recent live as long as
\* the informer needs (cacheDuration).
OneTimelyWriter == Timely /\ \A p, q \in Writers : p = q

-------------------------------------------------------------------------------
(* The comparison of versions                                              *)

\* Strings of one digit, and of two, are ordered as their numbers are.
LEMMA OneDigit ==
    ASSUME NEW a \in 0..9, NEW b \in 0..9
    PROVE  StringLess(<<a>>, <<b>>) <=> a < b
BY DEF StringLess

LEMMA TwoDigits ==
    ASSUME NEW a \in 0..9, NEW b \in 0..9, NEW c \in 0..9, NEW d \in 0..9
    PROVE  StringLess(<<a, b>>, <<c, d>>) <=> 10 * a + b < 10 * c + d
<1> DEFINE s == <<a, b>>
           t == <<c, d>>
           Splits(n) == /\ n <= Len(s)
                        /\ \A m \in 1..n : s[m] = t[m]
                        /\ \/ n = Len(s) /\ n < Len(t)
                           \/ n < Len(s) /\ n < Len(t) /\ s[n + 1] < t[n + 1]
<1>1. Len(s) = 2 /\ Len(t) = 2 /\ s[1] = a /\ s[2] = b /\ t[1] = c /\ t[2] = d
  OBVIOUS
<1>2. StringLess(s, t) <=> Splits(0) \/ Splits(1) \/ Splits(2)
  <2>1. 0..Len(t) = {0, 1, 2}
    BY <1>1
  <2>2. QED
    BY <2>1 DEF StringLess
<1>3. Splits(0) <=> a < c
  BY <1>1
<1>4. Splits(1) <=> a = c /\ b < d
  BY <1>1
<1>5. ~Splits(2)
  BY <1>1
<1>6. QED
  BY <1>2, <1>3, <1>4, <1>5

LEMMA Digits ==
    ASSUME NEW n \in 0..99
    PROVE  \E q, r \in 0..9 : n \div 10 = q /\ n % 10 = r /\ n = 10 * q + r
<1>1. PICK q \in 0..9 : q = n \div 10
  OBVIOUS
<1>2. PICK r \in 0..9 : r = n % 10
  OBVIOUS
<1>3. n = 10 * q + r
  <2>1. n \in Nat /\ q \in Nat /\ r \in Nat
    OBVIOUS
  <2>2. QED
    BY <1>1, <1>2, <2>1
<1>4. QED
  BY <1>1, <1>2, <1>3

\* newer compares resource versions of up to two digits as numbers, although it
\* compares strings of equal length as strings.
LEMMA NewerIsLess ==
    ASSUME NEW a \in 0..99, NEW b \in 0..99
    PROVE  Newer(a, b) <=> a < b
<1>1. CASE a < 10 /\ b < 10
  BY <1>1, OneDigit DEF Newer, Decimal
<1>2. CASE a >= 10 /\ b >= 10
  <2>1. PICK q, r \in 0..9 : a \div 10 = q /\ a % 10 = r /\ a = 10 * q + r
    BY Digits
  <2>2. PICK s, t \in 0..9 : b \div 10 = s /\ b % 10 = t /\ b = 10 * s + t
    BY Digits
  <2>3. Newer(a, b) <=> StringLess(<<q, r>>, <<s, t>>)
    BY <1>2, <2>1, <2>2 DEF Newer, Decimal
  <2>4. StringLess(<<q, r>>, <<s, t>>) <=> 10 * q + r < 10 * s + t
    BY TwoDigits
  <2>5. a = 10 * q + r /\ b = 10 * s + t
    BY <2>1, <2>2
  <2>6. QED
    BY <2>3, <2>4, <2>5
<1>3. CASE (a < 10 /\ b >= 10) \/ (a >= 10 /\ b < 10)
  BY <1>3 DEF Newer, Decimal
<1>4. QED
  BY <1>1, <1>2, <1>3

LEMMA TwoDigitVersions == \A i \in 0..MaxVersions : RV(i) \in 0..99
<1>1. /\ FirstRV \in Nat /\ FirstRV >= 1 /\ MaxVersions \in Nat
      /\ FirstRV + MaxVersions <= 100
  BY CacheClientAssumption
<1>2. ASSUME NEW i \in 0..MaxVersions PROVE FirstRV + i - 1 \in 0..99
  <2>1. i \in Nat /\ i <= MaxVersions
    BY <1>1
  <2>2. QED
    BY <1>1, <2>1
<1>3. QED
  BY <1>2 DEF RV

-------------------------------------------------------------------------------
(* The inductive invariant                                                 *)

\* The entry of recent has a version, and one that is old is not newer than what
\* the informer has seen.
EntryOk ==
    /\ recent.age = "none" <=> recent.rv = 0
    /\ recent.age = "old" => recent.rv <= inf

\* What a goroutine wrote is in recent until the informer has seen it, and
\* recent has nothing but that.
WroteOk ==
    /\ \A p \in Procs : wrote[p] # 0 => p \in Writers /\ (wrote[p] <= inf \/ recent.rv = wrote[p])
    /\ \A p \in Writers : recent.rv # 0 => recent.rv = wrote[p]

\* A Get that has read the cache either has what its goroutine wrote, or is
\* going to find it in recent.
Reading(p) ==
    /\ proc[p].floor = wrote[p]
    /\ proc[p].found <=> Exists(proc[p].rv)
    /\ proc[p].found => proc[p].preset
    /\ proc[p].floor # 0 => proc[p].floor <= proc[p].rv \/ recent.rv = proc[p].floor
    /\ recent.age = "old" => recent.rv <= proc[p].rv

\* What ReadYourWrites says of a Get that returns.
ReadOk(p) ==
    IF proc[p].found THEN proc[p].rv >= proc[p].floor
    ELSE proc[p].preset /\ proc[p].floor > 0 => \E i \in proc[p].floor..Last : ~hist[i]

ProcOk(p) ==
    /\ proc[p].pc \in {"store", "deleteStore"} => p \in Writers
    /\ proc[p].pc = "store" => proc[p].rv # 0
    /\ proc[p].pc = "recent" => Reading(p)
    /\ proc[p].pc = "got" => ReadOk(p)

Inv == TypeOK /\ EntryOk /\ WroteOk /\ \A p \in Procs : ProcOk(p)

-------------------------------------------------------------------------------
(* The steps                                                               *)

LEMMA InitInv == Init => Inv
<1> SUFFICES ASSUME Init PROVE Inv
  OBVIOUS
<1>1. hist \in Seq(BOOLEAN) /\ Last \in Nat /\ Last <= 1
  <2>1. CASE hist = << >>
    BY <2>1 DEF Last
  <2>2. CASE hist = <<TRUE>>
    BY <2>2 DEF Last
  <2>3. QED
    BY <2>1, <2>2 DEF Init
<1>2. TypeOK
  BY <1>1, CacheClientAssumption DEF Init, TypeOK, NoEntry, IdleProc
<1>3. QED
  BY <1>2 DEF Init, Inv, EntryOk, WroteOk, ProcOk, NoEntry, IdleProc, Procs

\* The history grows at its end; what existed in an earlier version did.
LEMMA HistoryGrows ==
    ASSUME TypeOK, NEW e \in BOOLEAN, hist' = Append(hist, e), Last < MaxVersions
    PROVE  /\ hist' \in Seq(BOOLEAN) /\ Last \in Nat /\ Last' = Last + 1 /\ Last' <= MaxVersions
           /\ \A i \in 1..Last : hist'[i] = hist[i]
BY CacheClientAssumption DEF TypeOK, Last

\* What the invariant says of a goroutine stays true while the history grows.
LEMMA KeepProc ==
    ASSUME Inv, TypeOK', NEW p \in Procs, proc'[p] = proc[p], Last \in Nat, Last' \in Nat, Last' >= Last,
           \A i \in 1..Last : hist'[i] = hist[i], wrote'[p] = wrote[p],
           proc[p].pc = "recent" => recent' = recent
    PROVE  ProcOk(p)'
<1>1. proc[p].rv \in 0..Last /\ proc[p].floor \in 0..Last
  BY DEF Inv, TypeOK
<1>2. Exists(proc[p].rv)' <=> Exists(proc[p].rv)
  BY <1>1 DEF Exists
<1>3. CASE proc[p].pc = "recent"
  BY <1>2, <1>3 DEF Inv, ProcOk, Reading
<1>4. CASE proc[p].pc = "got"
  <2>1. ReadOk(p)
    BY <1>4 DEF Inv, ProcOk
  <2>2. ReadOk(p)'
    <3>1. CASE proc[p].found
      BY <2>1, <3>1 DEF ReadOk
    <3>2. CASE ~proc[p].found /\ proc[p].preset /\ proc[p].floor > 0
      <4>1. PICK i \in proc[p].floor..Last : ~hist[i]
        BY <2>1, <3>2 DEF ReadOk
      <4>2. i \in 1..Last /\ i \in proc[p].floor..Last'
        BY <1>1, <3>2
      <4>3. ~hist'[i]
        BY <4>1, <4>2
      <4>4. QED
        BY <3>2, <4>2, <4>3 DEF ReadOk
    <3>3. CASE ~proc[p].found /\ ~(proc[p].preset /\ proc[p].floor > 0)
      BY <3>3 DEF ReadOk
    <3>4. QED
      BY <3>1, <3>2, <3>3
  <2>3. QED
    BY <1>4, <2>2 DEF ProcOk
<1>5. CASE proc[p].pc \notin {"recent", "got"}
  BY <1>5 DEF Inv, ProcOk
<1>6. QED
  BY <1>3, <1>4, <1>5

\* A step that moves only goroutine p, and neither the history nor wrote[p].
LEMMA ProcStep ==
    ASSUME Inv, NEW p \in Procs, UNCHANGED <<hist, inf, recent, wrote>>,
           NEW new \in [pc : {"idle", "store", "deleteStore", "recent", "got"}, rv : 0..Last,
                        floor : 0..Last, preset : BOOLEAN, found : BOOLEAN],
           proc' = [proc EXCEPT ![p] = new],
           ProcOk(p)'
    PROVE  Inv'
<1>1. TypeOK'
  BY DEF Inv, TypeOK, Last
<1>2. EntryOk' /\ WroteOk'
  BY DEF Inv, EntryOk, WroteOk
<1>3. Last \in Nat /\ Last' = Last
  BY DEF Inv, TypeOK, Last
<1>4. ASSUME NEW q \in Procs, q # p PROVE ProcOk(q)'
  <2>1. proc'[q] = proc[q]
    BY <1>4 DEF Inv, TypeOK
  <2>2. QED
    BY <1>1, <1>3, <2>1, KeepProc
<1>5. QED
  BY <1>1, <1>2, <1>4 DEF Inv

\* GetCached: what the goroutine has written is in the informer's version or
\* still in recent.
LEMMA GetCachedStep ==
    ASSUME Inv, NEW p \in Procs, NEW preset \in BOOLEAN, GetCached(p, preset)
    PROVE  Inv'
<1> DEFINE new == [pc |-> "recent", rv |-> inf, floor |-> wrote[p],
                   preset |-> preset \/ Exists(inf), found |-> Exists(inf)]
<1>1. inf \in 0..Last /\ wrote[p] \in 0..Last /\ Last \in Nat
  BY DEF Inv, TypeOK, Last
<1>2. Exists(inf) \in BOOLEAN
  BY <1>1 DEF Inv, TypeOK, Exists, Last
<1>3. new \in [pc : {"idle", "store", "deleteStore", "recent", "got"}, rv : 0..Last,
               floor : 0..Last, preset : BOOLEAN, found : BOOLEAN]
  BY <1>1, <1>2
<1>4. /\ proc' = [proc EXCEPT ![p] = new]
      /\ UNCHANGED <<hist, inf, recent, wrote>>
  BY DEF GetCached
<1>5. proc'[p] = new
  BY <1>4 DEF Inv, TypeOK
<1>6. Exists(inf)' <=> Exists(inf)
  BY <1>4 DEF Exists
<1>7. ProcOk(p)'
  <2>1. /\ proc'[p].pc = "recent" /\ proc'[p].rv = inf /\ proc'[p].floor = wrote[p]
        /\ proc'[p].found = Exists(inf) /\ proc'[p].preset = (preset \/ Exists(inf))
    BY <1>5
  <2>2. (proc'[p].found <=> (Exists(proc[p].rv))') /\ (proc'[p].found => proc'[p].preset)
    BY <1>4, <2>1 DEF Exists
  <2>3. proc'[p].floor # 0 => proc'[p].floor <= proc'[p].rv \/ recent'.rv = proc'[p].floor
    BY <1>4, <2>1 DEF Inv, WroteOk
  <2>4. recent'.age = "old" => recent'.rv <= proc'[p].rv
    BY <1>4, <2>1 DEF Inv, EntryOk
  <2>5. Reading(p)'
    BY <1>4, <2>1, <2>2, <2>3, <2>4 DEF Reading
  <2>6. QED
    BY <2>1, <2>5 DEF ProcOk
<1>8. QED
  BY <1>3, <1>4, <1>7, ProcStep

\* GetRecent takes the newer of the two, or has nothing newer to take.
LEMMA GetRecentStep ==
    ASSUME Inv, NEW p \in Procs, GetRecent(p)
    PROVE  Inv'
<1> DEFINE taken == [proc[p] EXCEPT !.pc = "got", !.rv = recent.rv, !.found = TRUE]
           kept == [proc[p] EXCEPT !.pc = "got"]
           Rec == [pc : {"idle", "store", "deleteStore", "recent", "got"}, rv : 0..Last,
                   floor : 0..Last, preset : BOOLEAN, found : BOOLEAN]
<1>1. /\ proc[p] \in Rec /\ proc[p].pc = "recent" /\ recent.rv \in 0..Last /\ Last \in Nat
      /\ proc \in [Procs -> Rec]
  BY DEF Inv, TypeOK, GetRecent, Last
<1>2. Reading(p)
  BY <1>1 DEF Inv, ProcOk
<1>3. UNCHANGED <<hist, inf, recent, wrote>>
  BY DEF GetRecent
<1>4. recent # NoEntry <=> recent.rv # 0
  BY DEF Inv, EntryOk, TypeOK, NoEntry
<1>5. CASE UseRecent(p)
  <2>1. proc' = [proc EXCEPT ![p] = taken] /\ taken \in Rec
    BY <1>1, <1>5 DEF GetRecent
  <2>2. /\ proc'[p].pc = "got" /\ proc'[p].found /\ proc'[p].rv = recent.rv
        /\ proc'[p].floor = proc[p].floor
    BY <1>1, <2>1
  <2>3. recent.rv # 0 /\ proc[p].floor \in {0, recent.rv}
    BY <1>2, <1>4, <1>5 DEF UseRecent, Reading, Inv, WroteOk
  <2>4. recent.rv >= proc[p].floor
    BY <1>1, <2>3
  <2>5. ProcOk(p)'
    BY <2>2, <2>4 DEF ProcOk, ReadOk
  <2>6. QED
    BY <1>3, <2>1, <2>5, ProcStep
<1>6. CASE ~UseRecent(p)
  <2>1. proc' = [proc EXCEPT ![p] = kept] /\ kept \in Rec
    BY <1>1, <1>6 DEF GetRecent
  <2>2. /\ proc'[p].pc = "got" /\ proc'[p].found = proc[p].found /\ proc'[p].rv = proc[p].rv
        /\ proc'[p].floor = proc[p].floor /\ proc'[p].preset = proc[p].preset
    BY <1>1, <2>1
  <2>3. ReadOk(p)
    <3>1. CASE proc[p].found
      <4>1. recent.rv # 0 => ~(proc[p].rv < recent.rv)
        <5>1. SUFFICES ASSUME recent.rv # 0 PROVE ~(proc[p].rv < recent.rv)
          OBVIOUS
        <5>2. proc[p].preset /\ proc[p].rv # 0
          BY <1>1, <1>2, <3>1 DEF Reading, Exists
        <5>3. ~Newer(RV(proc[p].rv), RV(recent.rv))
          BY <1>4, <1>6, <3>1, <5>1, <5>2 DEF UseRecent
        <5>4. RV(proc[p].rv) \in 0..99 /\ RV(recent.rv) \in 0..99
          <6>1. Last <= MaxVersions
            BY DEF Inv, TypeOK
          <6>2. proc[p].rv \in 0..MaxVersions /\ recent.rv \in 0..MaxVersions
            BY <1>1, <6>1, CacheClientAssumption
          <6>3. QED
            BY <6>2, TwoDigitVersions
        <5>5. ~(RV(proc[p].rv) < RV(recent.rv))
          BY <5>3, <5>4, NewerIsLess
        <5>6. QED
          BY <1>1, <5>5, CacheClientAssumption DEF RV
      <4>2. proc[p].floor = 0 \/ proc[p].floor <= proc[p].rv \/ recent.rv = proc[p].floor
        BY <1>2 DEF Reading
      <4>3. proc[p].rv >= proc[p].floor
        BY <1>1, <4>1, <4>2
      <4>4. QED
        BY <3>1, <4>3 DEF ReadOk
    <3>2. CASE ~proc[p].found /\ proc[p].preset /\ proc[p].floor > 0
      <4>1. recent.rv = 0
        BY <1>4, <1>6, <3>2 DEF UseRecent
      <4>2. proc[p].floor <= proc[p].rv
        BY <1>1, <1>2, <3>2, <4>1 DEF Reading
      <4>3. ~hist[proc[p].rv]
        BY <1>1, <1>2, <3>2, <4>2 DEF Reading, Exists
      <4>4. QED
        BY <1>1, <3>2, <4>2, <4>3 DEF ReadOk
    <3>3. CASE ~proc[p].found /\ ~(proc[p].preset /\ proc[p].floor > 0)
      BY <3>3 DEF ReadOk
    <3>4. QED
      BY <3>1, <3>2, <3>3
  <2>4. Last' = Last
    BY <1>3 DEF Last
  <2>5. ProcOk(p)'
    BY <1>3, <2>2, <2>3, <2>4 DEF ProcOk, ReadOk
  <2>6. QED
    BY <1>3, <2>1, <2>5, ProcStep
<1>7. QED
  BY <1>5, <1>6

LEMMA GetReturnStep ==
    ASSUME Inv, NEW p \in Procs, GetReturn(p)
    PROVE  Inv'
<1>1. proc' = [proc EXCEPT ![p] = IdleProc] /\ UNCHANGED <<hist, inf, recent, wrote>>
  BY DEF GetReturn
<1>2. proc'[p] = IdleProc
  BY <1>1 DEF Inv, TypeOK
<1>3. ProcOk(p)'
  BY <1>2 DEF ProcOk, IdleProc
<1>4. IdleProc \in [pc : {"idle", "store", "deleteStore", "recent", "got"}, rv : 0..Last,
                    floor : 0..Last, preset : BOOLEAN, found : BOOLEAN]
  BY DEF IdleProc, Last, Inv, TypeOK
<1>5. QED
  BY <1>1, <1>3, <1>4, ProcStep

\* The server accepts a write or a deletion, from this process or another.
LEMMA ServerStep ==
    ASSUME Inv, \/ \E p \in Writers : Write(p)
                \/ \E exists \in BOOLEAN : OtherWrite(exists)
    PROVE  Inv'
<1>1. PICK e \in BOOLEAN : hist' = Append(hist, e) /\ Last < MaxVersions
  BY DEF Write, ServerWrite, ServerDelete, OtherWrite
<1>2. UNCHANGED <<inf, recent, wrote>>
  BY DEF Write, ServerWrite, ServerDelete, OtherWrite
<1>3. /\ hist' \in Seq(BOOLEAN) /\ Last \in Nat /\ Last' = Last + 1 /\ Last' <= MaxVersions
      /\ \A i \in 1..Last : hist'[i] = hist[i]
  BY <1>1, HistoryGrows DEF Inv
<1> DEFINE Rec(n) == [pc : {"idle", "store", "deleteStore", "recent", "got"}, rv : 0..n,
                      floor : 0..n, preset : BOOLEAN, found : BOOLEAN]
<1>4. proc \in [Procs -> Rec(Last)]
  BY DEF Inv, TypeOK
<1>5. Rec(Last) \subseteq Rec(Last')
  BY <1>3
<1>6. ASSUME NEW q \in Procs
      PROVE  /\ proc'[q] \in Rec(Last')
             /\ \/ proc'[q] = proc[q]
                \/ q \in Writers /\ proc'[q].pc = "store" /\ proc'[q].rv # 0
                \/ q \in Writers /\ proc'[q].pc = "deleteStore"
  <2>1. CASE proc' = proc
    BY <1>4, <1>5, <2>1
  <2>2. CASE \E p \in Writers : Write(p)
    <3>1. PICK p \in Writers : Write(p)
      BY <2>2
    <3>2. PICK new \in Rec(Last') : /\ proc' = [proc EXCEPT ![p] = new]
                                    /\ \/ new.pc = "store" /\ new.rv # 0
                                       \/ new.pc = "deleteStore"
      <4>1. CASE ServerWrite(p)
        <5>1. DEFINE new == [IdleProc EXCEPT !.pc = "store", !.rv = Last + 1]
        <5>2. new \in Rec(Last') /\ new.pc = "store" /\ new.rv # 0
          <6>1. 0 \in 0..Last' /\ Last + 1 \in 0..Last' /\ Last + 1 # 0
            BY <1>3
          <6>2. IdleProc \in Rec(Last')
            BY <6>1 DEF IdleProc
          <6>3. QED
            BY <6>1, <6>2
        <5>3. proc' = [proc EXCEPT ![p] = new]
          BY <4>1 DEF ServerWrite
        <5>4. QED
          BY <5>2, <5>3
      <4>2. CASE ServerDelete(p)
        <5>1. DEFINE new == [IdleProc EXCEPT !.pc = "deleteStore"]
        <5>2. new \in Rec(Last') /\ new.pc = "deleteStore"
          <6>1. 0 \in 0..Last'
            BY <1>3
          <6>2. IdleProc \in Rec(Last')
            BY <6>1 DEF IdleProc
          <6>3. QED
            BY <6>1, <6>2
        <5>3. proc' = [proc EXCEPT ![p] = new]
          BY <4>2 DEF ServerDelete
        <5>4. QED
          BY <5>2, <5>3
      <4>3. QED
        BY <3>1, <4>1, <4>2 DEF Write
    <3>3. CASE q = p
      BY <1>4, <3>2, <3>3 DEF Procs
    <3>4. CASE q # p
      <4>1. proc'[q] = proc[q] /\ proc[q] \in Rec(Last)
        BY <1>4, <3>2, <3>4
      <4>2. QED
        BY <1>5, <4>1
    <3>5. QED
      BY <3>3, <3>4
  <2>3. QED
    BY <2>1, <2>2 DEF OtherWrite
<1>7. proc' \in [Procs -> Rec(Last')]
  <2>1. proc' = [q \in Procs |-> proc'[q]]
    BY <1>4 DEF Write, ServerWrite, ServerDelete, OtherWrite
  <2>2. QED
    BY <1>6, <2>1
<1>8. TypeOK'
  <2>1. inf' \in 0..Last' /\ recent' \in [rv : 0..Last', age : {"none", "new", "old"}]
    BY <1>2, <1>3 DEF Inv, TypeOK
  <2>2. wrote' \in [Procs -> 0..Last']
    BY <1>2, <1>3 DEF Inv, TypeOK
  <2>3. QED
    BY <1>3, <1>7, <2>1, <2>2 DEF TypeOK
<1>9. EntryOk' /\ WroteOk'
  BY <1>2 DEF Inv, EntryOk, WroteOk
<1>10. ASSUME NEW q \in Procs PROVE ProcOk(q)'
  <2>1. CASE proc'[q] = proc[q]
    BY <1>2, <1>3, <1>8, <2>1, KeepProc
  <2>2. CASE q \in Writers /\ proc'[q].pc = "store" /\ proc'[q].rv # 0
    BY <2>2 DEF ProcOk
  <2>3. CASE q \in Writers /\ proc'[q].pc = "deleteStore"
    BY <2>3 DEF ProcOk
  <2>4. QED
    BY <1>6, <2>1, <2>2, <2>3
<1>11. QED
  BY <1>8, <1>9, <1>10 DEF Inv

LEMMA InformStep ==
    ASSUME Inv, Inform
    PROVE  Inv'
<1>1. inf < Last /\ inf' = inf + 1 /\ UNCHANGED <<hist, recent, proc, wrote>>
  BY DEF Inform
<1>2. Last \in Nat /\ Last' = Last /\ inf \in 0..Last
  BY <1>1 DEF Last, Inv, TypeOK
<1>3. TypeOK'
  BY <1>1, <1>2 DEF Inv, TypeOK
<1>4. EntryOk' /\ WroteOk'
  BY <1>1, <1>2 DEF Inv, TypeOK, EntryOk, WroteOk, Procs
<1>5. \A q \in Procs : ProcOk(q)'
  BY <1>1, <1>2, <1>3, KeepProc
<1>6. QED
  BY <1>3, <1>4, <1>5 DEF Inv

\* The writer puts what it wrote into recent, or takes it out after a deletion;
\* nobody else has anything there.
LEMMA StoreStep ==
    ASSUME Inv, OneTimelyWriter, NEW p \in Procs, Store(p) \/ DeleteStore(p)
    PROVE  Inv'
<1>1. /\ p \in Writers /\ UNCHANGED <<hist, inf>> /\ proc' = [proc EXCEPT ![p] = IdleProc]
      /\ proc[p].pc \in {"store", "deleteStore"}
  BY DEF Store, DeleteStore, Inv, ProcOk
<1>2. PICK v \in 0..Last : /\ wrote' = [wrote EXCEPT ![p] = v]
                           /\ recent' = [rv |-> v, age |-> IF v = 0 THEN "none" ELSE "new"]
  <2>1. CASE Store(p)
    <3>1. proc[p].rv \in 0..Last /\ proc[p].rv # 0
      BY <2>1 DEF Store, Inv, TypeOK, ProcOk
    <3>2. QED
      BY <2>1, <3>1 DEF Store
  <2>2. CASE DeleteStore(p)
    <3>1. Last \in Nat
      BY DEF Last, Inv, TypeOK
    <3>2. /\ wrote' = [wrote EXCEPT ![p] = 0]
          /\ recent' = [rv |-> 0, age |-> IF 0 = 0 THEN "none" ELSE "new"]
      BY <2>2 DEF DeleteStore, NoEntry
    <3>3. 0 \in 0..Last
      BY <3>1
    <3>4. QED
      BY <3>2, <3>3
  <2>3. QED
    BY <2>1, <2>2
<1>3. Last \in Nat /\ Last' = Last
  BY <1>1 DEF Last, Inv, TypeOK
<1>4. TypeOK'
  <2>1. proc' \in [Procs -> [pc : {"idle", "store", "deleteStore", "recent", "got"}, rv : 0..Last,
                             floor : 0..Last, preset : BOOLEAN, found : BOOLEAN]]
    BY <1>1, <1>3 DEF Inv, TypeOK, IdleProc
  <2>2. recent' \in [rv : 0..Last, age : {"none", "new", "old"}] /\ wrote' \in [Procs -> 0..Last]
    BY <1>2 DEF Inv, TypeOK
  <2>3. QED
    BY <1>1, <1>3, <2>1, <2>2 DEF Inv, TypeOK
<1>5. wrote'[p] = v /\ \A q \in Procs : q # p => wrote'[q] = 0 /\ wrote[q] = 0
  BY <1>1, <1>2 DEF OneTimelyWriter, Inv, TypeOK, WroteOk
<1>6. EntryOk'
  BY <1>2 DEF EntryOk
<1>7. WroteOk'
  BY <1>1, <1>2, <1>5 DEF WroteOk, OneTimelyWriter, Procs
<1>8. ProcOk(p)'
  <2>1. proc'[p] = IdleProc
    BY <1>1 DEF Inv, TypeOK
  <2>2. QED
    BY <2>1 DEF ProcOk, IdleProc
<1>9. ASSUME NEW q \in Procs, q # p PROVE ProcOk(q)'
  <2>1. proc'[q] = proc[q] /\ wrote'[q] = wrote[q]
    BY <1>1, <1>5, <1>9 DEF Inv, TypeOK
  <2>2. CASE proc[q].pc # "recent"
    BY <1>1, <1>3, <1>4, <2>1, <2>2, KeepProc
  <2>3. CASE proc[q].pc = "recent"
    <3>1. Reading(q) /\ proc[q].floor = 0
      BY <1>5, <1>9, <2>3 DEF Inv, ProcOk, Reading
    <3>2. recent'.age # "old"
      BY <1>2
    <3>3. (Exists(proc[q].rv))' <=> Exists(proc[q].rv)
      BY <1>1, <2>1 DEF Exists
    <3>4. Reading(q)'
      BY <2>1, <3>1, <3>2, <3>3 DEF Reading
    <3>5. QED
      BY <2>1, <2>3, <3>4 DEF ProcOk
  <2>4. QED
    BY <2>2, <2>3
<1>10. QED
  BY <1>4, <1>6, <1>7, <1>8, <1>9 DEF Inv

\* An entry gets old, and is purged, when nobody needs it any more.
LEMMA PurgeStep ==
    ASSUME Inv, OneTimelyWriter, Expire \/ Purge
    PROVE  Inv'
<1>1. UNCHANGED <<hist, inf, proc, wrote>> /\ Last \in Nat /\ Last' = Last
  BY DEF Expire, Purge, Last, Inv, TypeOK
<1>2. TypeOK'
  BY <1>1 DEF Expire, Purge, Inv, TypeOK, NoEntry
<1>3. EntryOk'
  BY <1>1 DEF Expire, Purge, Inv, TypeOK, EntryOk, NoEntry, OneTimelyWriter
<1>4. WroteOk'
  BY <1>1 DEF Expire, Purge, Inv, TypeOK, EntryOk, WroteOk, NoEntry, Procs
<1>5. ASSUME NEW q \in Procs PROVE ProcOk(q)'
  <2>1. proc'[q] = proc[q] /\ wrote'[q] = wrote[q]
    BY <1>1
  <2>2. CASE proc[q].pc # "recent"
    BY <1>1, <1>2, <2>1, <2>2, KeepProc
  <2>3. CASE proc[q].pc = "recent"
    <3>1. Reading(q)
      BY <2>3 DEF Inv, ProcOk
    <3>2. (Exists(proc[q].rv))' <=> Exists(proc[q].rv)
      BY <1>1 DEF Exists
    <3>3. CASE Expire
      BY <1>1, <2>3, <3>1, <3>2, <3>3 DEF Expire, OneTimelyWriter, Reading, ProcOk, Inv, TypeOK
    <3>4. CASE Purge
      BY <1>1, <2>3, <3>1, <3>2, <3>4 DEF Purge, NoEntry, Reading, ProcOk, Inv, TypeOK
    <3>5. QED
      BY <3>3, <3>4
  <2>4. QED
    BY <2>2, <2>3
<1>6. QED
  BY <1>2, <1>3, <1>4, <1>5 DEF Inv

LEMMA NextInv == OneTimelyWriter /\ Inv /\ [Next]_vars => Inv'
<1> SUFFICES ASSUME OneTimelyWriter, Inv, [Next]_vars PROVE Inv'
  OBVIOUS
<1>1. CASE UNCHANGED vars
  <2>1. \A q \in Procs : ProcOk(q)'
    BY <1>1 DEF vars, Inv, ProcOk, Reading, ReadOk, Exists, Last
  <2>2. QED
    BY <1>1, <2>1 DEF vars, Inv, TypeOK, EntryOk, WroteOk, Last
<1>2. QED
  BY <1>1, ServerStep, InformStep, StoreStep, GetCachedStep, GetRecentStep, GetReturnStep, PurgeStep
     DEF Next, Return

-------------------------------------------------------------------------------
(* The theorem                                                             *)

\* A goroutine that is the only writer of an object in its process never reads
\* a version older than the one it wrote, whatever other processes write and
\* however the informer lags within cacheDuration.
THEOREM ReadsItsWrites ==
    ASSUME OneTimelyWriter
    PROVE  Spec => []ReadYourWrites
<1>1. Inv => ReadYourWrites
  BY DEF Inv, ProcOk, ReadOk, ReadYourWrites
<1>2. QED
  BY InitInv, NextInv, <1>1, PTL DEF Spec
===============================================================================
