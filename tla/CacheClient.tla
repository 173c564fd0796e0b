----------------------------- MODULE CacheClient -----------------------------
(***************************************************************************)
(* The client of pkg/runtime/cached.go for one object: reads come from the *)
(* informer cache, which lags behind the API server, and every successful  *)
(* write is kept in the map "recent" for a while, so that a read does not  *)
(* return a version older than the one just written.                       *)
(*                                                                         *)
(* The history of the object at the server is a sequence of versions;      *)
(* resource versions are consecutive numbers from FirstRV.  They reach     *)
(* the client as decimal strings, which is how newer compares them.        *)
(***************************************************************************)
EXTENDS Naturals, Sequences

CONSTANTS Writers,        \* goroutines of this process that write the object
          Readers,        \* goroutines that read it
          FirstRV,        \* resource version of the first version
          Timely,         \* the lag of the informer and the time between the two
                          \* reads of a Get are together below cacheDuration
          MaxVersions     \* bound: versions of the object

ASSUME CacheClientAssumption ==
    /\ FirstRV \in Nat \ {0}
    /\ Timely \in BOOLEAN
    /\ MaxVersions \in Nat \ {0}
    /\ FirstRV + MaxVersions <= 100

Procs == Writers \cup Readers

VARIABLES
    hist,    \* hist[i]: whether the object exists in its version i
    inf,     \* the version the informer has seen last, 0 before the first
    recent,  \* the entry of the object in c.recent
    proc,    \* the goroutines
    wrote    \* history: the version a writer wrote last, 0 if it deleted it since

vars == <<hist, inf, recent, proc, wrote>>

NoEntry == [rv |-> 0, age |-> "none"]
IdleProc == [pc |-> "idle", rv |-> 0, floor |-> 0, preset |-> FALSE, found |-> FALSE]

RV(i) == FirstRV + i - 1
Exists(i) == i > 0 /\ hist[i]
Last == Len(hist)

\* A resource version below 100 as a decimal string.
Decimal(n) == IF n < 10 THEN <<n>> ELSE <<n \div 10, n % 10>>

\* The order of strings, which compares byte by byte.
StringLess(s, t) ==
    \E n \in 0..Len(t) :
        /\ n <= Len(s)
        /\ \A m \in 1..n : s[m] = t[m]
        /\ \/ n = Len(s) /\ n < Len(t)
           \/ n < Len(s) /\ n < Len(t) /\ s[n + 1] < t[n + 1]

\* Mutant: the versions are compared as strings only.
NewerString(old, new) == StringLess(Decimal(old), Decimal(new))

\* Versions of equal length are compared as strings, others as numbers.
Newer(old, new) ==
    IF Len(Decimal(old)) = Len(Decimal(new)) THEN StringLess(Decimal(old), Decimal(new))
    ELSE old < new

-------------------------------------------------------------------------------
Init ==
    /\ hist \in {<< >>, <<TRUE>>}
    /\ inf = 0
    /\ recent = NoEntry
    /\ proc = [p \in Procs |-> IdleProc]
    /\ wrote = [p \in Procs |-> 0]

\* The server accepts a write of goroutine p (external): Create, Update or
\* Patch of the object, which returns the new version.
ServerWrite(p) ==
    /\ proc[p].pc = "idle"
    /\ Last < MaxVersions
    /\ hist' = Append(hist, TRUE)
    /\ proc' = [proc EXCEPT ![p] = [IdleProc EXCEPT !.pc = "store", !.rv = Last + 1]]
    /\ UNCHANGED <<inf, recent, wrote>>

\* The server accepts a Delete of goroutine p.
ServerDelete(p) ==
    /\ proc[p].pc = "idle"
    /\ Last < MaxVersions
    /\ Exists(Last)
    /\ hist' = Append(hist, FALSE)
    /\ proc' = [proc EXCEPT ![p] = [IdleProc EXCEPT !.pc = "deleteStore"]]
    /\ UNCHANGED <<inf, recent, wrote>>

\* Another process writes or deletes the object.
OtherWrite(exists) ==
    /\ Last < MaxVersions
    /\ exists \/ Exists(Last)
    /\ hist' = Append(hist, exists)
    /\ UNCHANGED <<inf, recent, proc, wrote>>

\* The informer receives the next event.
Inform ==
    /\ inf < Last
    /\ inf' = inf + 1
    /\ UNCHANGED <<hist, recent, proc, wrote>>

-------------------------------------------------------------------------------
(* The client                                                              *)

\* The end of Create, Update, Patch and the status writes: store the object
\* as the server returned it.
Store(p) ==
    /\ proc[p].pc = "store"
    /\ recent' = [rv |-> proc[p].rv, age |-> "new"]
    /\ wrote' = [wrote EXCEPT ![p] = proc[p].rv]
    /\ proc' = [proc EXCEPT ![p] = IdleProc]
    /\ UNCHANGED <<hist, inf>>

\* The end of Delete: no trace of the object stays behind.
DeleteStore(p) ==
    /\ proc[p].pc = "deleteStore"
    /\ recent' = NoEntry
    /\ wrote' = [wrote EXCEPT ![p] = 0]
    /\ proc' = [proc EXCEPT ![p] = IdleProc]
    /\ UNCHANGED <<hist, inf>>

\* Get reads the informer cache.  preset: the object passed in has its name
\* set already; an object the cache finds always has it.
GetCached(p, preset) ==
    /\ proc[p].pc = "idle"
    /\ proc' = [proc EXCEPT ![p] = [pc |-> "recent", rv |-> inf, floor |-> wrote[p],
                                    preset |-> preset \/ Exists(inf), found |-> Exists(inf)]]
    /\ UNCHANGED <<hist, inf, recent, wrote>>

\* Then it looks the name in the object up in recent and returns the newer
\* of the two, or the recent one if the cache found nothing.
UseRecent(p) ==
    /\ recent # NoEntry
    /\ proc[p].preset
    /\ proc[p].found => Newer(RV(proc[p].rv), RV(recent.rv))

GetRecent(p) ==
    /\ proc[p].pc = "recent"
    /\ proc' = [proc EXCEPT ![p] = IF UseRecent(p)
                                   THEN [@ EXCEPT !.pc = "got", !.rv = recent.rv, !.found = TRUE]
                                   ELSE [@ EXCEPT !.pc = "got"]]
    /\ UNCHANGED <<hist, inf, recent, wrote>>

GetReturn(p) ==
    /\ proc[p].pc = "got"
    /\ proc' = [proc EXCEPT ![p] = IdleProc]
    /\ UNCHANGED <<hist, inf, recent, wrote>>

\* cacheDuration passes after the entry was stored.
Expire ==
    /\ recent.age = "new"
    /\ Timely => /\ inf >= recent.rv
                 /\ \A p \in Procs : proc[p].pc = "recent" => proc[p].rv >= recent.rv
    /\ recent' = [recent EXCEPT !.age = "old"]
    /\ UNCHANGED <<hist, inf, proc, wrote>>

\* Mutant: Before in place of After; the old entries stay.
PurgeNewest ==
    /\ recent.age = "new"
    /\ recent' = NoEntry
    /\ UNCHANGED <<hist, inf, proc, wrote>>

\* The purge goroutine deletes the entries older than cacheDuration.
Purge ==
    /\ recent.age = "old"
    /\ recent' = NoEntry
    /\ UNCHANGED <<hist, inf, proc, wrote>>

-------------------------------------------------------------------------------
Write(p) == ServerWrite(p) \/ ServerDelete(p)
Return(p) == Store(p) \/ DeleteStore(p) \/ GetRecent(p) \/ GetReturn(p)

Next ==
    \/ \E p \in Writers : Write(p)
    \/ \E p \in Procs : Return(p) \/ \E preset \in BOOLEAN : GetCached(p, preset)
    \/ \E exists \in BOOLEAN : OtherWrite(exists)
    \/ Inform \/ Expire \/ Purge

\* Calls return, the informer receives its events, and the purge runs.
Fairness ==
    /\ \A p \in Procs : WF_vars(Return(p))
    /\ WF_vars(Inform) /\ WF_vars(Expire) /\ WF_vars(Purge)

Spec == Init /\ [][Next]_vars
FairSpec == Spec /\ Fairness

-------------------------------------------------------------------------------
(* Properties                                                              *)

\* The values of the client's fields; no version is ahead of the server.
TypeOK ==
    /\ hist \in Seq(BOOLEAN) /\ Last <= MaxVersions
    /\ inf \in 0..Last
    /\ recent \in [rv : 0..Last, age : {"none", "new", "old"}]
    /\ proc \in [Procs -> [pc : {"idle", "store", "deleteStore", "recent", "got"}, rv : 0..Last,
                           floor : 0..Last, preset : BOOLEAN, found : BOOLEAN]]
    /\ wrote \in [Procs -> 0..Last]

\* Besides the types: a goroutine that wrote the object and reads it back, with
\* the name set in the object it passes or after the informer knows the object,
\* never gets a version older than the one it wrote; "not found" only after a
\* deletion.
ReadYourWrites ==
    /\ TypeOK
    /\ \A p \in Procs : proc[p].pc = "got" =>
        IF proc[p].found THEN proc[p].rv >= proc[p].floor
        ELSE proc[p].preset /\ proc[p].floor > 0 => \E i \in proc[p].floor..Last : ~hist[i]

\* A Get with the name set in its object would find it now.
WouldFind == Exists(inf) \/ recent # NoEntry

\* An object that stays deleted is eventually not found any more: the entry
\* in recent that outlives it is purged.
NoGhosts == []<>(Exists(Last) \/ ~WouldFind)
===============================================================================
