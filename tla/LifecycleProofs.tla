--------------------------- MODULE LifecycleProofs ----------------------------
(***************************************************************************)
(* Proofs about the life of a replica: LeaderElection, where with Leases   *)
(* there is one leader, and only a terminating replica reconciles beside   *)
(* it, for any number of replicas, crashes and terminations; and Router,   *)
(* whose health entry tells the truth for any number of changes of the     *)
(* leader.                                                                 *)
(***************************************************************************)
EXTENDS LeaderElection, Router, FiniteSetTheorems, TLAPS

\* The lock does not belong to a leader other than r: r may take it.
MayTake(r) == lock.holder \notin leading \ {r}

\* The record of the Lease names whoever leads.
LeaderHolds == \A r \in leading : lock = Record(r)

\* A replica for which the lease has expired since it looked may take the lock
\* until somebody writes it.
ExpiredOk == \A r \in observed \cap expired : MayTake(r)

\* So may a replica that is about to update the version it has seen.
UpdateOk == \A r \in clean : pc[r] = "update" => MayTake(r)

\* Only a leader releases the lock, and nobody writes files.
ReleaseOk == \A r \in Replicas : /\ pc[r] = "release" => r \in leading
                                 /\ pc[r] \notin {"write", "writeRelease"}

\* The handlers of a replica run while it leads, and after that only until
\* they have drained.
ActiveOk == \A r \in active : r \in leading \/ Terminating(r)

LeaseInv == LeaderHolds /\ ExpiredOk /\ UpdateOk /\ ReleaseOk /\ ActiveOk

\* The inductive invariant.
Inv == TypeOK /\ (lockType = "leases" => LeaseInv)

-------------------------------------------------------------------------------
\* The invariant holds before any replica has tried to get the lock.
LEMMA InitInv == Init => Inv
BY LeaderElectionAssumption
   DEF Init, Inv, TypeOK, LeaseInv, LeaderHolds, ExpiredOk, UpdateOk, ReleaseOk, ActiveOk, NoLock

\* Every step of an elector and of its lock keeps the types.
LEMMA TypeStep == TypeOK /\ [Next]_vars => TypeOK'
<1> SUFFICES ASSUME TypeOK, [Next]_vars PROVE TypeOK'
  OBVIOUS
<1> USE LeaderElectionAssumption DEF TypeOK, Goto
<1>1. CASE UNCHANGED vars
  BY <1>1 DEF vars
<1>2. ASSUME NEW r \in Replicas, Try(r) \/ LeaseExpires(r) \/ StartLeading(r)
      PROVE  TypeOK'
  BY <1>2 DEF Try, LeaseExpires, StartLeading
<1>3. ASSUME NEW r \in Replicas, Get(r)
      PROVE  TypeOK'
  BY <1>3 DEF Get
<1>4. ASSUME NEW r \in Replicas, FileCreate(r) \/ FileUpdate(r)
      PROVE  TypeOK'
  BY <1>4 DEF FileCreate, FileUpdate, Broken
<1>5. ASSUME NEW r \in Replicas, FileWrite(r)
      PROVE  TypeOK'
  BY <1>5 DEF FileWrite, Written, Record, Broken
<1>6. ASSUME NEW r \in Replicas, LeaseCreate(r)
      PROVE  TypeOK'
  BY <1>6 DEF LeaseCreate, Written, Record
<1>7. ASSUME NEW r \in Replicas, LeaseUpdate(r)
      PROVE  TypeOK'
  BY <1>7 DEF LeaseUpdate, Written, Record
<1>8. ASSUME NEW r \in Replicas, Crash(r)
      PROVE  TypeOK'
  BY <1>8 DEF Crash
<1>9. ASSUME NEW r \in Replicas, Restart(r) \/ Cancel(r) \/ Drain(r)
      PROVE  TypeOK'
  BY <1>9 DEF Restart, Cancel, Drain
<1>10. ASSUME NEW r \in Replicas, ReleaseFails(r) \/ Exit(r)
       PROVE  TypeOK'
  BY <1>10 DEF ReleaseFails, Exit
<1>11. QED
  BY <1>1, <1>2, <1>3, <1>4, <1>5, <1>6, <1>7, <1>8, <1>9, <1>10 DEF Next, Elector

\* A replica that writes a lock it may take is the only leader afterwards, and
\* one that releases it leaves none.
LEMMA WrittenStep ==
    ASSUME Inv, LeaseInv, TypeOK', NEW r \in Replicas, NEW releasing \in BOOLEAN,
           MayTake(r), releasing => r \in leading, UNCHANGED <<lockType, expired, active>>,
           lock.state # "record" => leading = {},
           Written(r, Record(IF releasing THEN Nobody ELSE r), releasing)
    PROVE  LeaseInv'
<1> USE DEF Inv, TypeOK, LeaseInv, Written, Goto
<1>1. leading \subseteq {r}
  BY DEF LeaderHolds, MayTake, Record
<1>2. leading' = IF releasing THEN {} ELSE {r}
  BY <1>1
<1>3. lock'.holder \notin leading' \ {r}
  BY <1>2
<1>4. LeaderHolds' /\ ExpiredOk'
  BY <1>2, <1>3 DEF LeaderHolds, ExpiredOk, MayTake
<1>5. UpdateOk'
  BY <1>3 DEF UpdateOk, MayTake
<1>6. ReleaseOk'
  BY <1>1, <1>2 DEF ReleaseOk
<1>7. ActiveOk'
  BY <1>1, <1>2 DEF ActiveOk, Terminating
<1>8. QED
  BY <1>4, <1>5, <1>6, <1>7

\* With Leases every step keeps the leadership with the record.
LEMMA LeaseStep ==
    ASSUME Inv, LeaseInv, lockType = "leases", [Next]_vars, TypeOK'
    PROVE  LeaseInv'
<1> USE LeaderElectionAssumption DEF Inv, TypeOK, Goto
<1> USE DEF LeaseInv, LeaderHolds, ExpiredOk, UpdateOk, ReleaseOk, ActiveOk, MayTake, Terminating
<1>1. CASE UNCHANGED vars
  BY <1>1 DEF vars
<1>2. ASSUME NEW r \in Replicas, Try(r) \/ StartLeading(r)
      PROVE  LeaseInv'
  BY <1>2 DEF Try, StartLeading, Record
<1>3. ASSUME NEW r \in Replicas, LeaseExpires(r)
      PROVE  LeaseInv'
  BY <1>3 DEF LeaseExpires
<1>4. ASSUME NEW r \in Replicas, Get(r)
      PROVE  LeaseInv'
  BY <1>4 DEF Get
<1>5. ASSUME NEW r \in Replicas, FileCreate(r) \/ FileUpdate(r) \/ FileWrite(r)
      PROVE  LeaseInv'
  BY <1>5 DEF FileCreate, FileUpdate, FileWrite
<1>6. ASSUME NEW r \in Replicas, LeaseCreate(r)
      PROVE  LeaseInv'
  <2>1. CASE lock.state = "absent"
    <3>1. leading = {}
      BY <2>1 DEF Record
    <3>2. Written(r, Record(IF FALSE THEN Nobody ELSE r), FALSE)
      BY <1>6, <2>1 DEF LeaseCreate
    <3>3. QED
      BY <1>6, <3>1, <3>2, WrittenStep DEF LeaseCreate
  <2>2. CASE lock.state # "absent"
    BY <1>6, <2>2 DEF LeaseCreate
  <2>3. QED
    BY <2>1, <2>2
<1>7. ASSUME NEW r \in Replicas, LeaseUpdate(r)
      PROVE  LeaseInv'
  <2>1. CASE r \in clean
    <3>1. MayTake(r)
      BY <1>7, <2>1 DEF LeaseUpdate, Record
    <3>2. lock.state # "record" => leading = {}
      BY DEF Record
    <3>3. (pc[r] = "release") \in BOOLEAN /\ (pc[r] = "release" => r \in leading)
      OBVIOUS
    <3>4. Written(r, Record(IF pc[r] = "release" THEN Nobody ELSE r), pc[r] = "release")
      BY <1>7, <2>1 DEF LeaseUpdate
    <3>5. UNCHANGED <<lockType, expired, active>>
      BY <1>7 DEF LeaseUpdate
    <3>6. QED
      BY <3>1, <3>2, <3>3, <3>4, <3>5, WrittenStep
  <2>2. CASE r \notin clean
    <3>1. UNCHANGED <<lock, observed, expired, clean, active>>
      BY <1>7, <2>2 DEF LeaseUpdate
    <3> DEFINE Moves(p) == \/ p = "stopped" /\ leading' = leading \ {r}
                           \/ p \in {"get", "wait"} /\ pc[r] = "update" /\ leading' = leading
    <3>2. \E p : pc' = [pc EXCEPT ![r] = p] /\ Moves(p)
      <4>1. CASE pc[r] = "release"
        BY <1>7, <2>2, <4>1 DEF LeaseUpdate
      <4>2. CASE pc[r] = "update" /\ r \in leading
        BY <1>7, <2>2, <4>2 DEF LeaseUpdate
      <4>3. CASE pc[r] = "update" /\ r \notin leading
        BY <1>7, <2>2, <4>3 DEF LeaseUpdate
      <4>4. QED
        BY <1>7, <4>1, <4>2, <4>3 DEF LeaseUpdate
    <3>3. PICK p : pc' = [pc EXCEPT ![r] = p] /\ Moves(p)
      BY <3>2
    <3>4. \A s \in Replicas : s # r => pc'[s] = pc[s] /\ (s \in leading' <=> s \in leading)
      BY <3>3
    <3>5. pc'[r] = p /\ Moves(p)
      BY <3>3
    <3>6. LeaderHolds' /\ ExpiredOk' /\ UpdateOk'
      BY <3>1, <3>4, <3>5
    <3>7. ReleaseOk' /\ ActiveOk'
      BY <3>1, <3>4, <3>5
    <3>8. QED
      BY <3>6, <3>7
  <2>3. QED
    BY <2>1, <2>2
<1>8. ASSUME NEW r \in Replicas, Crash(r)
      PROVE  LeaseInv'
  BY <1>8 DEF Crash
<1>9. ASSUME NEW r \in Replicas, Restart(r) \/ Cancel(r) \/ Drain(r)
      PROVE  LeaseInv'
  BY <1>9 DEF Restart, Cancel, Drain
<1>10. ASSUME NEW r \in Replicas, ReleaseFails(r) \/ Exit(r)
       PROVE  LeaseInv'
  BY <1>10 DEF ReleaseFails, Exit
<1>11. QED
  BY <1>1, <1>2, <1>3, <1>4, <1>5, <1>6, <1>7, <1>8, <1>9, <1>10 DEF Next, Elector

\* The type of the lock never changes.
LEMMA SameLockType == [Next]_vars => lockType' = lockType
BY DEF Next, vars, Elector, Try, LeaseExpires, Get, StartLeading, FileCreate, FileUpdate, FileWrite,
       LeaseCreate, LeaseUpdate, Crash, Restart, Cancel, ReleaseFails, Exit, Drain

LEMMA NextInv == Inv /\ [Next]_vars => Inv'
BY TypeStep, LeaseStep, SameLockType DEF Inv

-------------------------------------------------------------------------------
(* The theorems                                                            *)

\* The invariant holds in every reachable state.
THEOREM Invariance == Spec => []Inv
BY InitInv, NextInv, PTL DEF Spec

\* The electors of leader.go only reach the control points of TypeOK, with
\* files and with Leases.
THEOREM TypeCorrect == Spec => []TypeOK
<1>1. Inv => TypeOK
  BY DEF Inv
<1>2. QED
  BY Invariance, <1>1, PTL

\* No two electors believe to hold the Lease, whoever crashes, comes back or
\* releases it at whatever moment.
THEOREM UniqueLeader == Spec => []OneLeader
<1>1. Inv => OneLeader
  <2> SUFFICES ASSUME Inv, lockType = "leases" PROVE Cardinality(leading) <= 1
    BY DEF OneLeader
  <2>1. leading = {} \/ \E r \in leading : leading = {r}
    BY DEF Inv, LeaseInv, LeaderHolds, Record
  <2>2. CASE leading = {}
    BY <2>2, FS_EmptySet
  <2>3. ASSUME NEW r, leading = {r} PROVE Cardinality(leading) <= 1
    BY <2>3, FS_Singleton
  <2>4. QED
    BY <2>1, <2>2, <2>3
<1>2. QED
  BY Invariance, <1>1, PTL

\* The handlers of two replicas run at the same time only while one of the two
\* is terminating.
THEOREM UniqueActive == Spec => []OneActive
<1>1. Inv => OneActive
  BY DEF Inv, LeaseInv, LeaderHolds, ActiveOk, OneActive, Record
<1>2. QED
  BY Invariance, <1>1, PTL

-------------------------------------------------------------------------------
(* Router                                                                  *)

\* Every callback for another leader is one change of the leader.
PendingOk == pending <= switches

\* startHandlers runs exactly while it holds startLock; while anybody holds it
\* the entry says that the router is not healthy.
LockOk == /\ startLock = "start" <=> starter = "running"
          /\ startLock # "free" => healthy = "no"

\* A router that has started has loaded its caches.
LoadedOk == /\ starter = "ok" => loaded
            /\ healthy = "yes" => loaded \/ starter = "failed"

\* Nothing has been started before Start, and no handlers before the election.
EarlyOk == /\ proc = "new" => starter = "no" /\ elector = "off"
           /\ elector = "follower" => starter = "no"

\* The inductive invariant.
RouterInv == RouterTypes /\ EarlyOk /\ PendingOk /\ LockOk /\ LoadedOk

-------------------------------------------------------------------------------
LEMMA RouterInitInv ==
    ASSUME RouterInit
    PROVE  RouterInv
<1>1. switches \in 0..MaxSwitches /\ pending \in 0..MaxSwitches /\ PendingOk
  BY RouterAssumption DEF RouterInit, PendingOk
<1>2. RouterTypes
  BY <1>1 DEF RouterInit, RouterTypes
<1>3. EarlyOk /\ LockOk /\ LoadedOk
  BY DEF RouterInit, EarlyOk, LockOk, LoadedOk
<1>4. QED
  BY <1>1, <1>2, <1>3 DEF RouterInv

\* One step per action.
LEMMA RouterNextInv ==
    ASSUME RouterInv, [RouterNext]_routerVars
    PROVE  RouterInv'
<1> USE RouterAssumption DEF RouterInv, RouterTypes, EarlyOk, PendingOk, LockOk, LoadedOk
<1>1. CASE UNCHANGED routerVars
  BY <1>1 DEF routerVars
<1>2. CASE Start
  BY <1>2 DEF Start
<1>3. CASE CancelContext
  BY <1>3 DEF CancelContext
<1>4. CASE Elected
  BY <1>4 DEF Elected
<1>5. CASE OtherElected
  BY <1>5 DEF OtherElected
<1>6. CASE LeaseLost
  BY <1>6 DEF LeaseLost
<1>7. CASE Done
  BY <1>7 DEF Done
<1>8. CASE StartHandlers
  BY <1>8 DEF StartHandlers
<1>9. CASE Started
  BY <1>9 DEF Started
<1>10. CASE StartFailed
  BY <1>10 DEF StartFailed
<1>11. CASE ReportFailure
  BY <1>11 DEF ReportFailure
<1>12. CASE SwitchBegin
  BY <1>12 DEF SwitchBegin
<1>13. CASE Preloaded
  BY <1>13 DEF Preloaded
<1>14. CASE PreloadFailed
  BY <1>14 DEF PreloadFailed
<1>15. CASE StartError
  BY <1>15 DEF StartError
<1>16. QED
  BY <1>1, <1>2, <1>3, <1>4, <1>5, <1>6, <1>7, <1>8, <1>9, <1>10, <1>11, <1>12, <1>13, <1>14, <1>15
     DEF RouterNext, Callbacks

-------------------------------------------------------------------------------
\* The invariant holds in every reachable state.
THEOREM RouterInvariance == RouterSpec => []RouterInv
<1>1. RouterInit => RouterInv
  BY RouterInitInv
<1>2. RouterInv /\ [RouterNext]_routerVars => RouterInv'
  BY RouterNextInv
<1>3. QED
  BY <1>1, <1>2, PTL DEF RouterSpec

\* The router reports healthy only when its caches are loaded and startHandlers
\* is not running, unless the start has failed, for every order of the callbacks
\* of the election.
THEOREM HealthTellsTheTruth == RouterSpec => []HealthyMeansReady
<1>1. RouterInv => HealthyMeansReady
  BY DEF RouterInv, LockOk, LoadedOk, HealthyMeansReady, RouterTypes
<1>2. RouterSpec => []RouterInv
  BY RouterInvariance
<1>3. QED
  BY <1>1, <1>2, PTL
===============================================================================
