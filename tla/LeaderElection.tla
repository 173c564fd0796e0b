--------------------------- MODULE LeaderElection ---------------------------
(***************************************************************************)
(* Leader election as pkg/leader/leader.go configures it, with the file    *)
(* lock of pkg/leader/locks/file.go or a Lease object as the lock.  The    *)
(* elector itself is client-go's (external): a candidate that finds no     *)
(* lock creates it, one that finds the lock of a holder who has not        *)
(* renewed it for the lease duration, or has released it, updates it, and  *)
(* a leader keeps updating it without reading it first.                    *)
(*                                                                         *)
(* Time is abstracted to its effect: a candidate finds the lease expired   *)
(* only when the lock has not changed since it looked and its holder does  *)
(* not lead any more.                                                      *)
(***************************************************************************)
EXTENDS Naturals, FiniteSets

CONSTANTS Replicas,
          Nobody,      \* the holder in a released lock
          LockTypes,   \* the ResourceLockTypes to check
          MaxCrashes,  \* bound: crashes
          MaxCancels   \* bound: terminations and leaderships that are lost

ASSUME LeaderElectionAssumption ==
    /\ Nobody \notin Replicas
    /\ LockTypes \subseteq {"file", "leases"}
    /\ MaxCrashes \in Nat /\ MaxCancels \in Nat

VARIABLES
    lockType, \* ec.ResourceLockType, "file" or "leases"
    lock,     \* the lock: its state and holder
    pc,       \* control point of the elector of every replica
    observed, \* the replicas whose last Get returned the lock as it is now
    expired,  \* the replicas for which the observed lease has expired
    clean,    \* leases: the replicas whose resource version is up to date
    leading,  \* the replicas that lead, as far as their elector knows
    active,   \* the replicas whose handlers run
    crashes, cancels

vars == <<lockType, lock, pc, observed, expired, clean, leading, active, crashes, cancels>>

NoLock == [state |-> "absent", holder |-> Nobody]
Record(h) == [state |-> "record", holder |-> h]
Broken == [state |-> "broken", holder |-> Nobody]  \* not a JSON document

Running(r) == pc[r] \notin {"dead", "stopped"}

Init ==
    /\ lockType \in LockTypes
    /\ lock = NoLock
    /\ pc = [r \in Replicas |-> "wait"]
    /\ observed = {} /\ expired = {} /\ clean = {}
    /\ leading = {}
    /\ active = {}
    /\ crashes = 0 /\ cancels = 0

Goto(r, p) == pc' = [pc EXCEPT ![r] = p]

-------------------------------------------------------------------------------
(* The elector (external)                                                  *)

\* tryAcquireOrRenew: a leader goes straight to Update, others Get first.
Try(r) ==
    /\ pc[r] = "wait"
    /\ Goto(r, IF r \in leading THEN "update" ELSE "get")
    /\ UNCHANGED <<lockType, lock, observed, expired, clean, leading, active, crashes, cancels>>

\* The lease of a holder that is gone runs out.
LeaseExpires(r) ==
    /\ Running(r)
    /\ r \in observed
    /\ lock.state = "record"
    /\ lock.holder \notin leading \cup {r}
    /\ expired' = expired \cup {r}
    /\ UNCHANGED <<lockType, lock, pc, observed, clean, leading, active, crashes, cancels>>

\* Get: a lock that changed starts the lease duration again.
Get(r) ==
    /\ pc[r] = "get"
    /\ Goto(r, CASE lock.state = "absent" -> "create"
                 [] lock.state = "broken" -> "wait"
                 [] lock.state = "record" ->
                      IF lock.holder \in {Nobody, r} \/ (r \in observed /\ r \in expired)
                      THEN "update" ELSE "wait")
    /\ observed' = IF lock.state = "record" THEN observed \cup {r} ELSE observed
    /\ expired' = IF r \in observed THEN expired ELSE expired \ {r}
    /\ clean' = IF lock.state = "record" THEN clean \cup {r} ELSE clean
    /\ UNCHANGED <<lockType, lock, leading, active, crashes, cancels>>

\* Replica r has written the lock: every other replica has an old view of
\* it.  A release ends its leadership, any other write begins or renews it.
Written(r, new, releasing) ==
    /\ lock' = new
    /\ observed' = observed \cap {r}
    /\ clean' = {r}
    /\ leading' = IF releasing THEN leading \ {r} ELSE leading \cup {r}
    /\ Goto(r, IF releasing THEN "stopped" ELSE "wait")

\* The elector runs OnStartedLeading, which starts the handlers.
StartLeading(r) ==
    /\ Running(r)
    /\ r \in leading \ active
    /\ active' = active \cup {r}
    /\ UNCHANGED <<lockType, lock, pc, observed, expired, clean, leading, crashes, cancels>>

-------------------------------------------------------------------------------
(* The locks                                                               *)

\* Mutant: the new file is left empty.
FileCreateEmpty(r) ==
    /\ lockType = "file"
    /\ pc[r] = "create"
    /\ lock' = IF lock.state = "absent" THEN Broken ELSE lock
    /\ Goto(r, "wait")
    /\ UNCHANGED <<lockType, observed, expired, clean, leading, active, crashes, cancels>>

\* Create of the file lock opens the file with O_EXCL: it fails if the file
\* exists, and leaves it empty if it does not.
FileCreate(r) ==
    /\ lockType = "file"
    /\ pc[r] = "create"
    /\ IF lock.state = "absent" THEN lock' = Broken /\ Goto(r, "write")
       ELSE Goto(r, "wait") /\ UNCHANGED lock
    /\ UNCHANGED <<lockType, observed, expired, clean, leading, active, crashes, cancels>>

\* Update opens it with O_TRUNC, whoever wrote it last.
FileUpdate(r) ==
    /\ lockType = "file"
    /\ pc[r] \in {"update", "release"}
    /\ lock' = Broken
    /\ Goto(r, IF pc[r] = "update" THEN "write" ELSE "writeRelease")
    /\ UNCHANGED <<lockType, observed, expired, clean, leading, active, crashes, cancels>>

\* The record is written at the start of the file.  When another replica has
\* written since it was opened, the end of a longer record may be left over.
FileWrite(r) ==
    /\ pc[r] \in {"write", "writeRelease"}
    /\ LET releasing == pc[r] = "writeRelease"
       IN  \/ Written(r, Record(IF releasing THEN Nobody ELSE r), releasing)
           \/ lock.state = "record" /\ Written(r, Broken, releasing)
    /\ UNCHANGED <<lockType, expired, active, crashes, cancels>>

\* Mutant: a Lease that exists is replaced.
LeaseCreateAlways(r) ==
    /\ lockType = "leases"
    /\ pc[r] = "create"
    /\ Written(r, Record(r), FALSE)
    /\ UNCHANGED <<lockType, expired, active, crashes, cancels>>

\* A Lease is created once, ...
LeaseCreate(r) ==
    /\ lockType = "leases"
    /\ pc[r] = "create"
    /\ IF lock.state = "absent" THEN Written(r, Record(r), FALSE)
       ELSE Goto(r, "wait") /\ UNCHANGED <<lock, observed, clean, leading>>
    /\ UNCHANGED <<lockType, expired, active, crashes, cancels>>

\* Mutant: the version is not compared.
LeaseUpdateAlways(r) ==
    /\ lockType = "leases"
    /\ pc[r] \in {"update", "release"}
    /\ LET releasing == pc[r] = "release"
       IN  Written(r, Record(IF releasing THEN Nobody ELSE r), releasing)
    /\ UNCHANGED <<lockType, expired, active, crashes, cancels>>

\* ... and updated only in the version that the replica has last seen.
LeaseUpdate(r) ==
    /\ lockType = "leases"
    /\ pc[r] \in {"update", "release"}
    /\ LET releasing == pc[r] = "release"
       IN  IF r \in clean THEN Written(r, Record(IF releasing THEN Nobody ELSE r), releasing)
           ELSE /\ leading' = IF releasing THEN leading \ {r} ELSE leading
                /\ Goto(r, IF releasing THEN "stopped" ELSE IF r \in leading THEN "get" ELSE "wait")
                /\ UNCHANGED <<lock, observed, clean>>
    /\ UNCHANGED <<lockType, expired, active, crashes, cancels>>

-------------------------------------------------------------------------------
(* The ends of a replica                                                   *)

\* The process dies.
Crash(r) ==
    /\ crashes < MaxCrashes
    /\ Running(r)
    /\ crashes' = crashes + 1
    /\ Goto(r, "dead")
    /\ observed' = observed \ {r} /\ expired' = expired \ {r} /\ clean' = clean \ {r}
    /\ leading' = leading \ {r}
    /\ active' = active \ {r}
    /\ UNCHANGED <<lockType, lock, cancels>>

\* A new process for the replica: it knows nothing of the lock.
Restart(r) ==
    /\ pc[r] = "dead"
    /\ Goto(r, "wait")
    /\ UNCHANGED <<lockType, lock, observed, expired, clean, leading, active, crashes, cancels>>

\* Mutant: whoever is cancelled releases the lock.
CancelReleases(r) ==
    /\ cancels < MaxCancels
    /\ pc[r] = "wait"
    /\ cancels' = cancels + 1
    /\ Goto(r, "release")
    /\ UNCHANGED <<lockType, lock, observed, expired, clean, leading, active, crashes>>

\* The context of Router.Start is cancelled between two attempts, or a leader
\* could not renew the lock in time.  In both cases ReleaseOnCancel makes a
\* leader release the lock before OnStoppedLeading, ...
Cancel(r) ==
    /\ cancels < MaxCancels
    /\ pc[r] = "wait"
    /\ cancels' = cancels + 1
    /\ Goto(r, IF r \in leading THEN "release" ELSE "stopped")
    /\ UNCHANGED <<lockType, lock, observed, expired, clean, leading, active, crashes>>

\* ... if it can.
ReleaseFails(r) ==
    /\ pc[r] = "release"
    /\ leading' = leading \ {r}
    /\ Goto(r, "stopped")
    /\ UNCHANGED <<lockType, lock, observed, expired, clean, active, crashes, cancels>>

\* OnStoppedLeading calls log.Fatalf if the context has not been cancelled;
\* else the process exits when it likes, its handlers drained or not.
Exit(r) ==
    /\ pc[r] = "stopped"
    /\ Goto(r, "dead")
    /\ observed' = observed \ {r} /\ expired' = expired \ {r} /\ clean' = clean \ {r}
    /\ active' = active \ {r}
    /\ UNCHANGED <<lockType, lock, leading, crashes, cancels>>

\* The controllers of a replica whose context is cancelled finish the keys
\* their workers are processing and stop.
Drain(r) ==
    /\ r \in active
    /\ pc[r] \in {"release", "writeRelease", "stopped"}
    /\ active' = active \ {r}
    /\ UNCHANGED <<lockType, lock, pc, observed, expired, clean, leading, crashes, cancels>>

-------------------------------------------------------------------------------
Elector(r) ==
    \/ Try(r) \/ Get(r) \/ StartLeading(r)
    \/ FileCreate(r) \/ FileUpdate(r) \/ FileWrite(r)
    \/ LeaseCreate(r) \/ LeaseUpdate(r)

Next == \E r \in Replicas :
    \/ Elector(r) \/ LeaseExpires(r)
    \/ Crash(r) \/ Restart(r) \/ Cancel(r) \/ ReleaseFails(r) \/ Exit(r) \/ Drain(r)

\* Electors retry, leases of dead holders expire, and dead replicas come back.
Fairness ==
    \A r \in Replicas : WF_vars(Elector(r)) /\ WF_vars(LeaseExpires(r)) /\ WF_vars(Restart(r))

Spec == Init /\ [][Next]_vars
FairSpec == Spec /\ Fairness

-------------------------------------------------------------------------------
(* Properties                                                              *)

\* The lock, the control points of the electors and what they know; only a
\* leader releases the lock, and who is not there does not lead.
TypeOK ==
    /\ lockType \in LockTypes
    /\ lock \in [state : {"absent", "broken", "record"}, holder : Replicas \cup {Nobody}]
    /\ pc \in [Replicas -> {"wait", "get", "create", "update", "write", "release",
                            "writeRelease", "dead", "stopped"}]
    /\ observed \subseteq Replicas /\ expired \subseteq Replicas /\ clean \subseteq Replicas
    /\ leading \subseteq Replicas /\ active \subseteq Replicas
    /\ \A r \in Replicas : /\ pc[r] \in {"release", "writeRelease"} => r \in leading
                           /\ pc[r] \in {"dead", "stopped"} => r \notin leading
    /\ crashes \in 0..MaxCrashes /\ cancels \in 0..MaxCancels

\* No two electors believe to hold a Lease at the same time.
OneLeader == lockType = "leases" => Cardinality(leading) <= 1

Terminating(r) == pc[r] \in {"release", "writeRelease", "stopped"}

\* With a Lease no two replicas reconcile at the same time, but for the keys
\* that the workers of a terminating replica are still processing when it has
\* released the lock (ReleaseOnCancel).
OneActive ==
    lockType = "leases" =>
        \A r, s \in active : r = s \/ Terminating(r) \/ Terminating(s)

NoneRunning == \A r \in Replicas : ~Running(r)

\* A lock file that a crash left without a record.
TornFile == lockType = "file" /\ crashes > 0 /\ lock.state = "broken"

\* As long as a replica runs that is not being terminated, there is a leader
\* again and again, whatever the replicas overwrite and truncate of each other;
\* only a crash in the middle of a write of the lock file can end this.
LeaderAgain == []<>(leading # {} \/ NoneRunning \/ TornFile)
=============================================================================
