-------------------------------- MODULE Router --------------------------------
(***************************************************************************)
(* The lifecycle of one Router, pkg/router/router.go and healthz.go:       *)
(* Start, with or without leader election, the callbacks of the election   *)
(* (startHandlers, the preload of a follower, done), the health it reports *)
(* and the channel Stopped returns.  The election decides when this        *)
(* replica leads; OnStartedLeading and OnNewLeader run in goroutines of    *)
(* their own.                                                              *)
(***************************************************************************)
EXTENDS Naturals

CONSTANTS MayFail,     \* whether starting the handlers can fail
          MaxSwitches  \* bound: changes of the leader to another replica

ASSUME RouterAssumption ==
    MayFail \in BOOLEAN /\ MaxSwitches \in Nat

VARIABLES
    election,  \* whether there is an ElectionConfig
    proc,      \* the process: new, running, returned (Start failed) or dead
    ctxDone,   \* the context of Start is cancelled
    elector,   \* the elector goroutine: off, follower, leader, ended
    switches,  \* changes to another leader so far
    pending,   \* OnNewLeader goroutines that have yet to take startLock
    startLock, \* holder of r.startLock: free, start or switch
    starter,   \* startHandlers: no, waiting, running, ok, failed
    healthy,   \* healths[r.name]: unset, no or yes
    stopped,   \* the channel r.signalStopped that New makes: open or closed
    loaded     \* the caches have been preloaded or started

routerVars == <<election, proc, ctxDone, elector, switches, pending, startLock, starter, healthy,
          stopped, loaded>>

RouterInit ==
    /\ election \in BOOLEAN
    /\ proc = "new" /\ ctxDone = FALSE
    /\ elector = "off" /\ switches = 0 /\ pending = 0
    /\ startLock = "free" /\ starter = "no"
    /\ healthy = "unset" /\ stopped = "open"
    /\ loaded = FALSE

Alive == proc # "dead"

\* Start: without an ElectionConfig startHandlers is called directly, else
\* the elector goroutine is started.
Start ==
    /\ proc = "new"
    /\ proc' = "running"
    /\ IF election THEN elector' = "follower" /\ UNCHANGED starter
       ELSE starter' = "waiting" /\ UNCHANGED elector
    /\ UNCHANGED <<election, ctxDone, switches, pending, startLock, healthy, stopped, loaded>>

\* Start returns an error before anything runs: of os.Hostname, or in Run of
\* the lock or of NewLeaderElector.
StartError ==
    /\ proc = "new"
    /\ MayFail
    /\ proc' = "returned"
    /\ UNCHANGED <<election, ctxDone, elector, switches, pending, startLock, starter, healthy, stopped, loaded>>

CancelContext ==
    /\ proc # "new" /\ Alive
    /\ ~ctxDone
    /\ ctxDone' = TRUE
    /\ UNCHANGED <<election, proc, elector, switches, pending, startLock, starter, healthy, stopped, loaded>>

-------------------------------------------------------------------------------
(* The elector (external)                                                  *)

\* This replica becomes the leader: OnStartedLeading.
Elected ==
    /\ Alive /\ elector = "follower" /\ ~ctxDone
    /\ elector' = "leader"
    /\ starter' = "waiting"
    /\ UNCHANGED <<election, proc, ctxDone, switches, pending, startLock, healthy, stopped, loaded>>

\* Another replica is seen to lead: OnNewLeader.
OtherElected ==
    /\ Alive /\ elector = "follower"
    /\ switches < MaxSwitches
    /\ switches' = switches + 1
    /\ pending' = pending + 1
    /\ UNCHANGED <<election, proc, ctxDone, elector, startLock, starter, healthy, stopped, loaded>>

\* The lease is lost: log.Fatalf.
LeaseLost ==
    /\ Alive /\ elector = "leader" /\ ~ctxDone
    /\ proc' = "dead"
    /\ UNCHANGED <<election, ctxDone, elector, switches, pending, startLock, starter, healthy, stopped, loaded>>

\* Mutant: done closes the channel only after a successful start.
DoneWithoutClose ==
    /\ Alive /\ elector \in {"follower", "leader"} /\ ctxDone
    /\ startLock = "free"
    /\ elector' = "ended"
    /\ stopped' = IF starter = "ok" THEN "closed" ELSE stopped
    /\ UNCHANGED <<election, proc, ctxDone, switches, pending, startLock, starter, healthy, loaded>>

\* The context is done: OnStoppedLeading calls done, which waits for
\* startLock and closes the channel.
Done ==
    /\ Alive /\ elector \in {"follower", "leader"} /\ ctxDone
    /\ startLock = "free"
    /\ elector' = "ended"
    /\ stopped' = "closed"
    /\ UNCHANGED <<election, proc, ctxDone, switches, pending, startLock, starter, healthy, loaded>>

-------------------------------------------------------------------------------
(* startHandlers                                                           *)

StartHandlers ==
    /\ Alive /\ starter = "waiting"
    /\ startLock = "free"
    /\ startLock' = "start"
    /\ starter' = "running"
    /\ healthy' = "no"
    /\ UNCHANGED <<election, proc, ctxDone, elector, switches, pending, stopped, loaded>>

\* handlers.Start succeeds and the post starts run.
Started ==
    /\ Alive /\ starter = "running"
    /\ loaded' = TRUE
    /\ healthy' = "yes"
    /\ starter' = "ok"
    /\ startLock' = "free"
    /\ UNCHANGED <<election, proc, ctxDone, elector, switches, pending, stopped>>

\* handlers.Start fails.  "defer setHealthy(r.name, err == nil)" has taken
\* the value of err when the defer statement was executed.
StartFailed ==
    /\ Alive /\ starter = "running"
    /\ MayFail
    /\ healthy' = "yes"
    /\ starter' = "failed"
    /\ startLock' = "free"
    /\ UNCHANGED <<election, proc, ctxDone, elector, switches, pending, stopped, loaded>>

\* The error of startHandlers: the leader callback calls log.Fatalf, a Start
\* without election returns it.
ReportFailure ==
    /\ proc = "running" /\ starter = "failed"
    /\ proc' = IF election THEN "dead" ELSE "returned"
    /\ UNCHANGED <<election, ctxDone, elector, switches, pending, startLock, starter, healthy, stopped, loaded>>

-------------------------------------------------------------------------------
(* The callback for a new leader that is another replica                   *)

\* Mutant: the callback does not take startLock.
SwitchBeginUnlocked ==
    /\ Alive /\ pending > 0
    /\ startLock # "switch"
    /\ startLock' = "switch"
    /\ pending' = pending - 1
    /\ healthy' = "no"
    /\ UNCHANGED <<election, proc, ctxDone, elector, switches, starter, stopped, loaded>>

\* The callback of Start for a new leader: takes startLock, not healthy.
SwitchBegin ==
    /\ Alive /\ pending > 0
    /\ startLock = "free"
    /\ startLock' = "switch"
    /\ pending' = pending - 1
    /\ healthy' = "no"
    /\ UNCHANGED <<election, proc, ctxDone, elector, switches, starter, stopped, loaded>>

\* Preload succeeds.
Preloaded ==
    /\ Alive /\ startLock = "switch"
    /\ loaded' = TRUE
    /\ healthy' = "yes"
    /\ startLock' = "free"
    /\ UNCHANGED <<election, proc, ctxDone, elector, switches, pending, starter, stopped>>

\* Preload fails: log.Fatalf.
PreloadFailed ==
    /\ Alive /\ startLock = "switch"
    /\ MayFail
    /\ proc' = "dead"
    /\ UNCHANGED <<election, ctxDone, elector, switches, pending, startLock, starter, healthy, stopped, loaded>>

-------------------------------------------------------------------------------
Callbacks ==
    \/ StartHandlers \/ Started \/ StartFailed \/ ReportFailure
    \/ SwitchBegin \/ Preloaded \/ PreloadFailed

RouterNext ==
    \/ Start \/ StartError \/ CancelContext \/ Elected \/ OtherElected \/ LeaseLost \/ Done
    \/ Callbacks

\* The elector ends and the callbacks run; nobody has to cancel, and this
\* replica does not have to be elected.
RouterFairness == WF_routerVars(Callbacks) /\ SF_routerVars(Done)

RouterSpec == RouterInit /\ [][RouterNext]_routerVars
FairRouterSpec == RouterSpec /\ RouterFairness

-------------------------------------------------------------------------------
(* Properties                                                              *)

\* The values of the router's fields; in particular every callback for a new
\* leader runs once, and the lock and the channel have only these states.
RouterTypes ==
    /\ election \in BOOLEAN
    /\ proc \in {"new", "running", "returned", "dead"}
    /\ ctxDone \in BOOLEAN
    /\ elector \in {"off", "follower", "leader", "ended"}
    /\ switches \in 0..MaxSwitches /\ pending \in 0..MaxSwitches
    /\ startLock \in {"free", "start", "switch"}
    /\ starter \in {"no", "waiting", "running", "ok", "failed"}
    /\ healthy \in {"unset", "no", "yes"}
    /\ stopped \in {"open", "closed"}
    /\ loaded \in BOOLEAN

\* Besides the types: unless its start has failed, the router reports healthy
\* only when its caches are loaded and the handlers are not just being
\* started, whatever order the callbacks of the election come in.
HealthyMeansReady ==
    /\ RouterTypes
    /\ healthy = "yes" /\ starter # "failed" => loaded /\ starter # "running"

\* "not ready until the controller is started and caches are ready": a router
\* whose handlers failed to start does not report healthy.
FailedIsUnhealthy == starter = "failed" => healthy # "yes"

\* Once the elector runs, the channel of Stopped is closed after the end of the
\* context: done waits for startLock, and neither a starting leader nor a
\* follower that preloads nor a failure of theirs keeps it from being called.
StoppedCloses ==
    (elector # "off" /\ ctxDone /\ stopped = "open") ~> (stopped = "closed" \/ ~Alive)
===============================================================================
