------------------------- MODULE ControllerRefinement -------------------------
(* The controller, with its queues, dispatchers and workers, is a Reconciler. *)
EXTENDS Controller

Phase == IF \E n \in Starts : ctxDone[n] THEN "stopped" ELSE IF started THEN "serving" ELSE "new"
Due == {k \in Keys : handled[k] # want[k] \/ Pending(k)}
InHandler == {worker[g].key : g \in {h \in Goroutines : worker[h].pc = "sync"}}

Abstract == INSTANCE Reconciler WITH phase <- Phase, due <- Due, busy <- InHandler

\* One call of Start with all its goroutines does what a Reconciler does: no
\* interleaving of the informer, the callers of the enqueue methods, run, the
\* dispatchers and the workers loses a key, hands a key to two invocations of
\* the handler or forgets a failure, and nothing that is due waits for ever.
ImplementsReconciler == Abstract!Spec
===============================================================================
