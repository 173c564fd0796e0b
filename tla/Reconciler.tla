------------------------------ MODULE Reconciler ------------------------------
(***************************************************************************)
(* What a controller promises to its handler, without queues, workers and  *)
(* locks: a key that is due is handled, by one invocation at a time, and a *)
(* failure makes it due again.                                             *)
(***************************************************************************)
EXTENDS Naturals

CONSTANT Keys

VARIABLES
    phase,  \* new, serving or stopped
    due,    \* the keys that need an invocation of the handler
    busy    \* the keys an invocation of the handler is working on

vars == <<phase, due, busy>>

Init == phase = "new" /\ due = {} /\ busy = {}

\* Objects change and keys are enqueued at any time, before the start too.
Demand == due \subseteq due' /\ due' \subseteq Keys /\ UNCHANGED <<phase, busy>>

Serve == phase = "new" /\ phase' = "serving" /\ UNCHANGED <<due, busy>>

Stop == phase # "stopped" /\ phase' = "stopped" /\ UNCHANGED <<due, busy>>

\* The invocation sees all there was to see.  The key may stay due: what was
\* demanded in the meantime is worth an invocation of its own.
Begin(k) ==
    /\ phase # "new"
    /\ k \in due \ busy
    /\ busy' = busy \cup {k}
    /\ due' \in {due, due \ {k}}
    /\ UNCHANGED phase

End(k) == k \in busy /\ busy' = busy \ {k} /\ UNCHANGED <<phase, due>>

Fail(k) == k \in busy /\ busy' = busy \ {k} /\ due' = due \cup {k} /\ UNCHANGED phase

\* Only a controller that is being stopped forgets what is due.
Drop == phase = "stopped" /\ due' \subseteq due /\ UNCHANGED <<phase, busy>>

Next ==
    \/ Demand \/ Serve \/ Stop \/ Drop
    \/ \E k \in Keys : Begin(k) \/ End(k) \/ Fail(k)

\* While it serves, it gets to every key that is due.
Liveness == \A k \in Keys : phase = "serving" /\ k \in due ~> k \in busy \/ phase = "stopped"

Safety == Init /\ [][Next]_vars
Spec == Safety /\ Liveness
===============================================================================
