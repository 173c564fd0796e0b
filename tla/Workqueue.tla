------------------------------ MODULE Workqueue ------------------------------
(***************************************************************************)
(* The rate limited work queue of client-go (k8s.io/client-go/util/        *)
(* workqueue), as pkg/runtime/controller.go uses it.  It is a library, so  *)
(* the operators are modelled from the calls controller.go makes.          *)
(*                                                                         *)
(* A queue is a record: the FIFO of items waiting for Get, the items that  *)
(* must be handed out (again), the items handed out and not yet Done, the  *)
(* items whose AddAfter delay is running, and the shutdown flag.  Delays   *)
(* are abstracted to "none" (FALSE) and "some" (TRUE).                     *)
(***************************************************************************)
EXTENDS Naturals, Sequences

WQType(K) == [queue : Seq(K), dirty : SUBSET K, processing : SUBSET K,
              delayed : SUBSET K, down : BOOLEAN]

NewQueue == [queue |-> << >>, dirty |-> {}, processing |-> {},
             delayed |-> {}, down |-> FALSE]

\* An item already waiting is not added twice; an item being processed is
\* remembered as dirty and queued by Done.
Add(w, k) ==
    IF w.down \/ k \in w.dirty THEN w
    ELSE [w EXCEPT !.dirty = @ \cup {k},
                   !.queue = IF k \in w.processing THEN @ ELSE Append(@, k)]

AddAfter(w, k, after) ==
    CASE w.down            -> w
      [] ~w.down /\ ~after -> Add(w, k)
      [] ~w.down /\ after  -> [w EXCEPT !.delayed = @ \cup {k}]

\* The delay of item k ends.
Mature(w, k) == Add([w EXCEPT !.delayed = @ \ {k}], k)

Get(w) == [w EXCEPT !.queue = Tail(@),
                    !.dirty = @ \ {Head(w.queue)},
                    !.processing = @ \cup {Head(w.queue)}]

Done(w, k) == [w EXCEPT !.processing = @ \ {k},
                        !.queue = IF k \in w.dirty THEN Append(@, k) ELSE @]

ShutDown(w) == [w EXCEPT !.down = TRUE]
==============================================================================
