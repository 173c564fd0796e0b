------------------------------ MODULE Watcher -------------------------------
(* pkg/watcher, ByObject: a caller waits until the object is as it wants it: *)
(* a List, and then a watch that is opened again from the last revision as   *)
(* often as necessary.                                                       *)
(*                                                                           *)
(*   w          the locals of bySelector, retryWatch and doWatch             *)
(*   compacted  the history the server does not have any more                *)
(*   acked      how far the callback has handled the history                 *)
(*                                                                           *)
(* An entry "other" of the history is a change of another object: the watch  *)
(* does not send it, and it moves the revision of the server.                *)
EXTENDS ObjectServer

CONSTANT MaxChanges

VARIABLES w, compacted, acked

watchVars == <<log, events, w, compacted, acked>>

Own(n) == log[n].type # "other"

\* The caller waits for the deletion.
Want(o) == o.deleting /\ o.fins = <<>>

\* Mutant: the object of a deletion is handed on as it is.
EventObjectAsIs(e) == e.obj

\* doWatch gives a deleted object a deletion timestamp and takes its finalizers
\* away.
EventObject(e) == IF e.type = "deleted" THEN [e.obj EXCEPT !.deleting = TRUE, !.fins = <<>>] ELSE e.obj

Returned(result) == w' = [w EXCEPT !.pc = "returned", !.result = result]

\* bySelector: the callback gets what is there, then the watch begins at the
\* revision of the list.
List ==
    /\ w.pc = "list"
    /\ IF Current # Absent /\ Want(Current) THEN Returned("done")
       ELSE w' = [w EXCEPT !.pc = "open", !.rev = Len(log)]
    /\ acked' = Len(log)
    /\ UNCHANGED <<log, events, compacted>>

\* doWatch: a revision that is gone is the end ...
Open ==
    /\ w.pc = "open"
    /\ IF w.rev < compacted THEN Returned("gone")
       ELSE w' = [w EXCEPT !.pc = "watch", !.last = w.rev, !.pos = w.rev]
    /\ UNCHANGED <<log, events, compacted, acked>>

\* ... and another error is tried again.
OpenFails ==
    /\ w.pc = "open"
    /\ Event
    /\ w' = [w EXCEPT !.pc = "wait", !.last = w.rev]
    /\ UNCHANGED <<log, compacted, acked>>

\* The next change of the object is given to the callback ...
Receive ==
    /\ w.pc = "watch"
    /\ \E n \in w.pos + 1 .. Len(log) :
          /\ Own(n) /\ \A k \in w.pos + 1 .. n - 1 : ~Own(k)
          /\ w' = [w EXCEPT !.pc = "cb", !.pos = n]
    /\ UNCHANGED <<log, events, compacted, acked>>

\* ... which has seen enough or waits for the next one.
Callback ==
    /\ w.pc = "cb"
    /\ IF Want(EventObject(log[w.pos])) THEN Returned("done")
       ELSE w' = [w EXCEPT !.pc = "watch", !.last = w.pos]
    /\ acked' = w.pos
    /\ UNCHANGED <<log, events, compacted>>

\* Mutant: the revision is taken from the event before the callback is asked.
ConflictAdvances ==
    /\ w.pc = "cb"
    /\ Event
    /\ w' = [w EXCEPT !.pc = "wait", !.last = w.pos]
    /\ UNCHANGED <<log, compacted, acked>>

\* A conflict in the callback: it gets the change again.
Conflict ==
    /\ w.pc = "cb"
    /\ Event
    /\ w' = [w EXCEPT !.pc = "wait"]
    /\ UNCHANGED <<log, compacted, acked>>

\* The server says how far it is when it has nothing to send.
Bookmark ==
    /\ w.pc = "watch" /\ w.last # Len(log)
    /\ \A k \in w.pos + 1 .. Len(log) : ~Own(k)
    /\ w' = [w EXCEPT !.pos = Len(log), !.last = Len(log)]
    /\ acked' = Len(log)
    /\ UNCHANGED <<log, events, compacted>>

\* The watch ends, by a timeout of the server or a broken connection.
Closed ==
    /\ w.pc = "watch"
    /\ Event
    /\ w' = [w EXCEPT !.pc = "wait"]
    /\ UNCHANGED <<log, compacted, acked>>

\* retryWatch opens the next watch after two seconds.
Again ==
    /\ w.pc = "wait"
    /\ w' = [w EXCEPT !.pc = "open", !.rev = w.last]
    /\ UNCHANGED <<log, events, compacted, acked>>

\* An error of the list or of the callback, an error event and the end of the
\* context are terminal.
Terminal ==
    /\ w.pc # "returned"
    /\ Event
    /\ Returned("error")
    /\ UNCHANGED <<log, compacted, acked>>

Compact ==
    /\ compacted < Len(log)
    /\ Event
    /\ compacted' = Len(log)
    /\ UNCHANGED <<log, w, acked>>

\* What users and controllers do to the object or to another one, up to
\* MaxChanges.
Change(o) ==
    /\ Len(log) < MaxChanges
    /\ LET type == IF o = Current THEN "other" ELSE IF o = Absent THEN "deleted"
                   ELSE IF Current = Absent THEN "added" ELSE "modified"
       IN log' = Append(log, [type |-> type, obj |-> IF o = Absent THEN Current ELSE o])
    /\ UNCHANGED <<events, w, compacted, acked>>

Object(deleting) == [deleting |-> deleting, fins |-> <<"f">>]
Objects == {Absent, Object(FALSE), Object(TRUE)}

\* rev is the revision retryWatch starts a watch from, last the lastRevision of
\* doWatch, pos how far the watch is.
WatchInit ==
    /\ log = <<[type |-> "added", obj |-> Object(FALSE)]>> /\ events = 0
    /\ w = [pc |-> "list", rev |-> 0, last |-> 0, pos |-> 0, result |-> "none"]
    /\ compacted = 0 /\ acked = 0

Waiting == List \/ Open \/ Receive \/ Callback \/ Bookmark \/ Again
WatchNext == Waiting \/ OpenFails \/ Conflict \/ Closed \/ Terminal \/ Compact \/ \E o \in Objects : Change(o)

\* The client, its callback and its connection make progress.
WatchSpec == WatchInit /\ [][WatchNext]_watchVars
FairWatchSpec == WatchSpec /\ WF_watchVars(Waiting)

-------------------------------------------------------------------------------
(* Properties                                                              *)

\* The types of the variables; the revision retryWatch goes on from is never
\* ahead of what the callback has handled.
WatchTypes ==
    /\ w.pc \in {"list", "open", "watch", "cb", "wait", "returned"}
    /\ w.result \in {"none", "done", "gone", "error"}
    /\ \A n \in {w.rev, w.pos, w.last, compacted} : n \in 0..Len(log)
    /\ acked \in w.last..Len(log)

\* Besides the types: over all the watches retryWatch opens, after conflicts,
\* lost connections and bookmarks, the callback gets every change in its order,
\* none is left out and none it has handled comes again.
ExactlyOnce ==
    /\ WatchTypes
    /\ w.pc = "cb" => w.pos > acked /\ \A k \in acked + 1 .. w.pos - 1 : ~Own(k)

\* A caller that has seen the object is told of its deletion, even when the
\* object was removed with finalizers or is back already; or it is told that
\* the history is gone or the watch has failed.
DeletionReported == ObjectAt(acked) # Absent /\ Current = Absent ~> w.pc = "returned"
=============================================================================
