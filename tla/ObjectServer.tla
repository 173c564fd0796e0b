---------------------------- MODULE ObjectServer ----------------------------
(* The API server as the handlers of pkg/router and pkg/watcher use it: the  *)
(* history of one object.  Its resource version is its place in the history. *)
(* A content has the fields ver, gen, spec, cond, deleting, fins, label: the *)
(* version and generation, what a user and what a handler writes (the        *)
(* condition of the status), the deletion timestamp and the finalizers, and  *)
(* whether the labels match the selectors of the routes.                     *)
EXTENDS Naturals, Sequences, SequencesExt

CONSTANTS Absent, MaxEvents

VARIABLES log, events

\* What users, other controllers and faults do is bounded together.
Event == events < MaxEvents /\ events' = events + 1

\* The object after the first n changes, and now.
ObjectAt(n) == IF n = 0 \/ log[n].type = "deleted" THEN Absent ELSE log[n].obj
Current == ObjectAt(Len(log))

\* What the server makes of content o: without finalizers, an object that is
\* being deleted is gone.  A write that changes nothing makes no version.
Stored(o) == [o EXCEPT !.ver = Len(log) + 1,
                       !.gen = IF Current # Absent /\ o.spec # Current.spec THEN @ + 1 ELSE @]
Store(o) ==
    log' = IF o = Current THEN log
           ELSE Append(log, [type |-> IF o.deleting /\ o.fins = <<>> THEN "deleted" ELSE "modified", obj |-> Stored(o)])

\* Update takes everything but the status from o, Status().Update the rest.
Merged(o) == [o EXCEPT !.cond = Current.cond, !.deleting = Current.deleting]
MergedStatus(o) == [Current EXCEPT !.cond = o.cond]

\* A write needs the current version, and an object that is being deleted gets
\* no new finalizers.
Accepts(o) ==
    /\ Current # Absent
    /\ o.ver = Current.ver
    /\ Current.deleting => ToSet(o.fins) \subseteq ToSet(Current.fins)

\* What the client has in its object afterwards.
Answer(o) == IF o = Current THEN o ELSE Stored(o)
=============================================================================
