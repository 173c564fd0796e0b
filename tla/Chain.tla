------------------------------- MODULE Chain --------------------------------
(* pkg/router, what a route adds to a handler: the filters, the finalizer    *)
(* handler, the error middleware of pkg/conditions, and the saving of the    *)
(* status after the handlers of a kind have run one after the other on the   *)
(* same object.  One object, as its informer knows it; users and other       *)
(* controllers change it between any two requests of the handlers.           *)
(*                                                                           *)
(*   seen      how far the informer is in the history of the object          *)
(*   due       the key is in the queue                                       *)
(*   call      the locals of HandlerSet.handle and of the finalizer handler  *)
(*   cleaned   the finalizers whose handler has succeeded                    *)
(*   told      a handler that includes removed objects was told of this one  *)
(*                                                                           *)
(* A route is a record: what its handler does, and the filters around it.    *)
EXTENDS ObjectServer

CONSTANTS Routes,       \* [does, id, sel, include, rejects], in their order
          Foreign,      \* a finalizer of another controller
          Specs, Raw, Good, None

VARIABLES seen, due, call, cleaned, told

local == <<seen, due, call, cleaned, told>>
vars == <<log, events, local>>

\* What the object can be: its condition starts unset, its finalizers are the
\* ones of the routes and the foreign one.
Contents == [ver : Nat, gen : Nat, spec : Specs \cup {Raw, Good}, cond : {"unset", "True", "False", "Cleaning"},
             deleting : BOOLEAN, fins : Seq({Foreign} \cup {Routes[i].id : i \in DOMAIN Routes}), label : BOOLEAN]

ASSUME ChainAssumption ==
    /\ Len(Routes) \in Nat /\ DOMAIN Routes = 1..Len(Routes) /\ MaxEvents \in Nat
    /\ \A i \in DOMAIN Routes : /\ Routes[i].does \in {"report", "normalize", "finalize", "forget"}
                                /\ Routes[i].include \in {"live", "finalizing", "removed"}
                                /\ (Routes[i].does = "finalize") = (Routes[i].id # None)
                                /\ Routes[i].include = "removed" => Routes[i].does = "forget"
                                /\ Routes[i].rejects \subseteq Specs
                                /\ Routes[i].id # Foreign
    /\ Absent \notin Contents

-------------------------------------------------------------------------------
(* Handler of RouteBuilder: the filters it puts around a handler            *)

SelectorFilter(r, o) == r.sel => o # Absent /\ o.label
IgnoreNil(r, o) == r.include = "finalizing" => o # Absent

\* Mutant: the routes that include removed objects are filtered as well.
IgnoreRemoveAlways(r, o) == r.id = None => o # Absent /\ ~o.deleting
IgnoreRemove(r, o) == r.include = "live" /\ r.id = None => o # Absent /\ ~o.deleting
Passes(r, o) == SelectorFilter(r, o) /\ IgnoreNil(r, o) /\ IgnoreRemove(r, o)

-------------------------------------------------------------------------------
(* A call of HandlerSet.handle                                             *)

\* cur is the object the handlers share, old its unmodified copy, new the copy
\* a finalizer handler works on; errored: the attribute of the middleware.
IdleCall == [pc |-> "idle", i |-> 1, cur |-> Absent, old |-> Absent, new |-> Absent,
             failed |-> FALSE, retry |-> FALSE, errored |-> FALSE]

Route == Routes[call.i]
Handling(does) == call.pc = "run" /\ call.i <= Len(Routes) /\ Route.does = does

\* The first route from i on that passes object o to its handler.
From(i, o) == Min({j \in i..Len(Routes) : Passes(Routes[j], o)} \cup {Len(Routes) + 1})

\* The handler of the route returns, maybe with an error; the next one is
\* called in any case.
Return(cur, failed) ==
    call' = [call EXCEPT !.pc = "run", !.i = From(@ + 1, cur), !.cur = cur, !.new = Absent, !.failed = @ \/ failed]

Begin ==
    /\ call.pc = "idle" /\ due
    /\ due' = FALSE
    /\ call' = [IdleCall EXCEPT !.pc = "run", !.i = From(1, ObjectAt(seen)), !.cur = ObjectAt(seen), !.old = ObjectAt(seen)]
    /\ UNCHANGED <<log, events, seen, cleaned, told>>

\* A handler that includes removed objects.
Forget ==
    /\ Handling("forget")
    /\ told' = (told \/ call.cur = Absent)
    /\ Return(call.cur, FALSE)
    /\ UNCHANGED <<log, events, seen, due, cleaned>>

\* Mutant: a later handler that succeeds overwrites the condition.
ReportLast ==
    /\ Handling("report")
    /\ Return([call.cur EXCEPT !.cond = IF call.cur.spec \in Route.rejects THEN "False" ELSE "True"], FALSE)
    /\ UNCHANGED <<log, events, seen, due, cleaned, told>>

\* ErrorMiddleware around a handler that rejects some specs: such an error is
\* terminal and is reported in the condition instead of being returned; after
\* it, handlers that succeed leave the condition alone.
Report ==
    /\ Handling("report")
    /\ LET rejected == call.cur.spec \in Route.rejects
           cond == IF call.errored THEN call.cur.cond ELSE IF rejected THEN "False" ELSE "True"
       IN call' = [call EXCEPT !.i = From(@ + 1, call.cur), !.cur.cond = cond, !.errored = @ \/ rejected]
    /\ UNCHANGED <<log, events, seen, due, cleaned, told>>

\* Any other error is returned.
ReportFails ==
    /\ Handling("report")
    /\ Event
    /\ Return(call.cur, TRUE)
    /\ UNCHANGED <<log, seen, due, cleaned, told>>

\* A handler that updates the object: the answer replaces what earlier handlers
\* have put into the status of the object they share.
Normalize ==
    LET o == Merged([call.cur EXCEPT !.spec = Good])
    IN /\ Handling("normalize")
       /\ IF call.cur.spec # Raw THEN UNCHANGED log /\ Return(call.cur, FALSE)
          ELSE IF Accepts(call.cur) THEN Store(o) /\ Return(Answer(o), FALSE)
          ELSE UNCHANGED log /\ Return([call.cur EXCEPT !.spec = Good], TRUE)
       /\ UNCHANGED <<events, seen, due, cleaned, told>>

-------------------------------------------------------------------------------
(* FinalizerHandler                                                        *)

\* Mutant: the finalizer is added whenever the object is handled.
AddFinalizerAgain ==
    LET o == [call.cur EXCEPT !.fins = Append(@, Route.id)]
    IN /\ Handling("finalize")
       /\ call.cur # Absent /\ ~call.cur.deleting
       /\ IF Accepts(o) THEN Store(Merged(o)) /\ Return(Answer(Merged(o)), FALSE) ELSE UNCHANGED log /\ Return(o, TRUE)
       /\ UNCHANGED <<events, seen, due, cleaned, told>>

\* The object is not being deleted: the finalizer is added.
AddFinalizer ==
    LET o == [call.cur EXCEPT !.fins = Append(@, Route.id)]
    IN /\ Handling("finalize")
       /\ call.cur # Absent /\ ~call.cur.deleting
       /\ IF Contains(call.cur.fins, Route.id) THEN UNCHANGED log /\ Return(call.cur, FALSE)
          ELSE IF Accepts(o) THEN Store(Merged(o)) /\ Return(Answer(Merged(o)), FALSE)
          ELSE UNCHANGED log /\ Return(o, TRUE)
       /\ UNCHANGED <<events, seen, due, cleaned, told>>

\* Mutant: a finalizer waits until it is the only one.
FirstAlone(o) == o.fins = <<Route.id>>

First(o) == o.fins # <<>> /\ o.fins[1] = Route.id

NotMyTurn ==
    /\ Handling("finalize")
    /\ call.cur # Absent => call.cur.deleting /\ ~First(call.cur)
    /\ Return(call.cur, FALSE)
    /\ UNCHANGED <<log, events, seen, due, cleaned, told>>

\* Next works on a copy, which it may read again or patch, and marks the
\* status.  It asks for more time, or has cleaned up.
RunNext(copy, delay) ==
    /\ Handling("finalize")
    /\ call.cur # Absent /\ call.cur.deleting /\ First(call.cur)
    /\ copy # Absent
    /\ IF delay THEN Event ELSE UNCHANGED events
    /\ cleaned' = IF delay THEN cleaned ELSE cleaned \cup {Route.id}
    /\ call' = [call EXCEPT !.pc = "status", !.new = [copy EXCEPT !.cond = "Cleaning"], !.retry = @ \/ delay]
    /\ UNCHANGED <<log, seen, due, told>>

NextFails ==
    /\ Handling("finalize")
    /\ call.cur # Absent /\ call.cur.deleting /\ First(call.cur)
    /\ Event
    /\ Return(call.cur, TRUE)
    /\ UNCHANGED <<log, seen, due, cleaned, told>>

\* The status of the copy, compared with that of the shared object, is saved
\* before the finalizer is removed.
NextStatus ==
    LET o == MergedStatus(call.new)
        go(new) == call' = IF call.retry \/ ~First(new) THEN [call EXCEPT !.pc = "run", !.i = From(@ + 1, call.cur), !.new = Absent]
                           ELSE [call EXCEPT !.pc = "remove", !.new = new]
    IN /\ call.pc = "status"
       /\ IF call.new.cond = call.cur.cond THEN UNCHANGED log /\ go(call.new)
          ELSE IF Accepts(call.new) THEN Store(o) /\ go(Answer(o))
          ELSE UNCHANGED log /\ Return(call.cur, TRUE)
       /\ UNCHANGED <<events, seen, due, cleaned, told>>

\* Mutant: all finalizers are removed with the first one.
RemoveAllFinalizers ==
    LET o == [call.new EXCEPT !.fins = <<>>]
    IN /\ call.pc = "remove"
       /\ IF Accepts(o) THEN Store(Merged(o)) /\ Return(call.cur, FALSE) ELSE UNCHANGED log /\ Return(call.cur, TRUE)
       /\ UNCHANGED <<events, seen, due, cleaned, told>>

\* The other finalizers are the ones of the object as it was read.
RemoveFinalizer ==
    LET o == [call.new EXCEPT !.fins = Tail(call.cur.fins)]
    IN /\ call.pc = "remove"
       /\ IF Accepts(o) THEN Store(Merged(o)) /\ Return(call.cur, FALSE) ELSE UNCHANGED log /\ Return(call.cur, TRUE)
       /\ UNCHANGED <<events, seen, due, cleaned, told>>

-------------------------------------------------------------------------------
(* save, and the end of handle                                             *)

\* Nothing is saved after an error; the key is queued again then, and after
\* RetryAfter.
Finish(failed) == call' = IdleCall /\ due' = (due \/ failed \/ call.retry)

\* After an update of the object by a handler the comparison is with what the
\* cache has now; if that has no object, it is an error.
Unmodified == IF call.old # Absent /\ call.old.gen # call.cur.gen THEN ObjectAt(seen) ELSE call.old
Unsaved == call.cur # Absent /\ call.cur.cond # call.old.cond

Save ==
    LET o == MergedStatus(call.cur)
    IN /\ call.pc = "run" /\ call.i > Len(Routes)
       /\ IF call.failed THEN UNCHANGED log /\ Finish(TRUE)
          ELSE IF ~Unsaved THEN UNCHANGED log /\ Finish(FALSE)
          ELSE IF Unmodified = Absent THEN UNCHANGED log /\ Finish(TRUE)
          ELSE IF Unmodified.cond = call.cur.cond THEN UNCHANGED log /\ Finish(FALSE)
          ELSE IF Accepts(call.cur) THEN Store(o) /\ Finish(FALSE)
          ELSE UNCHANGED log /\ Finish(TRUE)
       /\ UNCHANGED <<events, seen, cleaned, told>>

Handle ==
    \/ Begin \/ Forget \/ Report \/ Normalize
    \/ AddFinalizer \/ NotMyTurn \/ NextStatus \/ RemoveFinalizer \/ Save
    \/ RunNext(call.cur, FALSE)

-------------------------------------------------------------------------------
(* Everybody else                                                          *)

\* The informer hears of a change.
Inform ==
    /\ seen < Len(log)
    /\ seen' = seen + 1
    /\ due' = TRUE
    /\ UNCHANGED <<log, events, call, cleaned, told>>

Edit(o) == Store(o) /\ UNCHANGED local

UserSpec(spec) == Current # Absent /\ spec # Current.spec /\ Event /\ Edit([Current EXCEPT !.spec = spec])
UserLabel == Current # Absent /\ Event /\ Edit([Current EXCEPT !.label = ~@])
UserDelete == Current # Absent /\ ~Current.deleting /\ UNCHANGED events /\ Edit([Current EXCEPT !.deleting = TRUE])
RemoveForeign ==
    /\ Current # Absent /\ Current.deleting
    /\ UNCHANGED events
    /\ \E i \in DOMAIN Current.fins : Current.fins[i] = Foreign /\ Edit([Current EXCEPT !.fins = RemoveAt(@, i)])

Others == UserLabel \/ UserDelete \/ RemoveForeign \/ \E spec \in Specs : UserSpec(spec)
Faults == ReportFails \/ NextFails \/ RunNext(call.cur, TRUE)

InitObject == [ver |-> 1, gen |-> 1, spec |-> Raw, cond |-> "unset", deleting |-> FALSE, fins |-> <<Foreign>>, label |-> TRUE]

Init ==
    /\ log = <<[type |-> "added", obj |-> InitObject]>> /\ events = 0
    /\ seen = 0 /\ due = FALSE /\ call = IdleCall /\ cleaned = {} /\ told = FALSE

Next == Handle \/ RunNext(Current, FALSE) \/ Faults \/ Inform \/ Others

\* The worker, the informer and the other controllers make progress; the user
\* may leave the object alone for ever.
Spec == Init /\ [][Next]_vars
FairSpec == Spec /\ WF_vars(Handle) /\ WF_vars(Inform) /\ WF_vars(RemoveForeign)

-------------------------------------------------------------------------------
(* Properties                                                              *)

\* The types of the variables; the informer is never ahead of the server.
TypeOK ==
    /\ seen \in 0..Len(log) /\ events \in 0..MaxEvents
    /\ due \in BOOLEAN /\ told \in BOOLEAN
    /\ call.pc \in {"idle", "run", "status", "remove"}
    /\ call.i \in 1..(Len(Routes) + 1)
    /\ \A n \in DOMAIN log : log[n].obj \in Contents /\ log[n].obj.ver = n /\ IsInjective(log[n].obj.fins)

\* No finalizer of a route leaves the object before its handler has cleaned up,
\* and no handler removes the finalizer of somebody else, whatever copies of
\* the object they write back.
FinalizersRespected ==
    [][LET o == Current  p == Current'
           before == IF o = Absent THEN {} ELSE ToSet(o.fins)
           after == IF p = Absent THEN {} ELSE ToSet(p.fins)
       IN \A f \in before \ after : IF f = Foreign THEN call' = call ELSE f \in cleaned]_vars

\* When nothing is left to do, the condition tells whether the handlers accept
\* the current spec, also after handlers have updated the object in between.
ConditionCurrent ==
    LET o == Current
        rejected == \E i \in DOMAIN Routes : Routes[i].does = "report" /\ o.spec \in Routes[i].rejects
    IN call.pc = "idle" /\ ~due /\ seen = Len(log) /\ o # Absent /\ ~o.deleting
       => o.cond = IF rejected THEN "False" ELSE "True"

\* An object that is being deleted goes away, finalizer after finalizer, unless
\* its labels do not match the selectors of the routes any more.
Goes == [](Current # Absent /\ Current.deleting => <>(Current = Absent \/ ~Current.label))

\* The handlers that include removed objects are told.
RemovalTold == Current = Absent ~> told
=============================================================================
