------------------------------- MODULE Apply --------------------------------
(* pkg/apply: desired sets.  A caller (a handler of an owner, with a         *)
(* subcontext) applies the objects it wants; whatever carries the caller's   *)
(* label and is not wanted is pruned.  Calls of several callers, users and   *)
(* other controllers interleave at every request to the API server.          *)
(*                                                                           *)
(*   obj, cache   the objects of the API server, and the informer's copy of  *)
(*                them, which List and Get read                              *)
(*   news         objects with changes the informer has not delivered        *)
(*   desired      what each caller wants now                                 *)
(*   due          the handler of a caller is in its queue                    *)
(*   call         the locals of apply and process, per caller                *)
(*   byName, byLabel   what the client of a handler has registered with the  *)
(*                triggers of its process: objects, and kinds for which the  *)
(*                label of the caller is the selector                        *)
(*   missed       history: objects that lost the label of the caller, since  *)
(*                its last call began, without the triggers telling it       *)
(*   gone         owners that have been deleted                              *)
(*                                                                           *)
(* Every caller is in a process of its own, with its own triggers.           *)
(*                                                                           *)
(* An object is its content (a function on Fields), the content recorded in  *)
(* its applied annotation, and whether it is being deleted.  "hash" stands   *)
(* for the label, "ann" for the annotations that name the owner, "opts" for  *)
(* the annotation that switches pruning, creation or updates off ("noPrune", *)
(* "noCreate", "noUpdate") or updates on ("update"), "ref" for the owner     *)
(* reference; "sel" is the part of the spec that cannot be changed.          *)
EXTENDS Naturals, Sequences, SequencesExt, FiniteSets

CONSTANTS Callers,      \* records [sub, owner]; Ensure has "" and NoOwner
          NoOwner, OwnerNs, DefaultNs,
          Keys,         \* records [gk, ns, name]
          Namespaced,   \* kinds with namespaces
          Reconciled,   \* kinds with a reconciler ...
          Lax,          \* ... that ignores an empty value (Secret, Service)
          Menu,         \* the sets a caller may come to want
          PruneTypes, NoPrune, ValidOwnerChange,
          Desired0, Obj0, Finalized, Touched, Vals, Unset, Absent, Keep,
          MaxEvents

VARIABLES obj, cache, news, desired, due, call, byName, byLabel, missed, gone, events

registry == <<byName, byLabel>>
vars == <<obj, cache, news, desired, due, call, registry, missed, gone, events>>

DataFields == {"sel", "f"}
Fields == DataFields \cup {"hash", "ann", "opts", "ref"}
Nothing == [f \in Fields |-> Unset]

-------------------------------------------------------------------------------
(* Objects of a caller                                                     *)

\* GetLabelsAndAnnotations: the identity in the annotations; the label is its
\* hash.  objectSetHash is taken to be injective.
Id(c) == IF c.sub = "" /\ c.owner = NoOwner THEN Unset ELSE [sub |-> c.sub, owner |-> c.owner]

\* assignOwnerReference and adjustNamespace fill an empty namespace in, from
\* the owner or from the default; clearNamespace clears it.
KeyOf(c, d) ==
    LET ownerNs == IF c.owner = NoOwner THEN "" ELSE OwnerNs[c.owner]
        ns == IF d.ns # "" THEN d.ns ELSE IF ownerNs # "" THEN ownerNs ELSE DefaultNs
    IN [gk |-> d.gvk.gk, ns |-> IF d.gvk.gk \in Namespaced THEN ns ELSE "", name |-> d.name]

\* The owner reference, not across namespaces and not on what is not pruned.
Ref(c, d) ==
    IF /\ c.owner # NoOwner
       /\ OwnerNs[c.owner] # "" => d.gvk.gk \in Namespaced /\ KeyOf(c, d).ns = OwnerNs[c.owner]
       /\ d.opts # "noPrune"
    THEN c.owner ELSE Unset

\* injectLabelsAndAnnotations and prepareObjectForCreate.
New(c, d) ==
    [f \in Fields |-> CASE f \in {"hash", "ann"} -> Id(c)
                        [] f = "opts" -> d.opts
                        [] f = "ref" -> Ref(c, d)
                        [] OTHER -> d.data[f]]

\* What objects can be: their fields are what callers want, what users put
\* there and what was there before.
ValuesOf(c) == {New(c, d)[f] : d \in UNION Menu[c], f \in Fields}
Values ==
    {Unset} \cup Vals \cup UNION {ValuesOf(c) : c \in Callers}
    \cup {Obj0[k].c[f] : k \in {j \in Keys : Obj0[j] # Absent}, f \in Fields}
Objects == [c : [Fields -> Values], applied : [Fields -> Values], deleting : BOOLEAN]

\* A set is a map: it has one object for a kind and a key.
ASSUME ApplyAssumption ==
    /\ Callers \subseteq [sub : STRING, owner : DOMAIN OwnerNs \cup {NoOwner}]
    /\ Obj0 \in [Keys -> Objects \cup {Absent}]
    /\ \A k \in Keys : Obj0[k] # Absent => Obj0[k].applied = Nothing /\ ~Obj0[k].deleting
    /\ Desired0 \in [Callers -> UNION {Menu[c] : c \in Callers}]
    /\ \A c \in Callers : /\ Desired0[c] \in Menu[c]
                          /\ \A set \in Menu[c] : IsFiniteSet(set) /\ \A d \in set : KeyOf(c, d) \in Keys
                          /\ \A set \in Menu[c] : \A d, e \in set : d.gvk = e.gvk /\ KeyOf(c, d) = KeyOf(c, e) => d = e
    /\ IsFiniteSet(PruneTypes)
    /\ Absent \notin Objects /\ Keep \notin Values
    /\ MaxEvents \in Nat

Should(content, opt) == content["opts"] # opt

\* createPatch: a three-way merge of what was applied last, what is wanted
\* and what was read; sanitizePatch drops what concerns no field here.
ThreeWay(original, new, current) ==
    [f \in Fields |->
        IF new[f] # Unset THEN (IF new[f] # current[f] THEN new[f] ELSE Keep)
        ELSE IF original[f] # Unset THEN Unset ELSE Keep]

NoPatch == [f \in Fields |-> Keep]

\* The reconcilers: a change of an immutable part calls for a replacement.
\* They compare with the applied annotation if there is one.
Replaces(k, old, new) ==
    LET original == IF old.applied = Nothing THEN old.c ELSE old.applied
    IN /\ k.gk \in Reconciled
       /\ new["sel"] # original["sel"]
       /\ k.gk \in Lax => new["sel"] # Unset

\* What the server makes of a patch computed from old.  The patch has no
\* precondition, and it has the applied annotation only if that has changed.
Patched(cur, old, new) ==
    LET patch == ThreeWay(old.applied, new, old.c)
    IN [cur EXCEPT !.c = [f \in Fields |-> IF patch[f] = Keep THEN @[f] ELSE patch[f]],
                   !.applied = IF new # old.applied THEN new ELSE @]

\* isAssigningSubContext, isAllowOwnerTransition: who may take over from whom.
MayTakeOver(from, to) ==
    /\ to # Unset /\ to.sub # ""
    /\ from # Unset
    /\ \/ from.sub = "" /\ from.owner = to.owner
       \/ from.owner \in {NoOwner, to.owner} /\ <<from.sub, to.sub>> \in ValidOwnerChange

-------------------------------------------------------------------------------
(* The calls                                                               *)

\* A call: the kinds it still has to process, the requests it will make for
\* the current one, and whether a request has failed.
Idle == [pc |-> "idle", set |-> {}, gvks |-> <<>>, todo |-> {}, failed |-> FALSE]

Init ==
    /\ obj = Obj0 /\ cache = Obj0 /\ news = {}
    /\ desired = Desired0
    /\ due = [c \in Callers |-> TRUE]
    /\ call = [c \in Callers |-> Idle]
    /\ byName = [c \in Callers |-> {}] /\ byLabel = [c \in Callers |-> {}]
    /\ missed = [c \in Callers |-> {}]
    /\ gone = {} /\ events = 0

\* GVKOrder: the kinds of the set, then the other ones to prune.
GVKOrder(set) == LET seen == {d.gvk : d \in set} IN SetToSeq(seen) \o SetToSeq(PruneTypes \ seen)

Wanted(c, set, gvk) == {KeyOf(c, d) : d \in {e \in set : e.gvk = gvk}}

\* list: by label, or one by one if the caller has no identity.
Listed(c, set, gvk) ==
    {k \in Keys : /\ cache[k] # Absent
                  /\ IF Id(c) # Unset THEN k.gk = gvk.gk /\ cache[k].c["hash"] = Id(c)
                     ELSE k \in Wanted(c, set, gvk)}

\* Mutant: the other versions in the set are not looked at.
CrossVersionIgnored(set, k) == FALSE

\* filterCrossVersion: not what is wanted under another version.  The set
\* still has the keys it was given, with empty namespaces.
CrossVersion(set, k) ==
    \E d \in set : /\ d.gvk.gk = k.gk /\ d.name = k.name
                   /\ d.ns = k.ns \/ (d.ns = "" /\ k.ns = DefaultNs)

\* Mutant: an object is pruned for its label alone.
PrunableByLabel(o) == Should(o.c, "noPrune") /\ ~o.deleting

Prunable(o) == Should(o.c, "noPrune") /\ ~o.deleting /\ o.c["hash"] \in {Unset, o.c["ann"]}

\* updateF and compareObjects up to the request, for an object as it was read:
\* it is patched, or replaced if its annotations allow that, or left alone.
Verdict(k, old, new) ==
    IF ~Should(new, "noUpdate") \/ ThreeWay(old.applied, new, old.c) = NoPatch THEN "same"
    ELSE IF ~Replaces(k, old, new) THEN "patch"
    ELSE IF new["opts"] = "update" \/ (Should(old.c, "noPrune") /\ Should(old.c, "noCreate")) THEN "replace"
    ELSE "same"

Request(op, k, old, new) == [op |-> op, key |-> k, old |-> old, new |-> new]

\* The requests for object k, which has been read as old.
Requests(k, old, new) ==
    CASE Verdict(k, old, new) = "same" -> {}
      [] Verdict(k, old, new) = "patch" -> {Request("update", k, old, new)}
      [] OTHER -> {Request("drop", k, Absent, new), Request("recreate", k, Absent, new)}

\* process up to its first request: list, compareSets, filterCrossVersion.
Compared(c, set, gvk) ==
    LET found == Listed(c, set, gvk)
        want == Wanted(c, set, gvk)
        of(k) == New(c, CHOOSE d \in set : d.gvk = gvk /\ KeyOf(c, d) = k)
        create == {k \in want \ found : Should(of(k), "noCreate")}
        delete == {k \in found \ want : c \notin NoPrune /\ Prunable(cache[k]) /\ ~CrossVersion(set, k)}
    IN {Request("create", k, Absent, of(k)) : k \in create}
       \cup {Request("delete", k, Absent, Nothing) : k \in delete}
       \cup UNION {Requests(k, cache[k], of(k)) : k \in want \cap found}

\* The requests for the first of the kinds that are left.
Processing(c, set, gvks) ==
    [pc |-> "run", set |-> set, gvks |-> Tail(gvks), todo |-> Compared(c, set, Head(gvks)), failed |-> FALSE]

\* triggerRegistry.Watch: the client registers before every request, a list by
\* its selector, anything else by the name of the object.
Watch(c, names, kinds) ==
    /\ byName' = [byName EXCEPT ![c] = @ \cup names]
    /\ byLabel' = [byLabel EXCEPT ![c] = @ \cup kinds]

ListWatch(c, set, gvk) ==
    IF Id(c) # Unset THEN Watch(c, {}, {gvk.gk}) ELSE Watch(c, Wanted(c, set, gvk), {})

\* Apply is called with the set that the handler wants now.
Begin(c) ==
    LET gvks == GVKOrder(desired[c])
    IN /\ call[c].pc = "idle" /\ due[c] /\ c.owner \notin gone
       /\ call' = [call EXCEPT ![c] = IF gvks = <<>> THEN [Idle EXCEPT !.pc = "run"] ELSE Processing(c, desired[c], gvks)]
       /\ IF gvks = <<>> THEN UNCHANGED registry ELSE ListWatch(c, desired[c], Head(gvks))
       /\ due' = [due EXCEPT ![c] = FALSE]
       /\ missed' = [missed EXCEPT ![c] = {}]
       /\ UNCHANGED <<obj, cache, news, desired, gone, events>>

NextGVK(c) ==
    /\ call[c].pc = "run" /\ call[c].todo = {} /\ call[c].gvks # <<>>
    /\ call' = [call EXCEPT ![c] = [Processing(c, @.set, @.gvks) EXCEPT !.failed = call[c].failed]]
    /\ ListWatch(c, call[c].set, Head(call[c].gvks))
    /\ UNCHANGED <<obj, cache, news, desired, due, missed, gone, events>>

\* process makes the requests in this order, those of an operation in the
\* order of their keys.
Order == [create |-> 1, update |-> 2, delete |-> 3, drop |-> 4, recreate |-> 5]
Req(c) == CHOOSE r \in call[c].todo : \A q \in call[c].todo : Order[r.op] <= Order[q.op]

\* The next request of a call; afterwards it is done, maybe with an error.
Doing(c, ops) == call[c].pc = "run" /\ call[c].todo # {} /\ Req(c).op \in ops
Done(c, failed) == call' = [call EXCEPT ![c].pc = "run", ![c].todo = @ \ {Req(c)}, ![c].failed = @ \/ failed]

\* Faults, and what others do, are bounded together.
Event == events < MaxEvents /\ events' = events + 1

\* A request that took effect may still fail, if its answer is lost.
Lose(lost) == IF lost THEN Event ELSE UNCHANGED events

\* The API server stores v as object k; the informer will hear of it.
Write(k, v) == obj' = [obj EXCEPT ![k] = v] /\ news' = IF v = obj[k] THEN news ELSE news \cup {k}

\* An object with finalizers stays until they are done.
RemoveObject(k) == Write(k, IF obj[k] # Absent /\ k \in Finalized THEN [obj[k] EXCEPT !.deleting = TRUE] ELSE Absent)

\* createF: the request, for a new object and for one that is replaced.
Create(c, lost) ==
    /\ Doing(c, {"create", "recreate"})
    /\ obj[Req(c).key] = Absent
    /\ Write(Req(c).key, [c |-> Req(c).new, applied |-> Req(c).new, deleting |-> FALSE])
    /\ Watch(c, {Req(c).key}, {})
    /\ Done(c, lost)
    /\ Lose(lost)
    /\ UNCHANGED <<cache, desired, due, missed, gone>>

\* Mutant: the request that failed is put back with the update it led to.
AlreadyExistsUpdates(c) ==
    /\ Doing(c, {"create", "recreate"})
    /\ obj[Req(c).key] # Absent
    /\ call' = [call EXCEPT ![c].pc = "get", ![c].todo = (@ \ {Req(c)}) \cup {[Req(c) EXCEPT !.op = "update"]}]
    /\ Watch(c, {Req(c).key}, {})
    /\ UNCHANGED <<obj, cache, news, desired, due, missed, gone, events>>

AlreadyExists(c) ==
    /\ Doing(c, {"create", "recreate"})
    /\ obj[Req(c).key] # Absent
    /\ call' = [call EXCEPT ![c].pc = "get"]
    /\ Watch(c, {Req(c).key}, {})
    /\ UNCHANGED <<obj, cache, news, desired, due, missed, gone, events>>

\* Mutant: an existing object is updated whoever owns it.
GetExistingAny(c, seen) ==
    /\ call[c].pc = "get"
    /\ IF seen # Absent /\ Req(c).op = "create"
       THEN call' = [call EXCEPT ![c].pc = "run",
                                 ![c].todo = (@ \ {Req(c)}) \cup Requests(Req(c).key, seen, Req(c).new)]
       ELSE Done(c, seen = Absent)
    /\ Watch(c, {Req(c).key}, {})
    /\ UNCHANGED <<obj, cache, news, desired, due, missed, gone, events>>

\* createF goes on: the existing object, as Get finds it in the cache or among
\* the recent writes, is updated unless it belongs to somebody else.  After a
\* replacement it is not updated any more.
GetExisting(c, seen) ==
    LET r == Req(c)
        mine == seen # Absent /\ \/ seen.c["ann"] = Id(c)
                                 \/ seen.c["hash"] = Unset
                                 \/ MayTakeOver(seen.c["ann"], Id(c))
    IN /\ call[c].pc = "get"
       /\ IF mine /\ r.op = "create"
          THEN call' = [call EXCEPT ![c].pc = "run",
                                    ![c].todo = (@ \ {r}) \cup Requests(r.key, seen, r.new)]
          ELSE Done(c, ~mine)
       /\ Watch(c, {r.key}, {})
       /\ UNCHANGED <<obj, cache, news, desired, due, missed, gone, events>>

\* applyPatch: the request.  There is nothing to patch if the object is gone.
Update(c, lost) ==
    LET k == Req(c).key
    IN /\ Doing(c, {"update"})
       /\ Write(k, IF obj[k] = Absent THEN Absent ELSE Patched(obj[k], Req(c).old, Req(c).new))
       /\ Watch(c, {k}, {})
       /\ Done(c, lost \/ obj[k] = Absent)
       /\ Lose(lost)
       /\ UNCHANGED <<cache, desired, due, missed, gone>>

\* deleteF: what is not wanted, and what is replaced.
Delete(c, lost) ==
    /\ Doing(c, {"delete", "drop"})
    /\ RemoveObject(Req(c).key)
    /\ Watch(c, {Req(c).key}, {})
    /\ Done(c, lost \/ obj[Req(c).key] = Absent)
    /\ Lose(lost)
    /\ UNCHANGED <<cache, desired, due, missed, gone>>

\* A request fails; process collects the error and goes on.
RequestFails(c) ==
    /\ call[c].todo # {}
    /\ Event
    /\ Watch(c, {Req(c).key}, {})
    /\ Done(c, TRUE)
    /\ UNCHANGED <<obj, cache, news, desired, due, missed, gone>>

\* Mutant: the errors that process has collected are dropped.
ReturnNil(c) ==
    /\ call[c].pc = "run" /\ call[c].todo = {} /\ call[c].gvks = <<>>
    /\ call' = [call EXCEPT ![c] = Idle]
    /\ UNCHANGED <<obj, cache, news, desired, due, registry, missed, gone, events>>

\* The handler that called Apply returns the error and is queued again.
Return(c) ==
    /\ call[c].pc = "run" /\ call[c].todo = {} /\ call[c].gvks = <<>>
    /\ due' = [due EXCEPT ![c] = @ \/ call[c].failed]
    /\ call' = [call EXCEPT ![c] = Idle]
    /\ UNCHANGED <<obj, cache, news, desired, registry, missed, gone, events>>

\* The process dies; its successor has registered nothing, and handles every
\* owner.
Crash(c) ==
    /\ Event
    /\ due' = [due EXCEPT ![c] = TRUE]
    /\ call' = [call EXCEPT ![c] = Idle]
    /\ byName' = [byName EXCEPT ![c] = {}] /\ byLabel' = [byLabel EXCEPT ![c] = {}]
    /\ UNCHANGED <<obj, cache, news, desired, missed, gone>>

Call(c) ==
    \/ Begin(c) \/ NextGVK(c) \/ Return(c)
    \/ Create(c, FALSE) \/ AlreadyExists(c) \/ Update(c, FALSE) \/ Delete(c, FALSE)
    \/ call[c].pc = "get" /\ \E seen \in {cache[Req(c).key], obj[Req(c).key]} : GetExisting(c, seen)

Fault(c) ==
    \/ RequestFails(c) \/ Crash(c)
    \/ Create(c, TRUE) \/ Update(c, TRUE) \/ Delete(c, TRUE)

-------------------------------------------------------------------------------
(* Everybody else                                                          *)

Mine(c, o) == o # Absent /\ o.c["hash"] = Id(c) /\ Id(c) # Unset

\* objectMatcher.Match: an object is matched by its name, or by the labels that
\* it has now; one that was removed has none.
Matches(c, k) == k \in byName[c] \/ (k.gk \in byLabel[c] /\ Mine(c, obj[k]))

\* The informer delivers a change.  triggers.process queues the handlers that
\* have a registration which matches, and forgets the name of an object that
\* was removed.
Inform(k) ==
    /\ k \in news
    /\ news' = news \ {k}
    /\ cache' = [cache EXCEPT ![k] = obj[k]]
    /\ due' = [c \in Callers |-> due[c] \/ Matches(c, k)]
    /\ byName' = IF obj[k] # Absent THEN byName ELSE [c \in Callers |-> byName[c] \ {k}]
    /\ missed' = [c \in Callers |-> IF Mine(c, cache[k]) /\ ~Mine(c, obj[k]) /\ ~Matches(c, k)
                                    THEN missed[c] \cup {k} ELSE missed[c]]
    /\ UNCHANGED <<obj, desired, call, byLabel, gone, events>>

SetDesired(c, set) ==
    /\ Event
    /\ set \in Menu[c] \ {desired[c]}
    /\ desired' = [desired EXCEPT ![c] = set]
    /\ due' = [due EXCEPT ![c] = TRUE]
    /\ UNCHANGED <<obj, cache, news, call, registry, missed, gone>>

UserEdit(k, v) ==
    /\ Event
    /\ k \in Touched
    /\ obj[k] # Absent
    /\ obj[k].c["f"] # v
    /\ Write(k, [obj[k] EXCEPT !.c["f"] = v])
    /\ UNCHANGED <<cache, desired, due, call, registry, missed, gone>>

UserDelete(k) ==
    /\ Event
    /\ k \in Touched
    /\ obj[k] # Absent
    /\ RemoveObject(k)
    /\ UNCHANGED <<cache, desired, due, call, registry, missed, gone>>

FinalizersDone(k) ==
    /\ obj[k] # Absent
    /\ obj[k].deleting
    /\ Write(k, Absent)
    /\ UNCHANGED <<cache, desired, due, call, registry, missed, gone, events>>

OwnerDeleted(o) ==
    /\ Event
    /\ o \notin gone
    /\ gone' = gone \cup {o}
    /\ UNCHANGED <<obj, cache, news, desired, due, call, registry, missed>>

\* Mutant: the handler runs for changes of the object, not of its owner.
PurgeOrphanChanged(k) ==
    /\ k \in news
    /\ cache[k] # Absent
    /\ cache[k].c["ann"] # Unset
    /\ cache[k].c["ann"].owner \in gone
    /\ obj[k] # Absent /\ ~obj[k].deleting
    /\ RemoveObject(k)
    /\ UNCHANGED <<cache, desired, due, call, registry, missed, gone, events>>

\* GCOrphans: PurgeOrphan with FindOwner.
PurgeOrphan(k) ==
    /\ cache[k] # Absent
    /\ cache[k].c["ann"] # Unset
    /\ cache[k].c["ann"].owner \in gone
    /\ obj[k] # Absent /\ ~obj[k].deleting
    /\ RemoveObject(k)
    /\ UNCHANGED <<cache, desired, due, call, registry, missed, gone, events>>

Next ==
    \/ \E c \in Callers : Call(c) \/ Fault(c) \/ \E set \in Menu[c] : SetDesired(c, set)
    \/ \E k \in Keys : Inform(k) \/ FinalizersDone(k) \/ PurgeOrphan(k) \/ UserDelete(k) \/ \E v \in Vals : UserEdit(k, v)
    \/ \E o \in DOMAIN OwnerNs : OwnerDeleted(o)

\* Handlers, informers and the owners of finalizers make progress.
Spec == Init /\ [][Next]_vars
FairSpec ==
    /\ Spec
    /\ \A c \in Callers : WF_vars(Call(c))
    /\ \A k \in Keys : WF_vars(Inform(k))
    /\ WF_vars(\E k \in Keys : FinalizersDone(k))
    /\ WF_vars(\E k \in Keys : PurgeOrphan(k))

-------------------------------------------------------------------------------
(* Properties                                                              *)

\* The types of the variables; a call reads an object it failed to create only
\* while that creation is still to be done.
TypeOK ==
    /\ \A k \in Keys : obj[k] # Absent => DOMAIN obj[k].c = Fields /\ DOMAIN obj[k].applied = Fields
    /\ \A c \in Callers : /\ desired[c] \in Menu[c]
                           /\ due[c] \in BOOLEAN
                           /\ call[c].pc \in {"idle", "run", "get"}
                           /\ call[c].pc = "get" => \E r \in call[c].todo : r.op \in {"create", "recreate"} /\ r.old = Absent
                           /\ byName[c] \cup missed[c] \subseteq Keys
    /\ gone \subseteq DOMAIN OwnerNs

Rest(c) == ~due[c] /\ call[c].pc = "idle" /\ news = {}

\* What is wanted exists as it is wanted, as far as its annotations allow: the
\* wanted ones that it is created, or taken over, and updated, the existing ones
\* that it is replaced.
Settled(c, d) ==
    LET o == obj[KeyOf(c, d)]
        new == New(c, d)
    IN \/ d.opts = "noCreate" /\ (o = Absent \/ (Id(c) # Unset /\ o.c["hash"] # Id(c)))
       \/ o # Absent /\ \/ o.deleting \/ d.opts = "noUpdate"
                        \/ /\ Replaces(KeyOf(c, d), o, new)
                           /\ d.opts # "update" /\ o.c["opts"] \in {"noPrune", "noCreate"}
                        \/ \A f \in Fields : new[f] # Unset => o.c[f] = new[f]

\* The set is applied, but for some objects.
Applied(c, except) ==
    /\ \A d \in desired[c] : Settled(c, d) \/ KeyOf(c, d) \in except
    /\ c \notin NoPrune => \A k \in Keys : Mine(c, obj[k]) /\ Prunable(obj[k]) => \E d \in desired[c] : KeyOf(c, d) = k

\* How callers are to use the package.  The kinds to prune of a caller with an
\* identity are those that it ever applies; an object that filterCrossVersion
\* keeps is one that the caller wants.
Regular ==
    /\ \A k \in Keys : Obj0[k] # Absent /\ Obj0[k].c["hash"] # Unset => \E gvk \in PruneTypes : gvk.gk = k.gk
    /\ \A c \in Callers : \A set \in Menu[c] :
         /\ \A d \in set : Id(c) # Unset => \E gvk \in PruneTypes : gvk.gk = KeyOf(c, d).gk
         /\ \A k \in Keys : CrossVersion(set, k) => \E d \in set : KeyOf(c, d) = k

\* When nothing is left to do for a caller, its set is applied: whatever
\* failed, was lost, overwritten or read stale has led to another call.  Only
\* objects that were removed or relabelled since its last call began, and that
\* its process has neither written nor read by name, can differ.
RestMeansApplied == \A c \in Callers : c.owner \notin gone /\ Rest(c) => Applied(c, missed[c])

\* A set is applied whenever nothing is left to do, whatever was removed or
\* relabelled: so it is for callers whose objects are read by name.  A list by
\* label does not tell of what leaves it, and RestMeansApplied is all that holds
\* for callers with an identity.
LevelTriggered == \A c \in Callers : c.owner \notin gone /\ Rest(c) => Applied(c, {})

\* Requests change the owner of an object only where the rules for taking
\* over allow it, although they have no precondition.
NoTheft ==
    [][\A k \in Keys : LET o == obj[k]  p == obj'[k]
        IN o # Absent /\ p # Absent /\ o.c["hash"] # Unset /\ p.c["hash"] # o.c["hash"]
           => MayTakeOver(o.c["ann"], p.c["ann"])]_vars

\* Objects that only carry a copy of a label, as those that other controllers
\* make from an applied object do, are not deleted by any call.
CopiesKept ==
    [][\A k \in Keys : obj[k] # Absent /\ obj[k].c["hash"] # obj[k].c["ann"] /\ call' # call => obj'[k] # Absent]_vars

\* Another owner has an object that the caller wants.
Contested(c) ==
    \E d \in desired[c] : LET o == obj[KeyOf(c, d)] IN
        o # Absent /\ o.c["hash"] \notin {Unset, Id(c)} /\ ~MayTakeOver(o.c["ann"], Id(c))

\* Applying a set comes to an end: a call that changes nothing follows, unless
\* another owner has what the caller wants.
Converges == \A c \in Callers : <>[](Rest(c) \/ c.owner \in gone \/ Contested(c))

\* After the owner is deleted, its objects are, the ones that a call still
\* under way creates included.
OrphansPurged ==
    \A o \in DOMAIN OwnerNs :
        o \in gone ~> [](\A k \in Keys : obj[k] # Absent /\ obj[k].c["ann"] # Unset => obj[k].c["ann"].owner # o)
===============================================================================
