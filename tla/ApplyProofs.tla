----------------------------- MODULE ApplyProofs ------------------------------
(***************************************************************************)
(* Proofs about Apply: its types, and that whatever fails, is lost, is     *)
(* overwritten or is read stale leads to another call, for any callers,    *)
(* objects, kinds and annotations and any number of faults and edits.      *)
(***************************************************************************)
EXTENDS Apply, FiniteSetTheorems, WellFoundedInduction, TLAPS

(***************************************************************************)
(* The inductive invariant.                                                *)
(***************************************************************************)
Content == [Fields -> Values]
Stored == Objects \cup {Absent}
Sets == {{}} \cup UNION {Menu[c] : c \in Callers}
Kinds == PruneTypes \cup {d.gvk : d \in UNION Sets}
Ops == {"create", "update", "delete", "drop", "recreate"}
AllRequests == [op : Ops, key : Keys, old : Stored, new : Content]
Calls == [pc : {"idle", "run", "get"}, set : Sets, gvks : Seq(Kinds), todo : SUBSET AllRequests, failed : BOOLEAN]

\* The types of the variables.
Types ==
    /\ obj \in [Keys -> Stored] /\ cache \in [Keys -> Stored] /\ news \subseteq Keys
    /\ desired \in [Callers -> Sets] /\ due \in [Callers -> BOOLEAN] /\ call \in [Callers -> Calls]
    /\ missed \in [Callers -> SUBSET Keys] /\ gone \subseteq DOMAIN OwnerNs

\* A caller wants something from its menu; a call is about what it was begun
\* with, which is still wanted unless the caller is due again.
CallAt(c) ==
    /\ desired[c] \in Menu[c]
    /\ call[c].pc = "idle" => call[c].todo = {} /\ ~call[c].failed
    /\ call[c].gvks # <<>> => call[c].set \in Menu[c]
    /\ call[c].pc # "idle" /\ ~due[c] => call[c].set = desired[c]
    /\ call[c].pc = "get" => Req(c) \in call[c].todo /\ Req(c).op \in {"create", "recreate"}

\* A request is for an object of the set, or deletes one.
RequestsAt(c) == \A r \in call[c].todo :
    /\ r.op \in {"create", "recreate"} => r.old = Absent
    /\ r.op = "update" => r.old # Absent
    /\ r.op # "delete" => \E d \in UNION Menu[c] : r.key = KeyOf(c, d) /\ r.new = New(c, d)

\* The informer is behind only where there are news.
NewsOk == \A k \in Keys : k \notin news => cache[k] = obj[k]

Base == Types /\ (\A c \in Callers : CallAt(c) /\ RequestsAt(c)) /\ NewsOk

\* Object k is as the informer has delivered it, and the caller is not due.
Fresh(c, k) == ~due[c] /\ k \notin news

\* A request that will change object k, or fail.
Pending(c, k, new) == \E r \in call[c].todo :
    /\ r.key = k /\ r.new = new
    /\ \/ r.op \in {"create", "drop"}
       \/ r.op = "update" /\ r.old = obj[k] /\ ThreeWay(obj[k].applied, new, obj[k].c) # NoPatch

\* An object that the caller wants is as it wants it, or has left its set
\* without the triggers telling it.
Agreed(c, d) == Settled(c, d) \/ KeyOf(c, d) \in missed[c]

\* Whatever was delivered and is wanted is as the caller wants it, or its call has
\* not come to it yet, or will change it; and the same for what it does not want.
WantAt(c) == \A d \in desired[c] :
    Fresh(c, KeyOf(c, d)) /\ ~call[c].failed =>
       \/ Agreed(c, d)
       \/ call[c].pc # "idle" /\ (d.gvk \in ToSet(call[c].gvks) \/ Pending(c, KeyOf(c, d), New(c, d)))
PruneAt(c) == \A k \in Keys :
    Fresh(c, k) /\ ~call[c].failed /\ c \notin NoPrune /\ Mine(c, obj[k]) /\ Prunable(obj[k]) =>
       \/ \E d \in desired[c] : KeyOf(c, d) = k
       \/ call[c].pc # "idle" /\ \/ \E gvk \in ToSet(call[c].gvks) : gvk.gk = k.gk
                                 \/ \E r \in call[c].todo : r.op = "delete" /\ r.key = k

\* Everything with a label is of a kind to prune.
Pruned(k) == \E gvk \in PruneTypes : gvk.gk = k.gk
LabelOk == \A k \in Keys : \A o \in {obj[k], cache[k]} : o # Absent /\ o.c["hash"] # Unset => Pruned(k)

Live == LabelOk /\ \A c \in Callers : WantAt(c) /\ PruneAt(c)

\* The types of the registrations.
Registered ==
    /\ byName \in [Callers -> SUBSET Keys]
    /\ byLabel \in [Callers -> SUBSET {gvk.gk : gvk \in Kinds}]

\* A kind that the call has not come to yet.
Ahead(c, gvk) == call[c].pc # "idle" /\ gvk \in ToSet(call[c].gvks)

\* A caller that is not due has registered what it has listed: its objects by
\* name if they have no label, and otherwise every kind with its selector.
ListedAt(c) == ~due[c] =>
    IF Id(c) = Unset THEN \A d \in desired[c] : Ahead(c, d.gvk) \/ KeyOf(c, d) \in byName[c]
    ELSE \A gvk \in PruneTypes \cup {d.gvk : d \in desired[c]} : Ahead(c, gvk) \/ gvk.gk \in byLabel[c]

\* A request of the call creates object k.
Creates(c, k, new) == \E r \in call[c].todo : r.op = "create" /\ r.key = k /\ r.new = new

\* What it wants and did not find by its label it has registered by name, or
\* will when it creates it.
FoundAt(c) == ~due[c] /\ Id(c) # Unset => \A d \in desired[c] :
    \/ Mine(c, cache[KeyOf(c, d)])
    \/ KeyOf(c, d) \in byName[c] \cup missed[c]
    \/ d.opts = "noCreate"
    \/ Ahead(c, d.gvk)
    \/ Creates(c, KeyOf(c, d), New(c, d))

Told == Registered /\ \A c \in Callers : ListedAt(c) /\ FoundAt(c)
Inv == Base /\ Told /\ Live

-------------------------------------------------------------------------------
(* Objects                                                                 *)

LEMMA FieldsOk == {"hash", "ann", "opts", "sel", "f", "ref"} = Fields
BY DEF Fields, DataFields

\* What a caller wants of an object carries its identity and its options.
LEMMA NewOk ==
    ASSUME NEW c \in Callers, NEW d \in UNION Menu[c]
    PROVE  New(c, d) \in Content /\ New(c, d)["hash"] = Id(c) /\ New(c, d)["opts"] = d.opts
<1>1. \A f \in Fields : New(c, d)[f] \in Values
  <2>1. SUFFICES ASSUME NEW f \in Fields PROVE New(c, d)[f] \in Values
    OBVIOUS
  <2>2. New(c, d)[f] \in ValuesOf(c)
    BY DEF ValuesOf
  <2>3. New(c, d)[f] \in UNION {ValuesOf(b) : b \in Callers}
    BY <2>2
  <2>4. QED
    BY <2>3 DEF Values
<1>2. New(c, d) = [f \in Fields |-> New(c, d)[f]]
  BY DEF New
<1>3. New(c, d) \in Content
  BY <1>1, <1>2 DEF Content
<1>4. New(c, d)["hash"] = Id(c) /\ New(c, d)["opts"] = d.opts
  BY FieldsOk DEF New
<1>5. QED
  BY <1>3, <1>4

LEMMA NothingOk == Nothing \in Content /\ Unset \in Values /\ Vals \subseteq Values
BY DEF Nothing, Content, Values

\* A patch that is empty leaves what is wanted.
LEMMA NoPatchOk ==
    ASSUME NEW a \in Content, NEW n \in Content, NEW o \in Content, ThreeWay(a, n, o) = NoPatch
    PROVE  \A f \in Fields : n[f] # Unset => o[f] = n[f]
<1>1. SUFFICES ASSUME NEW f \in Fields, n[f] # Unset, o[f] # n[f] PROVE FALSE
  OBVIOUS
<1>2. ThreeWay(a, n, o)[f] = n[f]
  BY <1>1 DEF ThreeWay
<1>3. NoPatch[f] = Keep
  BY DEF NoPatch
<1>4. n[f] \in Values
  BY DEF Content
<1>5. QED
  BY <1>2, <1>3, <1>4, ApplyAssumption

\* The server makes an object of a patch; a label in it is an old or a new one.
LEMMA PatchedOk ==
    ASSUME NEW cur \in Objects, NEW old \in Objects, NEW n \in Content
    PROVE  /\ Patched(cur, old, n) \in Objects
           /\ Patched(cur, old, n).c["hash"] # Unset => cur.c["hash"] # Unset \/ n["hash"] # Unset
<1> DEFINE patch == ThreeWay(old.applied, n, old.c)
           content == [f \in Fields |-> IF patch[f] = Keep THEN cur.c[f] ELSE patch[f]]
           applied == IF n # old.applied THEN n ELSE cur.applied
<1>1. cur.c \in Content /\ cur.applied \in Content /\ old.c \in Content /\ old.applied \in Content
  BY DEF Objects, Content
<1>2. \A f \in Fields : patch[f] \in {Keep, Unset, n[f]}
  BY DEF ThreeWay
<1> HIDE DEF patch
<1>3. \A f \in Fields : content[f] \in Values /\ content[f] \in {cur.c[f], Unset, n[f]}
  BY <1>1, <1>2, NothingOk DEF Content
<1>4. content \in Content
  BY <1>3 DEF Content
<1>5. Patched(cur, old, n) = [cur EXCEPT !.c = content, !.applied = applied]
  BY DEF Patched, patch, Objects
<1>6. applied \in Content
  BY <1>1
<1>7. content["hash"] \in {cur.c["hash"], Unset, n["hash"]}
  BY <1>3, FieldsOk
<1> HIDE DEF content, applied
<1>8. Patched(cur, old, n) \in Objects /\ Patched(cur, old, n).c = content
  BY <1>4, <1>5, <1>6 DEF Objects, Content
<1>9. QED
  BY <1>7, <1>8

\* A patch that is not empty changes the object that it was made for: its
\* content or the record of what was applied.
LEMMA PatchedDiffers ==
    ASSUME NEW o \in Objects, NEW n \in Content, ThreeWay(o.applied, n, o.c) # NoPatch
    PROVE  Patched(o, o, n) # o
<1> DEFINE patch == ThreeWay(o.applied, n, o.c)
           content == [f \in Fields |-> IF patch[f] = Keep THEN o.c[f] ELSE patch[f]]
           applied == IF n # o.applied THEN n ELSE o.applied
<1>1. PICK f \in Fields : patch[f] # Keep
  <2>1. patch = [f \in Fields |-> patch[f]]
    BY DEF ThreeWay
  <2>2. patch # NoPatch
    OBVIOUS
  <2> HIDE DEF patch
  <2>3. QED
    BY <2>1, <2>2 DEF NoPatch
<1>2. Patched(o, o, n) = [o EXCEPT !.c = content, !.applied = applied]
  BY DEF Patched, Objects
<1>3. Patched(o, o, n).c = content /\ Patched(o, o, n).applied = applied
  <2> HIDE DEF content, applied
  <2>1. QED
    BY <1>2 DEF Objects
<1>4. CASE n[f] # Unset /\ n[f] # o.c[f]
  <2>1. patch[f] = n[f]
    BY <1>4 DEF ThreeWay
  <2> HIDE DEF patch
  <2>2. content[f] = n[f]
    BY <1>1, <2>1
  <2>3. QED
    BY <1>3, <1>4, <2>2
<1>5. CASE n[f] = Unset /\ o.applied[f] # Unset
  <2>1. applied = n
    BY <1>5
  <2>2. QED
    BY <1>3, <1>5, <2>1
<1>6. QED
  BY <1>1, <1>4, <1>5 DEF ThreeWay

-------------------------------------------------------------------------------
(* Sequences of kinds                                                      *)

LEMMA SetToSeqOk ==
    ASSUME NEW S, IsFiniteSet(S)
    PROVE  SetToSeq(S) \in Seq(S) /\ ToSet(SetToSeq(S)) = S
<1>1. PICK n \in Nat : n = Cardinality(S)
  BY FS_CardinalityType
<1>2. \E f \in [1..n -> S] : IsInjective(f)
  <2>1. PICK f : f \in Bijection(1..n, S)
    BY <1>1, FS_CardinalityType DEF ExistsBijection
  <2>2. f \in [1..n -> S] /\ \A a, b \in 1..n : f[a] = f[b] => a = b
    BY <2>1 DEF Bijection, Injection, IsInjective
  <2>3. QED
    BY <2>2 DEF IsInjective
<1>3. PICK f \in [1..n -> S] : f = SetToSeq(S) /\ IsInjective(f)
  BY <1>1, <1>2 DEF SetToSeq
<1>4. f \in Seq(S)
  BY <1>1
<1>5. ToSet(f) = S
  <2>1. SUFFICES ASSUME NEW x \in S, x \notin ToSet(f) PROVE FALSE
    BY DEF ToSet
  <2>2. IsFiniteSet(S \ {x}) /\ Cardinality(S \ {x}) = n - 1
    BY <1>1, <2>1, FS_RemoveElement
  <2>3. IsFiniteSet(1..n) /\ Cardinality(1..n) = n
    BY FS_Interval
  <2>4. f \in [1..n -> S \ {x}]
    BY <2>1 DEF ToSet
  <2>5. \E a, b \in 1..n : a # b /\ f[a] = f[b]
    BY <2>2, <2>3, <2>4, FS_PigeonHole
  <2>6. QED
    BY <1>3, <2>5 DEF IsInjective
<1>6. QED
  BY <1>3, <1>4, <1>5

LEMMA HeadTail ==
    ASSUME NEW S, NEW s \in Seq(S), s # <<>>
    PROVE  Head(s) \in S /\ Tail(s) \in Seq(S) /\ ToSet(s) \subseteq {Head(s)} \cup ToSet(Tail(s))
<1>1. PICK l \in Nat : l = Len(s) /\ l > 0 /\ DOMAIN s = 1..l
  OBVIOUS
<1>2. Head(s) \in S /\ Tail(s) \in Seq(S)
  BY <1>1
<1>3. DOMAIN Tail(s) = 1..(l - 1) /\ \A i \in 1..(l - 1) : Tail(s)[i] = s[i + 1]
  BY <1>1
<1>4. SUFFICES ASSUME NEW i \in 1..l PROVE s[i] \in {Head(s)} \cup ToSet(Tail(s))
  BY <1>1, <1>2 DEF ToSet
<1>5. CASE i = 1
  BY <1>5
<1>6. CASE i # 1
  <2>1. i - 1 \in 1..(l - 1) /\ (i - 1) + 1 = i
    BY <1>6
  <2>2. Tail(s)[i - 1] = s[i]
    BY <1>3, <2>1
  <2>3. QED
    BY <1>3, <2>1, <2>2 DEF ToSet
<1>7. QED
  BY <1>5, <1>6

LEMMA ConcatSet ==
    ASSUME NEW S, NEW a \in Seq(S), NEW b \in Seq(S)
    PROVE  a \o b \in Seq(S) /\ ToSet(a) \cup ToSet(b) \subseteq ToSet(a \o b)
<1>1. PICK m \in Nat, n \in Nat : m = Len(a) /\ n = Len(b)
  OBVIOUS
<1>2. a \o b \in Seq(S) /\ Len(a \o b) = m + n
  BY <1>1
<1>3. DOMAIN (a \o b) = 1..(m + n) /\ DOMAIN a = 1..m /\ DOMAIN b = 1..n
  BY <1>1, <1>2
<1>4. \A i \in 1..m : (a \o b)[i] = a[i] /\ i \in 1..(m + n)
  BY <1>1
<1>5. \A i \in 1..n : (a \o b)[m + i] = b[i] /\ m + i \in 1..(m + n)
  BY <1>1
<1>6. QED
  BY <1>2, <1>3, <1>4, <1>5 DEF ToSet

\* A call goes through all kinds of its set and all kinds to prune.
LEMMA GVKOrderOk ==
    ASSUME NEW c \in Callers, NEW set \in Menu[c]
    PROVE  /\ GVKOrder(set) \in Seq(Kinds) /\ PruneTypes \subseteq ToSet(GVKOrder(set))
           /\ \A d \in set : d.gvk \in ToSet(GVKOrder(set))
<1> DEFINE seen == {d.gvk : d \in set}
           rest == PruneTypes \ seen
<1>1. IsFiniteSet(seen) /\ IsFiniteSet(rest)
  <2>1. IsFiniteSet(set) /\ IsFiniteSet(PruneTypes)
    BY ApplyAssumption
  <2>2. IsFiniteSet(rest)
    BY <2>1, FS_Difference
  <2> DEFINE g == [d \in set |-> d.gvk]
  <2>3. g \in Surjection(set, seen)
    BY DEF Surjection
  <2>4. IsFiniteSet(seen)
    BY <2>1, <2>3, FS_Surjection DEF ExistsSurjection
  <2>5. QED
    BY <2>2, <2>4
<1>2. seen \subseteq Kinds /\ rest \subseteq Kinds
  BY DEF Kinds, Sets
<1>3. GVKOrder(set) = SetToSeq(seen) \o SetToSeq(rest)
  BY DEF GVKOrder
<1> HIDE DEF seen, rest
<1>4. /\ SetToSeq(seen) \in Seq(seen) /\ ToSet(SetToSeq(seen)) = seen
      /\ SetToSeq(rest) \in Seq(rest) /\ ToSet(SetToSeq(rest)) = rest
  BY <1>1, SetToSeqOk
<1>5. SetToSeq(seen) \in Seq(Kinds) /\ SetToSeq(rest) \in Seq(Kinds)
  BY <1>2, <1>4
<1>6. GVKOrder(set) \in Seq(Kinds) /\ seen \cup rest \subseteq ToSet(GVKOrder(set))
  BY <1>3, <1>4, <1>5, ConcatSet
<1>7. QED
  BY <1>6 DEF seen, rest

-------------------------------------------------------------------------------
(* Requests                                                                *)

LEMMA Least ==
    ASSUME NEW S \in SUBSET Nat, S # {}
    PROVE  \E x \in S : \A y \in S : x <= y
<1>1. PICK x \in S : \A y \in S : ~(<<y, x>> \in OpToRel(<, Nat))
  BY NatLessThanWellFounded, WFMin, Zenon
<1>2. \A y \in S : ~(y < x)
  BY <1>1, Zenon DEF OpToRel
<1>3. QED
  BY <1>2

\* The next request is one of those that are left.
LEMMA ReqIn ==
    ASSUME Types, NEW c \in Callers, call[c].todo # {}
    PROVE  Req(c) \in call[c].todo
<1>1. \A r \in call[c].todo : r.op \in Ops
  BY DEF Types, Calls, AllRequests
<1>2. \A op \in Ops : Order[op] \in Nat
  BY DEF Ops, Order
<1> DEFINE S == {Order[r.op] : r \in call[c].todo}
<1>3. S \in SUBSET Nat /\ S # {}
  BY <1>1, <1>2
<1>4. PICK x \in S : \A y \in S : x <= y
  BY <1>3, Least
<1>5. PICK r \in call[c].todo : Order[r.op] = x
  BY <1>4
<1>6. \A q \in call[c].todo : Order[r.op] <= Order[q.op]
  BY <1>4, <1>5
<1>7. QED
  BY <1>6 DEF Req

\* The requests for an object that exists: there are none if it is as wanted, as
\* far as its annotations allow, and otherwise one that will change it.
LEMMA RequestsOk ==
    ASSUME NEW c \in Callers, NEW d \in UNION Menu[c], NEW k \in Keys, k = KeyOf(c, d), NEW old \in Objects
    PROVE  /\ Requests(k, old, New(c, d)) \subseteq AllRequests
           /\ \A r \in Requests(k, old, New(c, d)) : /\ r.key = k /\ r.new = New(c, d)
                                                     /\ r.op \in {"update", "drop", "recreate"}
                                                     /\ r.op = "update" => r.old = old
                                                     /\ r.op = "recreate" => r.old = Absent
           /\ old = obj[k] =>
                \/ Settled(c, d)
                \/ \E r \in Requests(k, old, New(c, d)) :
                      r.op = "drop" \/ (r.op = "update" /\ ThreeWay(old.applied, New(c, d), old.c) # NoPatch)
<1>1. PICK n \in Content : n = New(c, d) /\ n["opts"] = d.opts
  BY NewOk
<1>2. old # Absent /\ old \in Stored /\ Absent \in Stored
  BY ApplyAssumption DEF Stored
<1>3. old.c \in Content /\ old.applied \in Content
  BY DEF Objects, Content
<1>4. /\ Request("update", k, old, n) \in AllRequests
      /\ Request("drop", k, Absent, n) \in AllRequests
      /\ Request("recreate", k, Absent, n) \in AllRequests
  BY <1>2 DEF Request, AllRequests, Ops
<1>5. /\ Verdict(k, old, n) = "same" => Requests(k, old, n) = {}
      /\ Verdict(k, old, n) = "patch" => Requests(k, old, n) = {Request("update", k, old, n)}
      /\ Verdict(k, old, n) = "replace" => Requests(k, old, n) = {Request("drop", k, Absent, n), Request("recreate", k, Absent, n)}
  BY DEF Requests
<1>6. Verdict(k, old, n) \in {"same", "patch", "replace"}
  BY DEF Verdict
<1>7. Requests(k, old, n) \subseteq AllRequests
  BY <1>4, <1>5, <1>6
<1>8. \A r \in Requests(k, old, n) : /\ r.key = k /\ r.new = n
                                     /\ r.op \in {"update", "drop", "recreate"}
                                     /\ r.op = "update" => r.old = old
                                     /\ r.op = "recreate" => r.old = Absent
  BY <1>5, <1>6 DEF Request
<1>9. ASSUME old = obj[k]
      PROVE  \/ Settled(c, d)
             \/ \E r \in Requests(k, old, n) : r.op = "drop" \/ (r.op = "update" /\ ThreeWay(old.applied, n, old.c) # NoPatch)
  <2>1. CASE Verdict(k, old, n) = "same"
    <3>1. CASE ~Should(n, "noUpdate")
      BY <1>1, <1>2, <1>9, <3>1 DEF Settled, Should
    <3>2. CASE ThreeWay(old.applied, n, old.c) = NoPatch
      <4>1. \A f \in Fields : n[f] # Unset => old.c[f] = n[f]
        BY <1>3, <3>2, NoPatchOk
      <4>2. QED
        BY <1>1, <1>2, <1>9, <4>1 DEF Settled
    <3>3. CASE Replaces(k, old, n) /\ n["opts"] # "update" /\ ~(Should(old.c, "noPrune") /\ Should(old.c, "noCreate"))
      BY <1>1, <1>2, <1>9, <3>3 DEF Settled, Should
    <3>4. QED
      BY <2>1, <3>1, <3>2, <3>3 DEF Verdict
  <2>2. CASE Verdict(k, old, n) = "patch"
    <3>1. ThreeWay(old.applied, n, old.c) # NoPatch
      BY <2>2 DEF Verdict
    <3>2. Request("update", k, old, n) \in Requests(k, old, n) /\ Request("update", k, old, n).op = "update"
      BY <1>5, <2>2 DEF Request
    <3>3. QED
      BY <3>1, <3>2
  <2>3. CASE Verdict(k, old, n) = "replace"
    <3>1. Request("drop", k, Absent, n) \in Requests(k, old, n) /\ Request("drop", k, Absent, n).op = "drop"
      BY <1>5, <2>3 DEF Request
    <3>2. QED
      BY <3>1
  <2>4. QED
    BY <1>6, <2>1, <2>2, <2>3
<1>10. QED
  BY <1>1, <1>7, <1>8, <1>9

\* A request that may be among those of a call of caller c.
Proper(c, r) ==
    /\ r \in AllRequests
    /\ r.op \in {"create", "recreate"} => r.old = Absent
    /\ r.op = "update" => r.old # Absent
    /\ r.op # "delete" => \E d \in UNION Menu[c] : r.key = KeyOf(c, d) /\ r.new = New(c, d)

\* What will change object k into what is wanted, or fail.
Changes(r, k, new) ==
    /\ r.key = k /\ r.new = new
    /\ \/ r.op \in {"create", "drop"}
       \/ r.op = "update" /\ r.old = obj[k] /\ ThreeWay(obj[k].applied, new, obj[k].c) # NoPatch

LEMMA PendingChanges ==
    ASSUME NEW c, NEW k, NEW new
    PROVE  Pending(c, k, new) <=> \E r \in call[c].todo : Changes(r, k, new)
BY DEF Pending, Changes

\* compareSets finds a request for everything that has to change, if it is as
\* the cache has it.
LEMMA ComparedOk ==
    ASSUME Types, NEW c \in Callers, NEW set \in Menu[c], NEW gvk
    PROVE  /\ \A r \in Compared(c, set, gvk) : Proper(c, r)
           /\ \A d \in set : d.gvk = gvk /\ cache[KeyOf(c, d)] = obj[KeyOf(c, d)] =>
                Settled(c, d) \/ \E r \in Compared(c, set, gvk) : Changes(r, KeyOf(c, d), New(c, d))
           /\ \A k \in Keys :
                (cache[k] = obj[k] /\ k.gk = gvk.gk /\ c \notin NoPrune
                 /\ Mine(c, obj[k]) /\ Prunable(obj[k]) /\ ~CrossVersion(set, k)) =>
                \/ \E d \in set : KeyOf(c, d) = k
                \/ \E r \in Compared(c, set, gvk) : r.op = "delete" /\ r.key = k
<1> DEFINE found == Listed(c, set, gvk)
           want == Wanted(c, set, gvk)
           of(k) == New(c, CHOOSE d \in set : d.gvk = gvk /\ KeyOf(c, d) = k)
           create == {k \in want \ found : Should(of(k), "noCreate")}
           delete == {k \in found \ want : c \notin NoPrune /\ Prunable(cache[k]) /\ ~CrossVersion(set, k)}
           C == {Request("create", k, Absent, of(k)) : k \in create}
           D == {Request("delete", k, Absent, Nothing) : k \in delete}
           U == UNION {Requests(k, cache[k], of(k)) : k \in want \cap found}
<1>1. Compared(c, set, gvk) = C \cup D \cup U
  BY Zenon DEF Compared
<1>2. found \subseteq Keys /\ \A k \in found : cache[k] # Absent
  BY DEF Listed
<1>3. \A d \in set : d \in UNION Menu[c] /\ KeyOf(c, d) \in Keys
  BY ApplyAssumption
<1>4. \A k \in want : \E d \in set : d.gvk = gvk /\ KeyOf(c, d) = k /\ of(k) = New(c, d)
  BY DEF Wanted
<1>5. \A d \in set : d.gvk = gvk => KeyOf(c, d) \in want /\ of(KeyOf(c, d)) = New(c, d)
  <2>1. SUFFICES ASSUME NEW d \in set, d.gvk = gvk PROVE KeyOf(c, d) \in want /\ of(KeyOf(c, d)) = New(c, d)
    OBVIOUS
  <2>2. KeyOf(c, d) \in want
    BY <2>1 DEF Wanted
  <2>3. \A e \in set : e.gvk = gvk /\ KeyOf(c, e) = KeyOf(c, d) => e = d
    BY <2>1, ApplyAssumption
  <2>4. QED
    BY <1>4, <2>2, <2>3
<1>6. \A k \in found : cache[k] \in Objects
  BY <1>2 DEF Types, Stored
<1>7. Absent \in Stored
  BY DEF Stored
<1> HIDE DEF found, want, of
<1>8. ASSUME NEW r \in C PROVE Proper(c, r)
  <2>1. PICK k \in want : r = Request("create", k, Absent, of(k))
    BY <1>8
  <2>2. PICK d \in set : KeyOf(c, d) = k /\ of(k) = New(c, d)
    BY <1>4
  <2>3. PICK n \in Content : n = of(k)
    BY <1>3, <2>2, NewOk
  <2>4. r = Request("create", k, Absent, n) /\ k \in Keys
    BY <1>3, <2>1, <2>2, <2>3
  <2>5. r \in AllRequests /\ r.op = "create" /\ r.old = Absent /\ r.key = k /\ r.new = n
    BY <1>7, <2>4 DEF Request, AllRequests, Ops
  <2>6. QED
    BY <1>3, <2>2, <2>3, <2>5 DEF Proper
<1>9. ASSUME NEW r \in D PROVE Proper(c, r)
  <2>1. PICK k \in Keys : r = Request("delete", k, Absent, Nothing)
    BY <1>2, <1>9
  <2>2. r \in AllRequests /\ r.op = "delete"
    BY <1>7, <2>1, NothingOk DEF Request, AllRequests, Ops
  <2>3. QED
    BY <2>2 DEF Proper
<1>10. ASSUME NEW r \in U PROVE Proper(c, r)
  <2>1. PICK k \in want \cap found : r \in Requests(k, cache[k], of(k))
    BY <1>10
  <2>2. PICK d \in set : KeyOf(c, d) = k /\ of(k) = New(c, d)
    BY <1>4, <2>1
  <2>3. cache[k] \in Objects /\ d \in UNION Menu[c] /\ k \in Keys
    BY <1>2, <1>3, <1>6, <2>1
  <2>4. /\ r \in AllRequests /\ r.key = k /\ r.new = New(c, d) /\ r.op \in {"update", "drop", "recreate"}
        /\ r.op = "update" => r.old = cache[k]
        /\ r.op = "recreate" => r.old = Absent
    BY <2>1, <2>2, <2>3, RequestsOk
  <2>5. cache[k] # Absent
    BY <1>2, <2>1
  <2>6. QED
    BY <2>2, <2>3, <2>4, <2>5 DEF Proper
<1>11. ASSUME NEW d \in set, d.gvk = gvk, cache[KeyOf(c, d)] = obj[KeyOf(c, d)]
       PROVE  Settled(c, d) \/ \E r \in Compared(c, set, gvk) : Changes(r, KeyOf(c, d), New(c, d))
  <2>1. PICK k \in want : k = KeyOf(c, d) /\ of(k) = New(c, d) /\ k \in Keys /\ d \in UNION Menu[c]
    BY <1>3, <1>5, <1>11
  <2>2. CASE k \in found
    <3>1. PICK old \in Objects : old = cache[k] /\ old = obj[k]
      BY <1>6, <1>11, <2>1, <2>2
    <3>2. \/ Settled(c, d)
          \/ \E r \in Requests(k, old, New(c, d)) :
                r.op = "drop" \/ (r.op = "update" /\ ThreeWay(old.applied, New(c, d), old.c) # NoPatch)
      BY <2>1, <3>1, RequestsOk
    <3>3. \A r \in Requests(k, old, New(c, d)) : r.key = k /\ r.new = New(c, d) /\ (r.op = "update" => r.old = old)
      BY <2>1, <3>1, RequestsOk
    <3>4. Requests(k, old, New(c, d)) \subseteq Compared(c, set, gvk)
      BY <1>1, <2>1, <2>2, <3>1
    <3>5. QED
      BY <2>1, <3>1, <3>2, <3>3, <3>4 DEF Changes
  <2>3. CASE k \notin found /\ Should(of(k), "noCreate")
    <3>1. Request("create", k, Absent, New(c, d)) \in Compared(c, set, gvk)
      BY <1>1, <2>1, <2>3
    <3>2. Changes(Request("create", k, Absent, New(c, d)), k, New(c, d))
      BY DEF Changes, Request
    <3>3. QED
      BY <2>1, <3>1, <3>2
  <2>4. CASE k \notin found /\ ~Should(of(k), "noCreate")
    <3>1. d.opts = "noCreate"
      BY <2>1, <2>4, NewOk DEF Should
    <3>2. obj[k] = Absent \/ (Id(c) # Unset /\ obj[k].c["hash"] # Id(c))
      <4>1. CASE Id(c) # Unset
        <5>1. k.gk = gvk.gk
          BY <1>11, <2>1, Zenon DEF KeyOf
        <5>2. QED
          BY <1>11, <2>1, <2>4, <4>1, <5>1 DEF found, Listed
      <4>2. CASE Id(c) = Unset
        BY <1>11, <2>1, <2>4, <4>2 DEF found, want, Listed
      <4>3. QED
        BY <4>1, <4>2
    <3>3. QED
      BY <2>1, <3>1, <3>2 DEF Settled
  <2>5. QED
    BY <2>2, <2>3, <2>4
<1>12. ASSUME NEW k \in Keys, cache[k] = obj[k], k.gk = gvk.gk, c \notin NoPrune,
              Mine(c, obj[k]), Prunable(obj[k]), ~CrossVersion(set, k)
       PROVE  \/ \E d \in set : KeyOf(c, d) = k
              \/ \E r \in Compared(c, set, gvk) : r.op = "delete" /\ r.key = k
  <2>1. k \in found
    BY <1>12 DEF found, Listed, Mine
  <2>2. CASE k \in want
    BY <1>4, <2>2
  <2>3. CASE k \notin want
    <3>1. Request("delete", k, Absent, Nothing) \in Compared(c, set, gvk)
      BY <1>1, <1>12, <2>1, <2>3
    <3>2. Request("delete", k, Absent, Nothing).op = "delete" /\ Request("delete", k, Absent, Nothing).key = k
      BY DEF Request
    <3>3. QED
      BY <3>1, <3>2
  <2>4. QED
    BY <2>2, <2>3
<1>13. \A r \in Compared(c, set, gvk) : Proper(c, r)
  <2> HIDE DEF C, D, U
  <2>1. QED
    BY <1>1, <1>8, <1>9, <1>10
<1> HIDE DEF C, D, U
<1>14. QED
  BY <1>11, <1>12, <1>13

-------------------------------------------------------------------------------
(* What a step does not disturb                                            *)

\* Caller c hears of what a step does to object k.
Heard(c, k) == Fresh(c, k)' => Fresh(c, k) /\ obj'[k] = obj[k]

LEMMA SettledSame ==
    ASSUME NEW c, NEW d, obj'[KeyOf(c, d)] = obj[KeyOf(c, d)], Settled(c, d)
    PROVE  Settled(c, d)'
BY DEF Settled

LEMMA AgreedSame ==
    ASSUME NEW c, NEW d, obj'[KeyOf(c, d)] = obj[KeyOf(c, d)], missed[c] \subseteq missed'[c], Agreed(c, d)
    PROVE  Agreed(c, d)'
<1>1. CASE Settled(c, d)
  <2>1. Settled(c, d)'
    BY <1>1, SettledSame
  <2>2. QED
    BY <2>1 DEF Agreed
<1>2. CASE KeyOf(c, d) \in missed[c]
  <2>1. KeyOf(c, d) \in missed'[c]
    BY <1>2
  <2>2. QED
    BY <2>1 DEF Agreed
<1>3. QED
  BY <1>1, <1>2 DEF Agreed

\* A caller whose call a step leaves alone: what it wants, and what it does not.
LEMMA BystanderWant ==
    ASSUME NEW c \in Callers, WantAt(c), call'[c] = call[c], missed[c] \subseteq missed'[c],
           NEW d \in desired[c], Heard(c, KeyOf(c, d)), Fresh(c, KeyOf(c, d))', ~call'[c].failed
    PROVE  \/ Agreed(c, d)'
           \/ call'[c].pc # "idle" /\ (d.gvk \in ToSet(call'[c].gvks) \/ Pending(c, KeyOf(c, d), New(c, d))')
<1>1. Fresh(c, KeyOf(c, d)) /\ obj'[KeyOf(c, d)] = obj[KeyOf(c, d)] /\ ~call[c].failed
  BY DEF Heard
<1>2. CASE Agreed(c, d)
  BY <1>1, <1>2, AgreedSame
<1>3. CASE call[c].pc # "idle" /\ d.gvk \in ToSet(call[c].gvks)
  BY <1>3
<1>4. CASE call[c].pc # "idle" /\ Pending(c, KeyOf(c, d), New(c, d))
  <2>1. Pending(c, KeyOf(c, d), New(c, d))'
    BY <1>1, <1>4 DEF Pending
  <2>2. QED
    BY <1>4, <2>1
<1>5. QED
  BY <1>1, <1>2, <1>3, <1>4 DEF WantAt

LEMMA BystanderPrune ==
    ASSUME NEW c \in Callers, PruneAt(c), call'[c] = call[c], desired'[c] = desired[c], c \notin NoPrune,
           NEW k \in Keys, Heard(c, k), Fresh(c, k)', ~call'[c].failed, Mine(c, obj'[k]), Prunable(obj'[k])
    PROVE  \/ \E d \in desired'[c] : KeyOf(c, d) = k
           \/ call'[c].pc # "idle" /\ \/ \E gvk \in ToSet(call'[c].gvks) : gvk.gk = k.gk
                                      \/ \E r \in call'[c].todo : r.op = "delete" /\ r.key = k
<1>1. Fresh(c, k) /\ obj'[k] = obj[k]
  BY DEF Heard
<1>2. QED
  BY <1>1 DEF PruneAt

LEMMA Bystander ==
    ASSUME NEW c \in Callers, WantAt(c), PruneAt(c), call'[c] = call[c], desired'[c] = desired[c],
           missed[c] \subseteq missed'[c],
           \A d \in desired[c] : Heard(c, KeyOf(c, d)),
           \A k \in Keys : Heard(c, k)
    PROVE  WantAt(c)' /\ PruneAt(c)'
<1>1. WantAt(c)'
  <2>1. ASSUME NEW d \in desired'[c], Fresh(c, KeyOf(c, d))', ~call'[c].failed
        PROVE  \/ Agreed(c, d)'
               \/ call'[c].pc # "idle" /\ (d.gvk \in ToSet(call'[c].gvks) \/ Pending(c, KeyOf(c, d), New(c, d))')
    BY <2>1, BystanderWant
  <2>2. QED
    BY <2>1 DEF WantAt
<1>2. PruneAt(c)'
  <2>1. ASSUME NEW k \in Keys, Fresh(c, k)', ~call'[c].failed, c \notin NoPrune, Mine(c, obj'[k]), Prunable(obj'[k])
        PROVE  \/ \E d \in desired'[c] : KeyOf(c, d) = k
               \/ call'[c].pc # "idle" /\ \/ \E gvk \in ToSet(call'[c].gvks) : gvk.gk = k.gk
                                          \/ \E r \in call'[c].todo : r.op = "delete" /\ r.key = k
    BY <2>1, BystanderPrune
  <2>2. QED
    BY <2>1 DEF PruneAt, Mine, Prunable, Should
<1>3. QED
  BY <1>1, <1>2

LEMMA BystanderCall ==
    ASSUME NEW c \in Callers, CallAt(c), RequestsAt(c), call'[c] = call[c], desired'[c] = desired[c], due[c] => due'[c]
    PROVE  CallAt(c)' /\ RequestsAt(c)'
<1>1. Req(c)' = Req(c)
  BY DEF Req
<1>2. QED
  BY <1>1 DEF CallAt, RequestsAt

LEMMA WantedKeys ==
    ASSUME Base, NEW c \in Callers, NEW d \in desired[c]
    PROVE  d \in UNION Menu[c] /\ KeyOf(c, d) \in Keys
BY ApplyAssumption DEF Base, CallAt

\* The server stores v: who is told of no news has missed nothing.
LEMMA WriteOk ==
    ASSUME Base, NEW k \in Keys, NEW v \in Stored, Write(k, v), UNCHANGED cache
    PROVE  /\ obj' \in [Keys -> Stored] /\ news' \subseteq Keys /\ NewsOk' /\ obj'[k] = v
           /\ \A j \in Keys : j \notin news' => j \notin news /\ obj'[j] = obj[j]
           /\ \A j \in Keys : j # k => obj'[j] = obj[j]
<1>1. obj \in [Keys -> Stored] /\ news \subseteq Keys /\ NewsOk
  BY DEF Base, Types
<1>2. obj' = [obj EXCEPT ![k] = v] /\ news' = IF v = obj[k] THEN news ELSE news \cup {k}
  BY DEF Write
<1>3. obj' \in [Keys -> Stored] /\ obj'[k] = v /\ \A j \in Keys : j # k => obj'[j] = obj[j]
  BY <1>1, <1>2
<1>4. news' \subseteq Keys /\ \A j \in Keys : j \notin news' => j \notin news /\ obj'[j] = obj[j]
  BY <1>1, <1>2, <1>3
<1>5. NewsOk'
  BY <1>1, <1>4 DEF NewsOk
<1>6. QED
  BY <1>3, <1>4, <1>5

\* The request leaves the call.
LEMMA DoneOk ==
    ASSUME Base, NEW c \in Callers, call[c].todo # {}, NEW f \in BOOLEAN, Done(c, f)
    PROVE  /\ call' \in [Callers -> Calls] /\ \A b \in Callers \ {c} : call'[b] = call[b]
           /\ call'[c].pc = "run" /\ call'[c].set = call[c].set /\ call'[c].gvks = call[c].gvks
           /\ call'[c].todo = call[c].todo \ {Req(c)}
           /\ ~call'[c].failed => ~call[c].failed /\ ~f
<1>1. call \in [Callers -> Calls]
  BY DEF Base, Types
<1>2. call[c] \in Calls
  BY <1>1
<1> DEFINE failed == call[c].failed \/ f
           todo == call[c].todo \ {Req(c)}
           new == [call[c] EXCEPT !.pc = "run", !.todo = todo, !.failed = failed]
<1>3. call' = [call EXCEPT ![c] = new]
  BY <1>1, <1>2 DEF Done, Calls
<1>4. failed \in BOOLEAN /\ todo \in SUBSET AllRequests
  BY <1>2 DEF Calls
<1>5. ~failed => ~call[c].failed /\ ~f
  OBVIOUS
<1> HIDE DEF failed, todo
<1>6. /\ new \in Calls /\ new.pc = "run" /\ new.set = call[c].set /\ new.gvks = call[c].gvks /\ new.todo = todo
      /\ new.failed = failed
  BY <1>2, <1>4 DEF Calls
<1> HIDE DEF new
<1>7. call' \in [Callers -> Calls] /\ call'[c] = new /\ \A b \in Callers \ {c} : call'[b] = call[b]
  BY <1>1, <1>3, <1>6
<1>8. QED
  BY <1>5, <1>6, <1>7 DEF todo

\* A caller makes a request, r: afterwards its call still has the others, and
\* what r was for is settled, changed or tried again, unless r has failed.
LEMMA RequestStep ==
    ASSUME Base, Types', NewsOk', NEW c \in Callers, NEW r \in call[c].todo, UNCHANGED <<desired, due, missed>>,
           \A b \in Callers \ {c} : call'[b] = call[b],
           call[c].pc # "idle", call'[c].pc \in {"run", "get"}, call'[c].set = call[c].set, call'[c].gvks = call[c].gvks,
           call'[c].pc = "get" => Req(c)' \in call'[c].todo /\ Req(c)'.op \in {"create", "recreate"},
           call[c].todo \ {r} \subseteq call'[c].todo, \A q \in call'[c].todo : Proper(c, q),
           ~call'[c].failed => ~call[c].failed,
           \A k \in Keys : k \notin news' => k \notin news /\ obj'[k] = obj[k],
           \A d \in desired[c] : (Fresh(c, KeyOf(c, d))' /\ ~call'[c].failed /\ Changes(r, KeyOf(c, d), New(c, d)))
                                 => Settled(c, d)' \/ Pending(c, KeyOf(c, d), New(c, d))',
           \A k \in Keys : (Fresh(c, k)' /\ ~call'[c].failed /\ r.op = "delete" /\ r.key = k)
                           => ~(Mine(c, obj'[k]) /\ Prunable(obj'[k])),
           Regular /\ LabelOk => LabelOk'
    PROVE  Base' /\ (Regular /\ Live => Live')
<1>1. \A b \in Callers \ {c} : CallAt(b)' /\ RequestsAt(b)'
  BY BystanderCall DEF Base
<1>2. CallAt(c)'
  BY DEF Base, CallAt
<1>3. RequestsAt(c)'
  BY DEF RequestsAt, Proper
<1>4. Base'
  BY <1>1, <1>2, <1>3 DEF Base
<1>5. \A b \in Callers : \A k \in Keys : Heard(b, k)
  BY DEF Heard, Fresh
<1>6. ASSUME Live, NEW b \in Callers \ {c} PROVE WantAt(b)' /\ PruneAt(b)'
  <2>1. \A d \in desired[b] : Heard(b, KeyOf(b, d))
    BY <1>5, WantedKeys
  <2>2. QED
    BY <1>5, <1>6, <2>1, Bystander DEF Live
<1>7. ASSUME Live PROVE WantAt(c)'
  <2>1. ASSUME NEW d \in desired'[c], Fresh(c, KeyOf(c, d))', ~call'[c].failed
        PROVE  \/ Agreed(c, d)'
               \/ call'[c].pc # "idle" /\ (d.gvk \in ToSet(call'[c].gvks) \/ Pending(c, KeyOf(c, d), New(c, d))')
    <3>1. d \in desired[c] /\ KeyOf(c, d) \in Keys
      BY WantedKeys
    <3>2. Fresh(c, KeyOf(c, d)) /\ obj'[KeyOf(c, d)] = obj[KeyOf(c, d)] /\ ~call[c].failed
      BY <1>5, <2>1, <3>1 DEF Heard
    <3>3. CASE Agreed(c, d)
      BY <3>2, <3>3, AgreedSame
    <3>4. CASE d.gvk \in ToSet(call[c].gvks)
      BY <3>4
    <3>5. CASE Pending(c, KeyOf(c, d), New(c, d))
      <4>1. PICK q \in call[c].todo : Changes(q, KeyOf(c, d), New(c, d))
        BY <3>5, PendingChanges
      <4>2. CASE q = r
        BY <2>1, <3>1, <4>1, <4>2 DEF Agreed
      <4>3. CASE q # r
        <5>1. q \in call'[c].todo
          BY <4>3
        <5>2. Pending(c, KeyOf(c, d), New(c, d))'
          BY <3>2, <4>1, <5>1 DEF Pending, Changes
        <5>3. QED
          BY <5>2
      <4>4. QED
        BY <4>2, <4>3
    <3>6. QED
      BY <1>7, <3>1, <3>2, <3>3, <3>4, <3>5 DEF Live, WantAt
  <2>2. QED
    BY <2>1 DEF WantAt
<1>8. ASSUME Live PROVE PruneAt(c)'
  <2>1. ASSUME NEW k \in Keys, Fresh(c, k)', ~call'[c].failed, c \notin NoPrune, Mine(c, obj'[k]), Prunable(obj'[k])
        PROVE  \/ \E d \in desired'[c] : KeyOf(c, d) = k
               \/ call'[c].pc # "idle" /\ \/ \E gvk \in ToSet(call'[c].gvks) : gvk.gk = k.gk
                                          \/ \E q \in call'[c].todo : q.op = "delete" /\ q.key = k
    <3>1. Fresh(c, k) /\ obj'[k] = obj[k] /\ ~call[c].failed
      BY <1>5, <2>1 DEF Heard
    <3>2. \/ \E d \in desired[c] : KeyOf(c, d) = k
          \/ \E gvk \in ToSet(call[c].gvks) : gvk.gk = k.gk
          \/ \E q \in call[c].todo : q.op = "delete" /\ q.key = k
      BY <1>8, <2>1, <3>1 DEF Live, PruneAt
    <3>3. ASSUME NEW q \in call[c].todo, q.op = "delete", q.key = k PROVE q \in call'[c].todo
      BY <2>1, <3>3
    <3>4. QED
      BY <3>2, <3>3
  <2>2. QED
    BY <2>1 DEF PruneAt, Mine, Prunable, Should
<1>9. QED
  BY <1>4, <1>6, <1>7, <1>8 DEF Live

-------------------------------------------------------------------------------
(* The requests of a call                                                  *)

LEMMA TodoProper ==
    ASSUME Base, NEW c \in Callers, NEW q \in call[c].todo
    PROVE  Proper(c, q) /\ call[c].pc # "idle"
<1>1. call[c] \in Calls /\ RequestsAt(c) /\ CallAt(c)
  BY DEF Base, Types
<1>2. q \in AllRequests
  BY <1>1 DEF Calls
<1>3. QED
  BY <1>1, <1>2 DEF RequestsAt, CallAt, Proper

\* The label of what is written is one whose kind is pruned.
LEMMA LabelWrite ==
    ASSUME Base, NEW k \in Keys, NEW v \in Stored, Write(k, v), UNCHANGED cache,
           v # Absent /\ v.c["hash"] # Unset => Pruned(k), LabelOk
    PROVE  LabelOk'
<1>1. obj'[k] = v /\ \A j \in Keys : j # k => obj'[j] = obj[j]
  BY WriteOk
<1>2. SUFFICES ASSUME NEW j \in Keys, NEW o \in {obj'[j], cache'[j]}, o # Absent, o.c["hash"] # Unset PROVE Pruned(j)
  BY Zenon DEF LabelOk, Pruned
<1>3. CASE o = v /\ j = k
  BY <1>2, <1>3
<1>4. CASE o \in {obj[j], cache[j]}
  BY <1>2, <1>4 DEF LabelOk
<1>5. QED
  BY <1>1, <1>2, <1>3, <1>4

LEMMA LabelNew ==
    ASSUME Regular, NEW c \in Callers, NEW r, Proper(c, r), r.op # "delete", r.new["hash"] # Unset
    PROVE  Pruned(r.key)
<1>1. PICK d \in UNION Menu[c] : r.key = KeyOf(c, d) /\ r.new = New(c, d)
  BY DEF Proper
<1>2. Id(c) # Unset
  BY <1>1, NewOk
<1>3. QED
  BY <1>1, <1>2 DEF Regular, Pruned

\* A request that is made, and has failed if f.
LEMMA RequestMade ==
    ASSUME Base, NEW c \in Callers, call[c].todo # {}, NEW r \in call[c].todo, r = Req(c),
           NEW f \in BOOLEAN, Done(c, f), UNCHANGED <<cache, desired, due, missed, gone>>,
           obj' \in [Keys -> Stored], news' \subseteq Keys, NewsOk',
           \A k \in Keys : k \notin news' => k \notin news /\ obj'[k] = obj[k],
           \A d \in desired[c] : (Fresh(c, KeyOf(c, d))' /\ ~f /\ Changes(r, KeyOf(c, d), New(c, d))) => Settled(c, d)',
           \A k \in Keys : (Fresh(c, k)' /\ ~f /\ r.op = "delete" /\ r.key = k)
                           => ~(Mine(c, obj'[k]) /\ Prunable(obj'[k])),
           Regular /\ LabelOk => LabelOk'
    PROVE  Base' /\ (Regular /\ Live => Live')
<1>1. /\ call' \in [Callers -> Calls] /\ \A b \in Callers \ {c} : call'[b] = call[b]
      /\ call'[c].pc = "run" /\ call'[c].set = call[c].set /\ call'[c].gvks = call[c].gvks
      /\ call'[c].todo = call[c].todo \ {r}
      /\ ~call'[c].failed => ~call[c].failed /\ ~f
  BY DoneOk
<1>2. Types'
  BY <1>1 DEF Base, Types
<1>3. call[c].pc # "idle" /\ \A q \in call'[c].todo : Proper(c, q)
  BY <1>1, TodoProper
<1>4. QED
  BY <1>1, <1>2, <1>3, RequestStep

LEMMA CreateStep ==
    ASSUME Base, NEW c \in Callers, NEW lost \in BOOLEAN, Create(c, lost)
    PROVE  Base' /\ (Regular /\ Live => Live')
<1>1. call[c].todo # {} /\ Req(c).op \in {"create", "recreate"}
  BY DEF Create, Doing
<1>2. PICK r \in call[c].todo : r = Req(c)
  <2>1. Req(c) \in call[c].todo
    BY <1>1, ReqIn DEF Base
  <2>2. QED
    BY <2>1, Zenon
<1>3. Proper(c, r) /\ r \in AllRequests
  BY TodoProper DEF Proper
<1>4. PICK k \in Keys : k = r.key
  BY <1>3 DEF AllRequests
<1>5. PICK n \in Content : n = r.new
  BY <1>3 DEF AllRequests
<1>6. PICK v \in Objects : v = [c |-> n, applied |-> n, deleting |-> FALSE]
  BY DEF Objects, Content
<1>7. v.c = n
  BY <1>6
<1>8. obj[k] = Absent /\ Write(k, v) /\ Done(c, lost) /\ UNCHANGED <<cache, desired, due, missed, gone>>
  BY <1>2, <1>4, <1>5, <1>6 DEF Create
<1>9. v \in Stored /\ v # Absent
  BY ApplyAssumption DEF Stored
<1>10. k \in news'
  BY <1>8, <1>9 DEF Write
<1>11. /\ obj' \in [Keys -> Stored] /\ news' \subseteq Keys /\ NewsOk'
       /\ \A j \in Keys : j \notin news' => j \notin news /\ obj'[j] = obj[j]
  BY <1>8, <1>9, WriteOk
<1>12. \A d : Changes(r, KeyOf(c, d), New(c, d)) => ~Fresh(c, KeyOf(c, d))'
  <2>1. SUFFICES ASSUME NEW d, Changes(r, KeyOf(c, d), New(c, d)) PROVE ~Fresh(c, KeyOf(c, d))'
    OBVIOUS
  <2>2. KeyOf(c, d) = k
    BY <1>4, <2>1 DEF Changes
  <2>3. QED
    BY <1>10, <2>2 DEF Fresh
<1>13. Regular /\ LabelOk => LabelOk'
  <2>1. SUFFICES ASSUME Regular, LabelOk PROVE LabelOk'
    OBVIOUS
  <2>2. v.c["hash"] # Unset => Pruned(k)
    BY <1>1, <1>2, <1>3, <1>4, <1>5, <1>7, <2>1, LabelNew
  <2>3. QED
    BY <1>8, <1>9, <2>1, <2>2, LabelWrite
<1>14. r.op # "delete"
  BY <1>1, <1>2
<1>15. QED
  BY <1>1, <1>2, <1>8, <1>11, <1>12, <1>13, <1>14, RequestMade

LEMMA UpdateStep ==
    ASSUME Base, NEW c \in Callers, NEW lost \in BOOLEAN, Update(c, lost)
    PROVE  Base' /\ (Regular /\ Live => Live')
<1>1. call[c].todo # {} /\ Req(c).op = "update"
  BY DEF Update, Doing
<1>2. PICK r \in call[c].todo : r = Req(c)
  <2>1. Req(c) \in call[c].todo
    BY <1>1, ReqIn DEF Base
  <2>2. QED
    BY <2>1, Zenon
<1>3. Proper(c, r) /\ r \in AllRequests /\ r.op = "update"
  BY <1>1, <1>2, TodoProper DEF Proper
<1>4. PICK k \in Keys : k = r.key
  BY <1>3 DEF AllRequests
<1>5. PICK n \in Content : n = r.new
  BY <1>3 DEF AllRequests
<1>6. PICK old \in Objects : old = r.old
  BY <1>3 DEF Proper, AllRequests, Stored
<1>7. PICK cur \in Stored : cur = obj[k]
  BY DEF Base, Types
<1>8. PICK v \in Stored : v = IF cur = Absent THEN Absent ELSE Patched(cur, old, n)
  BY PatchedOk DEF Stored
<1>9. PICK f \in BOOLEAN : f = (lost \/ cur = Absent)
  BY Zenon
<1>10. Write(k, v) /\ Done(c, f) /\ UNCHANGED <<cache, desired, due, missed, gone>>
  BY <1>2, <1>4, <1>5, <1>6, <1>7, <1>8, <1>9, Zenon DEF Update
<1>11. /\ obj' \in [Keys -> Stored] /\ news' \subseteq Keys /\ NewsOk'
       /\ \A j \in Keys : j \notin news' => j \notin news /\ obj'[j] = obj[j]
  BY <1>10, WriteOk
<1>12. ASSUME NEW d, Changes(r, KeyOf(c, d), New(c, d)), ~f PROVE ~Fresh(c, KeyOf(c, d))'
  <2>1. KeyOf(c, d) = k /\ New(c, d) = n /\ old = cur /\ ThreeWay(cur.applied, n, cur.c) # NoPatch
    BY <1>3, <1>4, <1>5, <1>6, <1>7, <1>12 DEF Changes
  <2>2. cur \in Objects /\ v = Patched(cur, cur, n)
    BY <1>6, <1>8, <2>1, ApplyAssumption
  <2>3. v # obj[k]
    BY <1>7, <2>1, <2>2, PatchedDiffers
  <2>4. QED
    BY <1>10, <2>1, <2>3 DEF Write, Fresh
<1>13. Regular /\ LabelOk => LabelOk'
  <2>1. SUFFICES ASSUME Regular, LabelOk PROVE LabelOk'
    OBVIOUS
  <2>2. v # Absent /\ v.c["hash"] # Unset => Pruned(k)
    <3>1. SUFFICES ASSUME v # Absent, v.c["hash"] # Unset PROVE Pruned(k)
      OBVIOUS
    <3>2. cur \in Objects /\ v = Patched(cur, old, n)
      BY <1>8, <3>1 DEF Stored
    <3>3. cur.c["hash"] # Unset \/ n["hash"] # Unset
      BY <3>1, <3>2, PatchedOk
    <3>4. CASE cur.c["hash"] # Unset
      BY <1>7, <1>8, <2>1, <3>1, <3>4 DEF LabelOk
    <3>5. CASE n["hash"] # Unset
      BY <1>3, <1>4, <1>5, <2>1, <3>5, LabelNew
    <3>6. QED
      BY <3>3, <3>4, <3>5
  <2>3. QED
    BY <1>10, <2>1, <2>2, LabelWrite
<1>14. r.op # "delete"
  BY <1>3
<1>15. QED
  BY <1>1, <1>2, <1>10, <1>11, <1>12, <1>13, <1>14, RequestMade

\* What is removed is gone or is being deleted, with its label.
LEMMA RemoveOk ==
    ASSUME Base, NEW k \in Keys, RemoveObject(k), UNCHANGED cache
    PROVE  /\ obj' \in [Keys -> Stored] /\ news' \subseteq Keys /\ NewsOk'
           /\ \A j \in Keys : j \notin news' => j \notin news /\ obj'[j] = obj[j]
           /\ obj'[k] # Absent => obj'[k].deleting
           /\ LabelOk => LabelOk'
<1>1. obj[k] \in Stored
  BY DEF Base, Types
<1>2. PICK v \in Stored : /\ v = IF obj[k] # Absent /\ k \in Finalized THEN [obj[k] EXCEPT !.deleting = TRUE] ELSE Absent
                          /\ v # Absent => v.deleting /\ obj[k] # Absent /\ v.c = obj[k].c
  <2>1. CASE obj[k] \in Objects
    <3>1. PICK o \in Objects : o = obj[k]
      BY <2>1
    <3> DEFINE w == [o EXCEPT !.deleting = TRUE]
    <3>2. w \in Objects /\ w.deleting /\ w.c = o.c
      BY DEF Objects
    <3> HIDE DEF w
    <3>3. w \in Stored /\ Absent \in Stored
      BY <3>2 DEF Stored
    <3>4. QED
      BY <3>1, <3>2, <3>3 DEF w
  <2>2. CASE obj[k] = Absent
    BY <2>2 DEF Stored
  <2>3. QED
    BY <1>1, <2>1, <2>2 DEF Stored
<1>3. Write(k, v)
  BY <1>2 DEF RemoveObject
<1>4. LabelOk => LabelOk'
  <2>1. SUFFICES ASSUME LabelOk PROVE LabelOk'
    OBVIOUS
  <2>2. v # Absent /\ v.c["hash"] # Unset => Pruned(k)
    BY <1>2, <2>1 DEF LabelOk
  <2>3. QED
    BY <1>3, <2>1, <2>2, LabelWrite
<1>5. /\ obj' \in [Keys -> Stored] /\ news' \subseteq Keys /\ NewsOk' /\ obj'[k] = v
      /\ \A j \in Keys : j \notin news' => j \notin news /\ obj'[j] = obj[j]
  BY <1>3, WriteOk
<1>6. QED
  BY <1>2, <1>4, <1>5

LEMMA DeleteStep ==
    ASSUME Base, NEW c \in Callers, NEW lost \in BOOLEAN, Delete(c, lost)
    PROVE  Base' /\ (Regular /\ Live => Live')
<1>1. call[c].todo # {} /\ Req(c).op \in {"delete", "drop"}
  BY DEF Delete, Doing
<1>2. PICK r \in call[c].todo : r = Req(c)
  <2>1. Req(c) \in call[c].todo
    BY <1>1, ReqIn DEF Base
  <2>2. QED
    BY <2>1, Zenon
<1>3. r \in AllRequests
  BY TodoProper DEF Proper
<1>4. PICK k \in Keys : k = r.key
  BY <1>3 DEF AllRequests
<1>5. PICK f \in BOOLEAN : f = (lost \/ obj[k] = Absent)
  BY Zenon
<1>6. RemoveObject(k) /\ Done(c, f) /\ UNCHANGED <<cache, desired, due, missed, gone>>
  BY <1>2, <1>4, <1>5, Zenon DEF Delete
<1>7. /\ obj' \in [Keys -> Stored] /\ news' \subseteq Keys /\ NewsOk'
      /\ \A j \in Keys : j \notin news' => j \notin news /\ obj'[j] = obj[j]
      /\ obj'[k] # Absent => obj'[k].deleting
      /\ LabelOk => LabelOk'
  BY <1>6, RemoveOk
<1>8. ASSUME k \notin news', ~f PROVE obj'[k] # Absent /\ obj'[k].deleting
  BY <1>5, <1>7, <1>8
<1>9. ASSUME NEW d, Fresh(c, KeyOf(c, d))', ~f, Changes(r, KeyOf(c, d), New(c, d)) PROVE Settled(c, d)'
  <2>1. KeyOf(c, d) = k
    BY <1>4, <1>9 DEF Changes
  <2>2. obj'[KeyOf(c, d)] # Absent /\ obj'[KeyOf(c, d)].deleting
    BY <1>8, <1>9, <2>1 DEF Fresh
  <2>3. QED
    BY <2>2 DEF Settled
<1>10. ASSUME NEW j \in Keys, Fresh(c, j)', ~f, r.key = j PROVE ~Prunable(obj'[j])
  BY <1>4, <1>8, <1>10 DEF Fresh, Prunable
<1>11. QED
  BY <1>1, <1>2, <1>6, <1>7, <1>9, <1>10, RequestMade

LEMMA RequestFailsStep ==
    ASSUME Base, NEW c \in Callers, RequestFails(c)
    PROVE  Base' /\ (Regular /\ Live => Live')
<1>1. PICK r \in call[c].todo : r = Req(c)
  <2>1. Req(c) \in call[c].todo
    BY ReqIn DEF Base, RequestFails
  <2>2. QED
    BY <2>1, Zenon
<1>2. PICK f \in BOOLEAN : f /\ Done(c, f)
  BY Zenon DEF RequestFails
<1>3. call[c].todo # {} /\ UNCHANGED <<obj, cache, news, desired, due, missed, gone>>
  BY DEF RequestFails
<1>4. obj \in [Keys -> Stored] /\ news \subseteq Keys /\ NewsOk
  BY DEF Base, Types
<1>5. NewsOk' /\ (LabelOk => LabelOk')
  BY <1>3, <1>4 DEF NewsOk, LabelOk
<1>6. QED
  BY <1>1, <1>2, <1>3, <1>4, <1>5, RequestMade

LEMMA AlreadyExistsStep ==
    ASSUME Base, NEW c \in Callers, AlreadyExists(c)
    PROVE  Base' /\ (Regular /\ Live => Live')
<1>1. call[c].todo # {} /\ Req(c).op \in {"create", "recreate"} /\ UNCHANGED <<obj, cache, news, desired, due, missed, gone>>
  BY DEF AlreadyExists, Doing
<1>2. PICK r \in call[c].todo : r = Req(c)
  <2>1. Req(c) \in call[c].todo
    BY <1>1, ReqIn DEF Base
  <2>2. QED
    BY <2>1, Zenon
<1>3. call \in [Callers -> Calls] /\ call[c] \in Calls
  BY DEF Base, Types
<1> DEFINE new == [call[c] EXCEPT !.pc = "get"]
<1>4. call' = [call EXCEPT ![c] = new]
  BY <1>3 DEF AlreadyExists
<1>5. /\ new \in Calls /\ new.pc = "get" /\ new.set = call[c].set /\ new.gvks = call[c].gvks /\ new.todo = call[c].todo
      /\ new.failed = call[c].failed
  BY <1>3 DEF Calls
<1> HIDE DEF new
<1>6. call' \in [Callers -> Calls] /\ call'[c] = new /\ \A b \in Callers \ {c} : call'[b] = call[b]
  BY <1>3, <1>4, <1>5
<1>7. Types' /\ NewsOk' /\ (LabelOk => LabelOk')
  BY <1>1, <1>6 DEF Base, Types, NewsOk, LabelOk
<1>8. Req(c)' = r
  BY <1>2, <1>5, <1>6 DEF Req
<1>9. call[c].pc # "idle" /\ \A q \in call'[c].todo : Proper(c, q)
  BY <1>5, <1>6, TodoProper
<1>10. \A d \in desired[c] : Changes(r, KeyOf(c, d), New(c, d)) => Pending(c, KeyOf(c, d), New(c, d))'
  BY <1>1, <1>5, <1>6 DEF Pending, Changes
<1>11. r.op # "delete"
  BY <1>1, <1>2
<1>12. QED
  BY <1>1, <1>2, <1>5, <1>6, <1>7, <1>8, <1>9, <1>10, <1>11, RequestStep

LEMMA GetExistingStep ==
    ASSUME Base, NEW c \in Callers, NEW seen \in {cache[Req(c).key], obj[Req(c).key]}, GetExisting(c, seen)
    PROVE  Base' /\ (Regular /\ Live => Live')
<1>1. call[c].pc = "get" /\ UNCHANGED <<obj, cache, news, desired, due, missed, gone>>
  BY DEF GetExisting
<1>2. PICK r \in call[c].todo : r = Req(c) /\ r.op \in {"create", "recreate"}
  BY <1>1, Zenon DEF Base, CallAt
<1>3. Proper(c, r) /\ r \in AllRequests /\ call[c].todo # {}
  BY TodoProper DEF Proper
<1>4. PICK k \in Keys : k = r.key
  BY <1>3 DEF AllRequests
<1>5. NewsOk /\ obj \in [Keys -> Stored] /\ cache \in [Keys -> Stored] /\ news \subseteq Keys
  BY DEF Base, Types
<1>6. NewsOk' /\ (LabelOk => LabelOk')
  BY <1>1, <1>5 DEF NewsOk, LabelOk
<1>7. seen \in Stored /\ (k \notin news => seen = obj[k])
  BY <1>2, <1>4, <1>5 DEF NewsOk
<1>8. PICK mine \in BOOLEAN : mine = (seen # Absent /\ \/ seen.c["ann"] = Id(c)
                                                       \/ seen.c["hash"] = Unset
                                                       \/ MayTakeOver(seen.c["ann"], Id(c)))
  BY Zenon
<1>9. CASE mine /\ r.op = "create"
  <2>1. PICK old \in Objects : old = seen
    BY <1>7, <1>8, <1>9 DEF Stored
  <2>2. PICK d \in UNION Menu[c] : k = KeyOf(c, d) /\ r.new = New(c, d)
    BY <1>2, <1>3, <1>4 DEF Proper
  <2> DEFINE more == Requests(k, old, New(c, d))
             todo == (call[c].todo \ {r}) \cup more
             new == [call[c] EXCEPT !.pc = "run", !.todo = todo]
  <2>3. /\ more \subseteq AllRequests
        /\ \A q \in more : /\ q.key = k /\ q.new = New(c, d)
                           /\ q.op \in {"update", "drop", "recreate"}
                           /\ q.op = "update" => q.old = old
                           /\ q.op = "recreate" => q.old = Absent
    BY <2>2, RequestsOk
  <2>4. old = obj[k] => \/ Settled(c, d)
                        \/ \E q \in more : q.op = "drop" \/ (q.op = "update" /\ ThreeWay(old.applied, New(c, d), old.c) # NoPatch)
    BY <2>2, RequestsOk
  <2>5. call \in [Callers -> Calls] /\ call[c] \in Calls
    BY DEF Base, Types
  <2>6. call' = [call EXCEPT ![c].pc = "run", ![c].todo = (@ \ {r}) \cup Requests(r.key, seen, r.new)]
    BY <1>2, <1>8, <1>9, Zenon DEF GetExisting
  <2>7. call' = [call EXCEPT ![c].pc = "run", ![c].todo = (@ \ {r}) \cup more]
    BY <1>4, <2>1, <2>2, <2>6
  <2> HIDE DEF more
  <2>8. call' = [call EXCEPT ![c] = new]
    BY <2>5, <2>7 DEF Calls
  <2>9. todo \in SUBSET AllRequests
    BY <2>3, <2>5 DEF Calls
  <2> HIDE DEF todo
  <2>10. /\ new \in Calls /\ new.pc = "run" /\ new.set = call[c].set /\ new.gvks = call[c].gvks /\ new.todo = todo
         /\ new.failed = call[c].failed
    BY <2>5, <2>9 DEF Calls
  <2> HIDE DEF new
  <2>11. call' \in [Callers -> Calls] /\ call'[c] = new /\ \A b \in Callers \ {c} : call'[b] = call[b]
    BY <2>5, <2>8, <2>10
  <2>12. Types'
    BY <1>1, <2>11 DEF Base, Types
  <2>13. old # Absent
    BY ApplyAssumption
  <2>14. \A q \in more : Proper(c, q)
    BY <2>2, <2>3, <2>13 DEF Proper
  <2>15. \A q \in call'[c].todo : Proper(c, q)
    BY <2>10, <2>11, <2>14, TodoProper DEF todo
  <2>16. ASSUME NEW e \in desired[c], Fresh(c, KeyOf(c, e))', Changes(r, KeyOf(c, e), New(c, e))
         PROVE  Settled(c, e)' \/ Pending(c, KeyOf(c, e), New(c, e))'
    <3>1. KeyOf(c, e) = k /\ New(c, e) = New(c, d) /\ e \in UNION Menu[c]
      BY <1>4, <2>2, <2>16, WantedKeys DEF Changes
    <3>2. old = obj[k]
      BY <1>1, <1>7, <2>1, <2>16, <3>1 DEF Fresh
    <3>3. \/ Settled(c, e)
          \/ \E q \in Requests(k, old, New(c, e)) : q.op = "drop" \/ (q.op = "update" /\ ThreeWay(old.applied, New(c, e), old.c) # NoPatch)
      BY <3>1, <3>2, RequestsOk
    <3>4. CASE Settled(c, e)
      BY <1>1, <3>4, SettledSame
    <3>5. ASSUME NEW q \in more, q.op = "drop" \/ (q.op = "update" /\ ThreeWay(old.applied, New(c, d), old.c) # NoPatch)
          PROVE  Pending(c, KeyOf(c, e), New(c, e))'
      <4>1. q \in call'[c].todo /\ q.key = KeyOf(c, e) /\ q.new = New(c, e)
        BY <2>3, <2>10, <2>11, <3>1 DEF todo
      <4>2. obj'[KeyOf(c, e)] = old /\ (q.op = "update" => q.old = old)
        BY <1>1, <2>3, <3>1, <3>2
      <4>3. QED
        BY <3>1, <3>5, <4>1, <4>2 DEF Pending
    <3>6. QED
      BY <3>1, <3>3, <3>4, <3>5 DEF more
  <2>17. call[c].todo \ {r} \subseteq call'[c].todo
    BY <2>10, <2>11 DEF todo
  <2>18. call[c].pc # "idle" /\ call'[c].pc = "run" /\ call'[c].failed = call[c].failed /\ r.op # "delete"
    BY <1>1, <1>9, <2>10, <2>11
  <2>19. call'[c].set = call[c].set /\ call'[c].gvks = call[c].gvks
    BY <2>10, <2>11
  <2>20. QED
    BY <1>1, <1>6, <2>11, <2>12, <2>15, <2>16, <2>17, <2>18, <2>19, RequestStep
<1>10. CASE ~(mine /\ r.op = "create")
  <2>1. PICK f \in BOOLEAN : f = ~mine
    BY Zenon
  <2>2. Done(c, f)
    BY <1>2, <1>8, <1>10, <2>1, Zenon DEF GetExisting
  <2>3. ~f => r.op = "recreate"
    BY <1>2, <1>10, <2>1
  <2>4. \A d : Changes(r, KeyOf(c, d), New(c, d)) => f
    BY <2>3 DEF Changes
  <2>5. r.op # "delete"
    BY <1>2
  <2>6. QED
    BY <1>1, <1>2, <1>3, <1>5, <1>6, <2>2, <2>4, <2>5, RequestMade
<1>11. QED
  BY <1>9, <1>10

-------------------------------------------------------------------------------
(* The kinds of a call                                                     *)

\* A caller that a step of another one leaves alone.
LEMMA Other ==
    ASSUME Base, NEW b \in Callers, call'[b] = call[b], desired'[b] = desired[b], due'[b] = due[b],
           missed'[b] = missed[b],
           \A k \in Keys : k \notin news' => k \notin news /\ obj'[k] = obj[k]
    PROVE  CallAt(b)' /\ RequestsAt(b)' /\ (WantAt(b) /\ PruneAt(b) => WantAt(b)' /\ PruneAt(b)')
<1>1. CallAt(b)' /\ RequestsAt(b)'
  BY BystanderCall DEF Base
<1>2. \A k \in Keys : Heard(b, k)
  BY DEF Heard, Fresh
<1>3. \A d \in desired[b] : Heard(b, KeyOf(b, d))
  BY <1>2, WantedKeys
<1>4. QED
  BY <1>1, <1>2, <1>3, Bystander

\* process for one kind: whatever was left to it is settled or has a request.
LEMMA CompareStep ==
    ASSUME Base, NEW c \in Callers, NEW set \in Menu[c], NEW gvk, UNCHANGED <<obj, cache, news, desired, gone>>,
           call' \in [Callers -> Calls], due' \in [Callers -> BOOLEAN], missed' \in [Callers -> SUBSET Keys],
           \A b \in Callers \ {c} : call'[b] = call[b] /\ due'[b] = due[b] /\ missed'[b] = missed[b],
           call'[c].pc = "run", call'[c].set = set, call'[c].todo = Compared(c, set, gvk), ~due'[c] => set = desired[c],
           \A d \in desired[c] : (Live /\ Fresh(c, KeyOf(c, d))' /\ ~call'[c].failed)
                                 => Agreed(c, d)' \/ d.gvk \in {gvk} \cup ToSet(call'[c].gvks),
           \A k \in Keys : (Live /\ Fresh(c, k)' /\ ~call'[c].failed /\ c \notin NoPrune /\ Mine(c, obj[k]) /\ Prunable(obj[k]))
                           => \/ \E d \in desired[c] : KeyOf(c, d) = k
                              \/ \E g \in {gvk} \cup ToSet(call'[c].gvks) : g.gk = k.gk
    PROVE  Base' /\ (Regular /\ Live => Live')
<1>1. Types /\ NewsOk /\ desired[c] \in Menu[c]
  BY DEF Base, CallAt
<1>2. Types' /\ NewsOk' /\ (LabelOk => LabelOk')
  BY <1>1 DEF Types, NewsOk, LabelOk
<1>3. \A b \in Callers \ {c} : CallAt(b)' /\ RequestsAt(b)' /\ (WantAt(b) /\ PruneAt(b) => WantAt(b)' /\ PruneAt(b)')
  BY Other
<1>4. CallAt(c)'
  BY <1>1 DEF CallAt
<1>5. RequestsAt(c)'
  BY <1>1, ComparedOk DEF RequestsAt, Proper
<1>6. \A k \in Keys : Fresh(c, k)' => cache[k] = obj[k] /\ set = desired[c]
  BY <1>1 DEF Fresh, NewsOk
<1>7. ASSUME Regular, Live PROVE WantAt(c)'
  <2>1. ASSUME NEW d \in desired'[c], Fresh(c, KeyOf(c, d))', ~call'[c].failed
        PROVE  \/ Agreed(c, d)'
               \/ call'[c].pc # "idle" /\ (d.gvk \in ToSet(call'[c].gvks) \/ Pending(c, KeyOf(c, d), New(c, d))')
    <3>1. d \in desired[c] /\ KeyOf(c, d) \in Keys
      BY WantedKeys
    <3>2. cache[KeyOf(c, d)] = obj[KeyOf(c, d)] /\ d \in set
      BY <1>6, <2>1, <3>1
    <3>3. CASE Settled(c, d)
      <4>1. Settled(c, d)'
        BY <3>3, SettledSame
      <4>2. QED
        BY <4>1 DEF Agreed
    <3>4. CASE d.gvk = gvk /\ ~Settled(c, d)
      <4>1. PICK r \in Compared(c, set, gvk) : Changes(r, KeyOf(c, d), New(c, d))
        BY <1>1, <3>2, <3>4, ComparedOk
      <4>2. Pending(c, KeyOf(c, d), New(c, d))'
        BY <4>1 DEF Pending, Changes
      <4>3. QED
        BY <4>2
    <3>5. CASE d.gvk \in ToSet(call'[c].gvks)
      BY <3>5
    <3>6. QED
      BY <1>7, <2>1, <3>1, <3>3, <3>4, <3>5
  <2>2. QED
    BY <2>1 DEF WantAt
<1>8. ASSUME Regular, Live PROVE PruneAt(c)'
  <2>1. ASSUME NEW k \in Keys, Fresh(c, k)', ~call'[c].failed, c \notin NoPrune, Mine(c, obj[k]), Prunable(obj[k])
        PROVE  \/ \E d \in desired'[c] : KeyOf(c, d) = k
               \/ call'[c].pc # "idle" /\ \/ \E g \in ToSet(call'[c].gvks) : g.gk = k.gk
                                          \/ \E q \in call'[c].todo : q.op = "delete" /\ q.key = k
    <3>1. cache[k] = obj[k] /\ set = desired[c]
      BY <1>6, <2>1
    <3>2. CASE k.gk = gvk.gk
      <4>1. CASE CrossVersion(set, k)
        BY <1>7, <1>8, <3>1, <4>1 DEF Regular
      <4>2. CASE ~CrossVersion(set, k)
        <5>1. Mine(c, obj[k]) /\ Prunable(obj[k]) /\ c \notin NoPrune
          BY <2>1
        <5>2. \/ \E d \in set : KeyOf(c, d) = k
              \/ \E r \in Compared(c, set, gvk) : r.op = "delete" /\ r.key = k
          BY <1>1, <3>1, <3>2, <4>2, <5>1, ComparedOk
        <5>3. CASE \E d \in set : KeyOf(c, d) = k
          BY <3>1, <5>3
        <5>4. CASE \E r \in Compared(c, set, gvk) : r.op = "delete" /\ r.key = k
          <6>1. call'[c].pc # "idle" /\ \E r \in call'[c].todo : r.op = "delete" /\ r.key = k
            BY <5>4
          <6>2. QED
            BY <6>1
        <5>5. QED
          BY <5>2, <5>3, <5>4
      <4>3. QED
        BY <4>1, <4>2
    <3>3. CASE \E g \in ToSet(call'[c].gvks) : g.gk = k.gk
      BY <3>3
    <3>4. CASE \E d \in desired[c] : KeyOf(c, d) = k
      BY <3>4
    <3>5. QED
      BY <1>8, <2>1, <3>2, <3>3, <3>4
  <2>2. QED
    BY <2>1 DEF PruneAt, Mine, Prunable, Should
<1>9. Base'
  BY <1>2, <1>3, <1>4, <1>5 DEF Base
<1>10. QED
  BY <1>2, <1>3, <1>7, <1>8, <1>9 DEF Live

\* The call goes on to the first of the kinds.
LEMMA ProcessingOk ==
    ASSUME Types, NEW c \in Callers, NEW set \in Menu[c], NEW gvks \in Seq(Kinds), gvks # <<>>
    PROVE  /\ Processing(c, set, gvks) \in Calls
           /\ Processing(c, set, gvks).pc = "run" /\ Processing(c, set, gvks).set = set
           /\ Processing(c, set, gvks).gvks = Tail(gvks) /\ ~Processing(c, set, gvks).failed
           /\ Processing(c, set, gvks).todo = Compared(c, set, Head(gvks))
<1>1. set \in Sets
  BY DEF Sets
<1>2. Tail(gvks) \in Seq(Kinds)
  BY HeadTail
<1> DEFINE todo == Compared(c, set, Head(gvks))
           rest == Tail(gvks)
<1>3. todo \in SUBSET AllRequests
  BY ComparedOk DEF Proper
<1>4. rest \in Seq(Kinds)
  BY <1>2
<1>5. Processing(c, set, gvks) = [pc |-> "run", set |-> set, gvks |-> rest, todo |-> todo, failed |-> FALSE]
  BY DEF Processing
<1> HIDE DEF todo, rest
<1>6. QED
  <2>1. Processing(c, set, gvks) \in Calls
    BY <1>1, <1>3, <1>4, <1>5 DEF Calls
  <2>2. QED
    BY <1>5, <2>1 DEF todo, rest

LEMMA IdleOk ==
    /\ Idle \in Calls /\ Idle.pc = "idle" /\ Idle.todo = {} /\ ~Idle.failed /\ Idle.gvks = <<>> /\ Idle.set = {}
    /\ \E run \in Calls : /\ run = [Idle EXCEPT !.pc = "run"] /\ run.pc = "run"
                           /\ run.todo = {} /\ run.gvks = <<>> /\ run.set = {}
<1>1. {} \in Sets /\ <<>> \in Seq(Kinds)
  BY DEF Sets
<1>2. Idle.pc = "idle" /\ Idle.todo = {} /\ ~Idle.failed /\ Idle.gvks = <<>> /\ Idle.set = {}
  BY DEF Idle
<1>3. PICK none \in Sets, seq \in Seq(Kinds), todo \in SUBSET AllRequests : none = {} /\ seq = <<>> /\ todo = {}
  BY <1>1
<1>4. [pc |-> "idle", set |-> none, gvks |-> seq, todo |-> todo, failed |-> FALSE] \in Calls
  BY DEF Calls
<1>5. Idle \in Calls
  BY <1>3, <1>4 DEF Idle
<1> DEFINE run == [Idle EXCEPT !.pc = "run"]
<1>6. run \in Calls /\ run.pc = "run" /\ run.todo = Idle.todo /\ run.gvks = Idle.gvks /\ run.set = Idle.set
  BY <1>5 DEF Calls
<1> HIDE DEF run
<1>7. run.todo = {} /\ run.gvks = <<>> /\ run.set = {}
  BY <1>2, <1>6
<1>8. QED
  BY <1>2, <1>5, <1>6, <1>7 DEF run

LEMMA BeginStep ==
    ASSUME Base, NEW c \in Callers, Begin(c)
    PROVE  Base' /\ (Regular /\ Live => Live')
<1>1. PICK set \in Menu[c] : set = desired[c]
  BY DEF Base, CallAt
<1>2. PICK gvks \in Seq(Kinds) : gvks = GVKOrder(set)
  BY GVKOrderOk
<1>3. PruneTypes \subseteq ToSet(gvks) /\ \A d \in set : d.gvk \in ToSet(gvks)
  BY <1>2, GVKOrderOk
<1>4. /\ call[c].pc = "idle" /\ UNCHANGED <<obj, cache, news, desired, gone>>
      /\ call' = [call EXCEPT ![c] = IF gvks = <<>> THEN [Idle EXCEPT !.pc = "run"] ELSE Processing(c, set, gvks)]
      /\ due' = [due EXCEPT ![c] = FALSE] /\ missed' = [missed EXCEPT ![c] = {}]
  BY <1>1, <1>2, Zenon DEF Begin
<1>5. /\ Types /\ NewsOk /\ call \in [Callers -> Calls] /\ due \in [Callers -> BOOLEAN]
      /\ missed \in [Callers -> SUBSET Keys]
  BY DEF Base, Types
<1>6. /\ due' \in [Callers -> BOOLEAN] /\ ~due'[c] /\ \A b \in Callers \ {c} : due'[b] = due[b]
      /\ missed' \in [Callers -> SUBSET Keys] /\ \A b \in Callers \ {c} : missed'[b] = missed[b]
  BY <1>4, <1>5
<1>7. CASE gvks = <<>>
  <2>1. ToSet(gvks) = {}
    BY <1>7 DEF ToSet
  <2>2. desired[c] = {} /\ PruneTypes = {}
    BY <1>1, <1>3, <2>1
  <2> DEFINE new == [Idle EXCEPT !.pc = "run"]
  <2>3. new \in Calls /\ new.pc = "run" /\ new.set = {} /\ new.gvks = <<>> /\ new.todo = {}
    BY IdleOk
  <2> HIDE DEF new
  <2>4. call' = [call EXCEPT ![c] = new]
    BY <1>4, <1>7 DEF new
  <2>5. call' \in [Callers -> Calls] /\ call'[c] = new /\ \A b \in Callers \ {c} : call'[b] = call[b]
    BY <1>5, <2>3, <2>4
  <2>6. Types' /\ NewsOk' /\ (LabelOk => LabelOk')
    BY <1>4, <1>5, <1>6, <2>5 DEF Types, NewsOk, LabelOk
  <2>7. CallAt(c)' /\ RequestsAt(c)'
    BY <1>1, <1>4, <2>2, <2>3, <2>5 DEF CallAt, RequestsAt
  <2>8. \A b \in Callers \ {c} : CallAt(b)' /\ RequestsAt(b)' /\ (WantAt(b) /\ PruneAt(b) => WantAt(b)' /\ PruneAt(b)')
    BY <1>4, <1>6, <2>5, Other
  <2>9. WantAt(c)'
    BY <1>4, <2>2 DEF WantAt
  <2>10. ASSUME LabelOk PROVE PruneAt(c)'
    <3>1. \A k \in Keys : ~Mine(c, obj[k])
      BY <2>2, <2>10 DEF LabelOk, Mine, Pruned
    <3>2. \A k \in Keys : ~Mine(c, obj'[k])
      BY <1>4, <3>1
    <3>3. QED
      BY <3>2 DEF PruneAt, Mine
  <2>11. QED
    BY <2>6, <2>7, <2>8, <2>9, <2>10 DEF Base, Live
<1>8. CASE gvks # <<>>
  <2>1. PICK gvk \in Kinds : gvk = Head(gvks)
    BY <1>8, HeadTail
  <2>2. ToSet(gvks) \subseteq {gvk} \cup ToSet(Tail(gvks))
    BY <1>8, <2>1, HeadTail
  <2> DEFINE new == Processing(c, set, gvks)
  <2>3. /\ new \in Calls /\ new.pc = "run" /\ new.set = set /\ new.gvks = Tail(gvks)
        /\ new.todo = Compared(c, set, gvk)
    BY <1>5, <1>8, <2>1, ProcessingOk
  <2> HIDE DEF new
  <2>4. call' = [call EXCEPT ![c] = new]
    BY <1>4, <1>8 DEF new
  <2>5. call' \in [Callers -> Calls] /\ call'[c] = new /\ \A b \in Callers \ {c} : call'[b] = call[b]
    BY <1>5, <2>3, <2>4
  <2>6. \A d \in desired[c] : d.gvk \in {gvk} \cup ToSet(call'[c].gvks)
    BY <1>1, <1>3, <2>2, <2>3, <2>5
  <2>7. \A k \in Keys : Live /\ Mine(c, obj[k]) => \E g \in {gvk} \cup ToSet(call'[c].gvks) : g.gk = k.gk
    <3>1. \A k \in Keys : Live /\ Mine(c, obj[k]) => Pruned(k)
      BY DEF Live, LabelOk, Mine
    <3>2. PruneTypes \subseteq {gvk} \cup ToSet(call'[c].gvks)
      BY <1>3, <2>2, <2>3, <2>5
    <3>3. QED
      BY <3>1, <3>2 DEF Pruned
  <2>8. call'[c].pc = "run" /\ call'[c].set = set /\ call'[c].todo = Compared(c, set, gvk)
    BY <2>3, <2>5
  <2>9. \A b \in Callers \ {c} : call'[b] = call[b] /\ due'[b] = due[b] /\ missed'[b] = missed[b]
    BY <1>6, <2>5
  <2>10. /\ \A d \in desired[c] : (Live /\ Fresh(c, KeyOf(c, d))' /\ ~call'[c].failed)
                                   => Agreed(c, d)' \/ d.gvk \in {gvk} \cup ToSet(call'[c].gvks)
         /\ \A k \in Keys : (Live /\ Fresh(c, k)' /\ ~call'[c].failed /\ c \notin NoPrune /\ Mine(c, obj[k]) /\ Prunable(obj[k]))
                             => \/ \E d \in desired[c] : KeyOf(c, d) = k
                                \/ \E g \in {gvk} \cup ToSet(call'[c].gvks) : g.gk = k.gk
    BY <2>6, <2>7
  <2>11. UNCHANGED <<obj, cache, news, desired, gone>> /\ due' \in [Callers -> BOOLEAN] /\ (~due'[c] => set = desired[c])
    BY <1>1, <1>4, <1>6
  <2>12. QED
    BY <1>6, <2>5, <2>8, <2>9, <2>10, <2>11, CompareStep
<1>9. QED
  BY <1>7, <1>8

LEMMA NextGVKStep ==
    ASSUME Base, NEW c \in Callers, NextGVK(c)
    PROVE  Base' /\ (Regular /\ Live => Live')
<1>1. /\ call[c].pc = "run" /\ call[c].todo = {} /\ call[c].gvks # <<>>
      /\ UNCHANGED <<obj, cache, news, desired, due, missed, gone>>
  BY DEF NextGVK
<1>2. Types /\ NewsOk /\ call \in [Callers -> Calls] /\ due \in [Callers -> BOOLEAN] /\ call[c] \in Calls
  BY DEF Base, Types
<1>3. PICK set \in Menu[c] : set = call[c].set
  BY <1>1 DEF Base, CallAt
<1>4. PICK gvks \in Seq(Kinds) : gvks = call[c].gvks /\ gvks # <<>>
  BY <1>1, <1>2 DEF Calls
<1>5. PICK failed \in BOOLEAN : failed = call[c].failed
  BY <1>2 DEF Calls
<1>6. PICK gvk \in Kinds : gvk = Head(gvks)
  BY <1>4, HeadTail
<1>7. ToSet(gvks) \subseteq {gvk} \cup ToSet(Tail(gvks))
  BY <1>4, <1>6, HeadTail
<1> DEFINE first == Processing(c, set, gvks)
           new == [first EXCEPT !.failed = failed]
<1>8. /\ first \in Calls /\ first.pc = "run" /\ first.set = set /\ first.gvks = Tail(gvks)
      /\ first.todo = Compared(c, set, gvk)
  <2>1. Types /\ gvks # <<>>
    BY <1>2, <1>4
  <2>2. /\ first \in Calls /\ first.pc = "run" /\ first.set = set /\ first.gvks = Tail(gvks)
        /\ first.todo = Compared(c, set, Head(gvks))
    BY <2>1, ProcessingOk, Zenon
  <2> HIDE DEF first
  <2>3. QED
    BY <1>6, <2>2, Zenon
<1>9. call' = [call EXCEPT ![c] = new]
  BY <1>2, <1>3, <1>4, <1>5 DEF NextGVK
<1> HIDE DEF first
<1>10. /\ new \in Calls /\ new.pc = "run" /\ new.set = set /\ new.gvks = Tail(gvks)
       /\ new.todo = Compared(c, set, gvk) /\ new.failed = failed
  BY <1>8 DEF Calls
<1> HIDE DEF new
<1>11. call' \in [Callers -> Calls] /\ call'[c] = new /\ \A b \in Callers \ {c} : call'[b] = call[b]
  BY <1>2, <1>9, <1>10
<1>12. ASSUME NEW d \in desired[c], Live, Fresh(c, KeyOf(c, d))', ~call'[c].failed
       PROVE  Agreed(c, d)' \/ d.gvk \in {gvk} \cup ToSet(call'[c].gvks)
  <2>1. Fresh(c, KeyOf(c, d)) /\ ~call[c].failed
    BY <1>1, <1>5, <1>10, <1>11, <1>12 DEF Fresh
  <2>2. Agreed(c, d) \/ d.gvk \in ToSet(gvks)
    BY <1>1, <1>4, <1>12, <2>1 DEF Live, WantAt, Pending
  <2>3. CASE Agreed(c, d)
    BY <1>1, <2>3, AgreedSame
  <2>4. CASE d.gvk \in ToSet(gvks)
    BY <1>7, <1>10, <1>11, <2>4
  <2>5. QED
    BY <2>2, <2>3, <2>4
<1>13. ASSUME NEW k \in Keys, Live, Fresh(c, k)', ~call'[c].failed, c \notin NoPrune, Mine(c, obj[k]), Prunable(obj[k])
       PROVE  \/ \E d \in desired[c] : KeyOf(c, d) = k
              \/ \E g \in {gvk} \cup ToSet(call'[c].gvks) : g.gk = k.gk
  <2>1. Fresh(c, k) /\ ~call[c].failed
    BY <1>1, <1>5, <1>10, <1>11, <1>13 DEF Fresh
  <2>2. (\E d \in desired[c] : KeyOf(c, d) = k) \/ \E g \in ToSet(gvks) : g.gk = k.gk
    BY <1>1, <1>4, <1>13, <2>1 DEF Live, PruneAt
  <2>3. QED
    BY <1>7, <1>10, <1>11, <2>2
<1>14. ~due'[c] => set = desired[c]
  BY <1>1, <1>3 DEF Base, CallAt
<1>15. missed' = missed /\ missed' \in [Callers -> SUBSET Keys]
  BY <1>1, <1>2 DEF Types
<1>16. QED
  BY <1>1, <1>2, <1>10, <1>11, <1>12, <1>13, <1>14, <1>15, CompareStep

\* The call ends: with everything settled, with an error, or with the process.
LEMMA EndStep ==
    ASSUME Base, NEW c \in Callers, UNCHANGED <<obj, cache, news, desired, missed, gone>>,
           call' = [call EXCEPT ![c] = Idle], due' \in [Callers -> BOOLEAN],
           due[c] => due'[c], \A b \in Callers \ {c} : due'[b] = due[b],
           due'[c] \/ (~call[c].failed /\ call[c].todo = {} /\ call[c].gvks = <<>>)
    PROVE  Base' /\ (Live => Live')
<1>1. Types /\ NewsOk /\ call \in [Callers -> Calls] /\ desired[c] \in Menu[c]
  BY DEF Base, Types, CallAt
<1>2. call' \in [Callers -> Calls] /\ call'[c] = Idle /\ \A b \in Callers \ {c} : call'[b] = call[b]
  BY <1>1, IdleOk
<1>3. Types' /\ NewsOk' /\ (LabelOk => LabelOk')
  BY <1>1, <1>2 DEF Types, NewsOk, LabelOk
<1>4. CallAt(c)' /\ RequestsAt(c)'
  BY <1>1, <1>2, IdleOk DEF CallAt, RequestsAt
<1>5. \A b \in Callers \ {c} : CallAt(b)' /\ RequestsAt(b)' /\ (WantAt(b) /\ PruneAt(b) => WantAt(b)' /\ PruneAt(b)')
  BY <1>2, Other
<1>6. ToSet(<<>>) = {}
  BY DEF ToSet
<1>7. ASSUME Live PROVE WantAt(c)'
  <2>1. ASSUME NEW d \in desired'[c], Fresh(c, KeyOf(c, d))' PROVE Agreed(c, d)'
    <3>1. Fresh(c, KeyOf(c, d)) /\ ~call[c].failed /\ call[c].todo = {} /\ call[c].gvks = <<>> /\ d \in desired[c]
      BY <2>1 DEF Fresh
    <3>2. Agreed(c, d)
      BY <1>6, <1>7, <3>1 DEF Live, WantAt, Pending
    <3>3. QED
      BY <3>2, AgreedSame
  <2>2. QED
    BY <2>1 DEF WantAt
<1>8. ASSUME Live PROVE PruneAt(c)'
  <2>1. ASSUME NEW k \in Keys, Fresh(c, k)', c \notin NoPrune, Mine(c, obj[k]), Prunable(obj[k])
        PROVE  \E d \in desired'[c] : KeyOf(c, d) = k
    <3>1. Fresh(c, k) /\ ~call[c].failed /\ call[c].todo = {} /\ call[c].gvks = <<>>
      BY <2>1 DEF Fresh
    <3>2. QED
      BY <1>6, <1>8, <2>1, <3>1 DEF Live, PruneAt
  <2>2. QED
    BY <2>1 DEF PruneAt, Mine, Prunable, Should
<1>9. QED
  BY <1>3, <1>4, <1>5, <1>7, <1>8 DEF Base, Live

LEMMA ReturnStep ==
    ASSUME Base, NEW c \in Callers, Return(c)
    PROVE  Base' /\ (Live => Live')
<1>1. due \in [Callers -> BOOLEAN] /\ call[c].failed \in BOOLEAN
  BY DEF Base, Types, Calls
<1>2. /\ UNCHANGED <<obj, cache, news, desired, missed, gone>> /\ call' = [call EXCEPT ![c] = Idle]
      /\ call[c].todo = {} /\ call[c].gvks = <<>>
  BY DEF Return
<1>3. /\ due' \in [Callers -> BOOLEAN] /\ due'[c] = (due[c] \/ call[c].failed)
      /\ \A b \in Callers \ {c} : due'[b] = due[b]
  BY <1>1 DEF Return
<1>4. QED
  BY <1>2, <1>3, EndStep

LEMMA CrashStep ==
    ASSUME Base, NEW c \in Callers, Crash(c)
    PROVE  Base' /\ (Live => Live')
<1>1. due \in [Callers -> BOOLEAN]
  BY DEF Base, Types
<1>2. UNCHANGED <<obj, cache, news, desired, missed, gone>> /\ call' = [call EXCEPT ![c] = Idle]
  BY DEF Crash
<1>3. due' \in [Callers -> BOOLEAN] /\ due'[c] /\ \A b \in Callers \ {c} : due'[b] = due[b]
  BY <1>1 DEF Crash
<1>4. QED
  BY <1>2, <1>3, EndStep

-------------------------------------------------------------------------------
(* Everybody else                                                          *)

LEMMA SetDesiredStep ==
    ASSUME Base, NEW c \in Callers, NEW set \in Menu[c], SetDesired(c, set)
    PROVE  Base' /\ (Live => Live')
<1>1. Types /\ NewsOk /\ due \in [Callers -> BOOLEAN] /\ desired \in [Callers -> Sets]
  BY DEF Base, Types
<1>2. UNCHANGED <<obj, cache, news, call, missed, gone>> /\ set \in Sets
  BY DEF SetDesired, Sets
<1>3. desired' \in [Callers -> Sets] /\ desired'[c] = set /\ \A b \in Callers \ {c} : desired'[b] = desired[b]
  BY <1>1, <1>2 DEF SetDesired
<1>4. due' \in [Callers -> BOOLEAN] /\ due'[c] /\ \A b \in Callers \ {c} : due'[b] = due[b]
  BY <1>1 DEF SetDesired
<1>5. Types' /\ NewsOk' /\ (LabelOk => LabelOk')
  BY <1>1, <1>2, <1>3, <1>4 DEF Types, NewsOk, LabelOk
<1>6. CallAt(c) /\ RequestsAt(c) /\ Req(c)' = Req(c)
  BY <1>2 DEF Base, Req
<1>7. CallAt(c)' /\ RequestsAt(c)'
  BY <1>2, <1>3, <1>4, <1>6 DEF CallAt, RequestsAt
<1>8. \A b \in Callers \ {c} : CallAt(b)' /\ RequestsAt(b)' /\ (WantAt(b) /\ PruneAt(b) => WantAt(b)' /\ PruneAt(b)')
  BY <1>2, <1>3, <1>4, Other
<1>9. WantAt(c)' /\ PruneAt(c)'
  BY <1>4 DEF WantAt, PruneAt, Fresh
<1>10. QED
  BY <1>5, <1>7, <1>8, <1>9 DEF Base, Live

\* The informer delivers: who has registered what matches the object is due.
LEMMA Delivered ==
    ASSUME Base, NEW k \in Keys, Inform(k)
    PROVE  /\ UNCHANGED <<obj, desired, call, byLabel, gone>> /\ news' = news \ {k}
           /\ cache' \in [Keys -> Stored] /\ cache'[k] = obj[k] /\ \A j \in Keys \ {k} : cache'[j] = cache[j]
           /\ due' \in [Callers -> BOOLEAN] /\ missed' \in [Callers -> SUBSET Keys]
           /\ \A b \in Callers : ~due'[b] => ~due[b] /\ ~Matches(b, k)
           /\ \A b \in Callers : missed[b] \subseteq missed'[b]
           /\ \A b \in Callers : Mine(b, cache[k]) /\ ~Mine(b, obj[k]) /\ ~Matches(b, k) => k \in missed'[b]
<1>1. due \in [Callers -> BOOLEAN] /\ cache \in [Keys -> Stored] /\ obj \in [Keys -> Stored] /\ missed \in [Callers -> SUBSET Keys]
  BY DEF Base, Types
<1>2. UNCHANGED <<obj, desired, call, byLabel, gone>> /\ news' = news \ {k} /\ cache' = [cache EXCEPT ![k] = obj[k]]
  BY DEF Inform
<1>3. cache' \in [Keys -> Stored] /\ cache'[k] = obj[k] /\ \A j \in Keys \ {k} : cache'[j] = cache[j]
  BY <1>1, <1>2
<1>4. due' \in [Callers -> BOOLEAN] /\ \A b \in Callers : ~due'[b] => ~due[b] /\ ~Matches(b, k)
  <2> DEFINE now(b) == due[b] \/ Matches(b, k)
  <2>1. due' = [b \in Callers |-> now(b)]
    BY DEF Inform
  <2>2. \A b \in Callers : now(b) \in BOOLEAN
    BY Zenon
  <2>3. \A b \in Callers : ~now(b) => ~due[b] /\ ~Matches(b, k)
    OBVIOUS
  <2> HIDE DEF now
  <2>4. QED
    BY <2>1, <2>2, <2>3
<1>5. /\ missed' \in [Callers -> SUBSET Keys]
      /\ \A b \in Callers : missed[b] \subseteq missed'[b]
      /\ \A b \in Callers : Mine(b, cache[k]) /\ ~Mine(b, obj[k]) /\ ~Matches(b, k) => k \in missed'[b]
  <2> DEFINE lost(b) == Mine(b, cache[k]) /\ ~Mine(b, obj[k]) /\ ~Matches(b, k)
             new(b) == IF lost(b) THEN missed[b] \cup {k} ELSE missed[b]
  <2>1. missed' = [b \in Callers |-> new(b)]
    BY DEF Inform
  <2> HIDE DEF lost
  <2>2. \A b \in Callers : new(b) \in SUBSET Keys /\ missed[b] \subseteq new(b) /\ (lost(b) => k \in new(b))
    BY <1>1
  <2> HIDE DEF new
  <2>3. \A b \in Callers : missed'[b] = new(b)
    BY <2>1
  <2>4. missed' \in [Callers -> SUBSET Keys]
    BY <2>1, <2>2
  <2>5. \A b \in Callers : missed[b] \subseteq missed'[b] /\ (lost(b) => k \in missed'[b])
    BY <2>2, <2>3
  <2>6. QED
    BY <2>4, <2>5 DEF lost
<1>6. QED
  BY <1>2, <1>3, <1>4, <1>5

LEMMA InformBase ==
    ASSUME Base, NEW k \in Keys, Inform(k)
    PROVE  Base' /\ (LabelOk => LabelOk')
<1>1. Types /\ NewsOk /\ news \subseteq Keys
  BY DEF Base, Types
<1>2. /\ UNCHANGED <<obj, desired, call, gone>> /\ news' = news \ {k}
      /\ cache' \in [Keys -> Stored] /\ cache'[k] = obj[k] /\ \A j \in Keys \ {k} : cache'[j] = cache[j]
      /\ due' \in [Callers -> BOOLEAN] /\ missed' \in [Callers -> SUBSET Keys]
      /\ \A b \in Callers : ~due'[b] => ~due[b]
  BY Delivered
<1>3. Types'
  BY <1>1, <1>2 DEF Types
<1>4. NewsOk'
  BY <1>1, <1>2 DEF NewsOk
<1>5. \A b \in Callers : CallAt(b)' /\ RequestsAt(b)'
  BY <1>2, BystanderCall DEF Base
<1>6. ASSUME LabelOk PROVE LabelOk'
  <2>1. SUFFICES ASSUME NEW j \in Keys, NEW o \in {obj'[j], cache'[j]}, o # Absent, o.c["hash"] # Unset PROVE Pruned(j)
    BY Zenon DEF LabelOk, Pruned
  <2>2. o \in {obj[j], cache[j]}
    BY <1>2
  <2>3. QED
    BY <1>6, <2>1, <2>2 DEF LabelOk
<1>7. QED
  BY <1>3, <1>4, <1>5, <1>6 DEF Base

\* A caller that wants the object and is not told has missed it, will come to it
\* or will create it.
LEMMA Untold ==
    ASSUME Base, Told, NEW k \in Keys, Inform(k), NEW b \in Callers, ~due'[b],
           NEW d \in desired[b], KeyOf(b, d) = k
    PROVE  Agreed(b, d)' \/ Ahead(b, d.gvk) \/ Creates(b, k, New(b, d))
<1>1. ~due[b] /\ ~Matches(b, k)
  BY Delivered
<1>2. k \notin byName[b] /\ (Mine(b, obj[k]) => k.gk \notin byLabel[b])
  BY <1>1 DEF Matches
<1>3. d.gvk.gk = k.gk
  BY Zenon DEF KeyOf
<1>4. ListedAt(b) /\ FoundAt(b)
  BY DEF Told
<1>5. CASE Id(b) = Unset
  BY <1>1, <1>2, <1>4, <1>5 DEF ListedAt
<1>6. CASE Id(b) # Unset /\ Mine(b, obj[k])
  BY <1>1, <1>2, <1>3, <1>4, <1>6 DEF ListedAt
<1>7. CASE Id(b) # Unset /\ ~Mine(b, obj[k])
  <2>1. \/ Mine(b, cache[k])
        \/ k \in byName[b] \cup missed[b]
        \/ d.opts = "noCreate"
        \/ Ahead(b, d.gvk)
        \/ Creates(b, k, New(b, d))
    BY <1>1, <1>4, <1>7 DEF FoundAt
  <2>2. CASE Mine(b, cache[k]) \/ k \in missed[b]
    <3>1. k \in missed'[b]
      BY <1>1, <1>7, <2>2, Delivered
    <3>2. QED
      BY <3>1 DEF Agreed
  <2>3. CASE d.opts = "noCreate"
    <3>1. obj'[KeyOf(b, d)] = Absent \/ obj'[KeyOf(b, d)].c["hash"] # Id(b)
      BY <1>7, Delivered DEF Mine
    <3>2. Settled(b, d)'
      BY <1>7, <2>3, <3>1 DEF Settled
    <3>3. QED
      BY <3>2 DEF Agreed
  <2>4. QED
    BY <1>2, <2>1, <2>2, <2>3
<1>8. QED
  BY <1>5, <1>6, <1>7

LEMMA InformStep ==
    ASSUME Base, NEW k \in Keys, Inform(k)
    PROVE  Base' /\ (Told /\ Live => Live')
<1>1. Base' /\ (LabelOk => LabelOk')
  BY InformBase
<1>2. /\ UNCHANGED <<obj, desired, call, gone>> /\ news' = news \ {k}
      /\ \A b \in Callers : ~due'[b] => ~due[b] /\ ~Matches(b, k)
      /\ \A b \in Callers : missed[b] \subseteq missed'[b]
  BY Delivered
<1>3. \A b \in Callers : \A j \in Keys \ {k} : Heard(b, j)
  BY <1>2 DEF Heard, Fresh
<1>4. ASSUME Told, Live, NEW b \in Callers PROVE WantAt(b)'
  <2>1. ASSUME NEW d \in desired'[b], Fresh(b, KeyOf(b, d))', ~call'[b].failed
        PROVE  \/ Agreed(b, d)'
               \/ call'[b].pc # "idle" /\ (d.gvk \in ToSet(call'[b].gvks) \/ Pending(b, KeyOf(b, d), New(b, d))')
    <3>1. d \in desired[b] /\ KeyOf(b, d) \in Keys
      BY <1>2, WantedKeys
    <3>2. CASE KeyOf(b, d) # k
      <4>1. Heard(b, KeyOf(b, d))
        BY <1>3, <3>1, <3>2
      <4>2. QED
        BY <1>2, <1>4, <2>1, <3>1, <4>1, BystanderWant DEF Live
    <3>3. CASE KeyOf(b, d) = k
      <4>1. ~due'[b]
        BY <2>1 DEF Fresh
      <4>2. Agreed(b, d)' \/ Ahead(b, d.gvk) \/ Creates(b, k, New(b, d))
        BY <1>4, <3>1, <3>3, <4>1, Untold
      <4>3. CASE Ahead(b, d.gvk)
        BY <1>2, <4>3 DEF Ahead
      <4>4. CASE Creates(b, k, New(b, d))
        <5>1. PICK r \in call[b].todo : r.op = "create" /\ r.key = k /\ r.new = New(b, d)
          BY <4>4 DEF Creates
        <5>2. r \in call'[b].todo /\ call'[b].pc # "idle"
          BY <1>2, <5>1, TodoProper
        <5>3. Pending(b, KeyOf(b, d), New(b, d))'
          BY <3>3, <5>1, <5>2 DEF Pending
        <5>4. QED
          BY <5>2, <5>3
      <4>5. QED
        BY <4>2, <4>3, <4>4
    <3>4. QED
      BY <3>2, <3>3
  <2>2. QED
    BY <2>1 DEF WantAt
<1>5. ASSUME Told, Live, NEW b \in Callers PROVE PruneAt(b)'
  <2>1. ASSUME NEW j \in Keys, Fresh(b, j)', ~call'[b].failed, b \notin NoPrune, Mine(b, obj'[j]), Prunable(obj'[j])
        PROVE  \/ \E d \in desired'[b] : KeyOf(b, d) = j
               \/ call'[b].pc # "idle" /\ \/ \E gvk \in ToSet(call'[b].gvks) : gvk.gk = j.gk
                                          \/ \E r \in call'[b].todo : r.op = "delete" /\ r.key = j
    <3>1. CASE j # k
      BY <1>2, <1>3, <1>5, <2>1, <3>1, BystanderPrune DEF Live
    <3>2. CASE j = k
      <4>1. ~due[b] /\ ~Matches(b, k) /\ Mine(b, obj[k])
        BY <1>2, <2>1, <3>2 DEF Fresh
      <4>2. Id(b) # Unset /\ k.gk \notin byLabel[b]
        BY <4>1 DEF Matches, Mine
      <4>3. PICK gvk \in PruneTypes : gvk.gk = k.gk
        BY <1>5, <4>1 DEF Live, LabelOk, Mine, Pruned
      <4>4. Ahead(b, gvk)
        BY <1>5, <4>1, <4>2, <4>3 DEF Told, ListedAt
      <4>5. QED
        BY <1>2, <3>2, <4>3, <4>4 DEF Ahead
    <3>3. QED
      BY <3>1, <3>2
  <2>2. QED
    BY <2>1 DEF PruneAt, Mine, Prunable, Should
<1>6. QED
  BY <1>1, <1>4, <1>5 DEF Live

\* Somebody else changes an object and not its label.
LEMMA EditStep ==
    ASSUME Base, UNCHANGED <<cache, desired, due, call, missed, gone>>,
           obj' \in [Keys -> Stored], news' \subseteq Keys, NewsOk', LabelOk => LabelOk',
           \A j \in Keys : j \notin news' => j \notin news /\ obj'[j] = obj[j]
    PROVE  Base' /\ (Live => Live')
<1>1. Types'
  BY DEF Base, Types
<1>2. \A b \in Callers : CallAt(b)' /\ RequestsAt(b)' /\ (WantAt(b) /\ PruneAt(b) => WantAt(b)' /\ PruneAt(b)')
  BY Other
<1>3. QED
  BY <1>1, <1>2 DEF Base, Live

LEMMA RemoveStep ==
    ASSUME Base, NEW k \in Keys, RemoveObject(k), UNCHANGED <<cache, desired, due, call, missed, gone>>
    PROVE  Base' /\ (Live => Live')
BY RemoveOk, EditStep

LEMMA FinalizersDoneStep ==
    ASSUME Base, NEW k \in Keys, FinalizersDone(k)
    PROVE  Base' /\ (Live => Live')
<1>1. Write(k, Absent) /\ Absent \in Stored /\ UNCHANGED <<cache, desired, due, call, missed, gone>>
  BY DEF FinalizersDone, Stored
<1>2. LabelOk => LabelOk'
  BY <1>1, LabelWrite
<1>3. QED
  BY <1>1, <1>2, WriteOk, EditStep

LEMMA UserEditStep ==
    ASSUME Base, NEW k \in Keys, NEW v \in Vals, UserEdit(k, v)
    PROVE  Base' /\ (Live => Live')
<1>1. PICK o \in Objects : o = obj[k]
  BY DEF UserEdit, Base, Types, Stored
<1>2. o.c \in Content /\ v \in Values
  BY NothingOk DEF Objects, Content
<1> DEFINE content == [o.c EXCEPT !["f"] = v]
           new == [o EXCEPT !.c = content]
<1>3. content \in Content /\ content["hash"] = o.c["hash"]
  BY <1>2, FieldsOk DEF Content
<1>4. Write(k, [o EXCEPT !.c["f"] = v])
  BY <1>1 DEF UserEdit
<1>5. Write(k, new)
  BY <1>4 DEF Objects
<1> HIDE DEF content
<1>6. new \in Objects /\ new.c = content
  BY <1>3 DEF Objects, Content
<1> HIDE DEF new
<1>7. new \in Stored
  BY <1>6 DEF Stored
<1>8. UNCHANGED <<cache, desired, due, call, missed, gone>>
  BY DEF UserEdit
<1>9. ASSUME LabelOk PROVE LabelOk'
  <2>1. o # Absent
    BY ApplyAssumption
  <2>2. new # Absent /\ new.c["hash"] # Unset => Pruned(k)
    BY <1>1, <1>3, <1>6, <1>9, <2>1 DEF LabelOk
  <2>3. QED
    BY <1>5, <1>7, <1>8, <1>9, <2>2, LabelWrite
<1>10. QED
  BY <1>5, <1>7, <1>8, <1>9, WriteOk, EditStep

LEMMA OwnerDeletedStep ==
    ASSUME Base, NEW o \in DOMAIN OwnerNs, OwnerDeleted(o)
    PROVE  Base' /\ (Live => Live')
<1>1. UNCHANGED <<obj, cache, news, desired, due, call, missed>> /\ gone' = gone \cup {o}
  BY DEF OwnerDeleted
<1>2. Types' /\ NewsOk' /\ (LabelOk => LabelOk')
  BY <1>1 DEF Base, Types, NewsOk, LabelOk
<1>3. \A b \in Callers : CallAt(b)' /\ RequestsAt(b)' /\ (WantAt(b) /\ PruneAt(b) => WantAt(b)' /\ PruneAt(b)')
  BY <1>1, Other
<1>4. QED
  BY <1>2, <1>3 DEF Base, Live

LEMMA StutterStep ==
    ASSUME Base, UNCHANGED vars
    PROVE  Base' /\ (Live => Live')
<1>1. UNCHANGED <<obj, cache, news, desired, due, call, missed, gone>>
  BY DEF vars
<1>2. Types' /\ NewsOk' /\ (LabelOk => LabelOk')
  BY <1>1 DEF Base, Types, NewsOk, LabelOk
<1>3. \A b \in Callers : CallAt(b)' /\ RequestsAt(b)' /\ (WantAt(b) /\ PruneAt(b) => WantAt(b)' /\ PruneAt(b)')
  BY <1>1, Other
<1>4. QED
  BY <1>2, <1>3 DEF Base, Live

-------------------------------------------------------------------------------
(* Who is told                                                             *)

\* A caller whose call a step leaves alone.
LEMMA ToldSame ==
    ASSUME NEW b \in Callers, ListedAt(b), FoundAt(b), UNCHANGED cache, call'[b] = call[b], desired'[b] = desired[b],
           due'[b] = due[b], missed'[b] = missed[b], byName[b] \subseteq byName'[b], byLabel[b] \subseteq byLabel'[b]
    PROVE  ListedAt(b)' /\ FoundAt(b)'
<1>1. \A gvk : Ahead(b, gvk) => Ahead(b, gvk)'
  BY DEF Ahead
<1>2. \A k, new : Creates(b, k, new) => Creates(b, k, new)'
  BY DEF Creates
<1>3. \A k : Mine(b, cache[k]) => Mine(b, cache'[k])
  OBVIOUS
<1>4. ListedAt(b)'
  BY <1>1 DEF ListedAt
<1>5. FoundAt(b)'
  <2>1. SUFFICES ASSUME ~due'[b], Id(b) # Unset, NEW d \in desired'[b]
        PROVE  \/ Mine(b, cache'[KeyOf(b, d)])
               \/ KeyOf(b, d) \in byName'[b] \cup missed'[b]
               \/ d.opts = "noCreate"
               \/ Ahead(b, d.gvk)'
               \/ Creates(b, KeyOf(b, d), New(b, d))'
    BY DEF FoundAt, Mine
  <2>2. \/ Mine(b, cache[KeyOf(b, d)])
        \/ KeyOf(b, d) \in byName[b] \cup missed[b]
        \/ d.opts = "noCreate"
        \/ Ahead(b, d.gvk)
        \/ Creates(b, KeyOf(b, d), New(b, d))
    BY <2>1 DEF FoundAt
  <2>3. QED
    BY <1>1, <1>2, <1>3, <2>2
<1>6. QED
  BY <1>4, <1>5

LEMMA WatchOk ==
    ASSUME Registered, NEW c \in Callers, NEW names \in SUBSET Keys,
           NEW kinds \in SUBSET {gvk.gk : gvk \in Kinds}, Watch(c, names, kinds)
    PROVE  /\ Registered' /\ byName'[c] = byName[c] \cup names /\ byLabel'[c] = byLabel[c] \cup kinds
           /\ \A b \in Callers \ {c} : byName'[b] = byName[b] /\ byLabel'[b] = byLabel[b]
BY DEF Registered, Watch

\* A caller makes a request, r: it has registered the object by its name.
LEMMA ToldRequest ==
    ASSUME Base, Told, NEW c \in Callers, NEW r \in call[c].todo, Watch(c, {r.key}, {}),
           UNCHANGED <<cache, desired, due, missed>>, \A b \in Callers \ {c} : call'[b] = call[b],
           call'[c].pc # "idle", call'[c].gvks = call[c].gvks, call[c].todo \ {r} \subseteq call'[c].todo
    PROVE  Told'
<1>1. r.key \in Keys
  BY TodoProper DEF Proper, AllRequests
<1>2. /\ Registered' /\ byName'[c] = byName[c] \cup {r.key} /\ byLabel'[c] = byLabel[c]
      /\ \A b \in Callers \ {c} : byName'[b] = byName[b] /\ byLabel'[b] = byLabel[b]
  <2>1. PICK names \in SUBSET Keys : names = {r.key}
    BY <1>1
  <2>2. PICK kinds \in SUBSET {gvk.gk : gvk \in Kinds} : kinds = {}
    OBVIOUS
  <2>3. Watch(c, names, kinds) /\ Registered
    BY <2>1, <2>2 DEF Told
  <2>4. /\ Registered' /\ byName'[c] = byName[c] \cup names /\ byLabel'[c] = byLabel[c] \cup kinds
        /\ \A b \in Callers \ {c} : byName'[b] = byName[b] /\ byLabel'[b] = byLabel[b]
    BY <2>3, WatchOk
  <2>5. QED
    BY <2>1, <2>2, <2>4
<1>3. \A b \in Callers \ {c} : ListedAt(b)' /\ FoundAt(b)'
  BY <1>2, ToldSame DEF Told
<1>4. ListedAt(c) /\ FoundAt(c)
  BY DEF Told
<1>5. \A gvk : Ahead(c, gvk) => Ahead(c, gvk)'
  BY DEF Ahead
<1>6. ListedAt(c)'
  BY <1>2, <1>4, <1>5 DEF ListedAt
<1>7. FoundAt(c)'
  <2>1. SUFFICES ASSUME ~due'[c], Id(c) # Unset, NEW d \in desired'[c]
        PROVE  \/ Mine(c, cache'[KeyOf(c, d)])
               \/ KeyOf(c, d) \in byName'[c] \cup missed'[c]
               \/ d.opts = "noCreate"
               \/ Ahead(c, d.gvk)'
               \/ Creates(c, KeyOf(c, d), New(c, d))'
    BY DEF FoundAt, Mine
  <2>2. \/ Mine(c, cache[KeyOf(c, d)])
        \/ KeyOf(c, d) \in byName[c] \cup missed[c]
        \/ d.opts = "noCreate"
        \/ Ahead(c, d.gvk)
        \/ Creates(c, KeyOf(c, d), New(c, d))
    BY <1>4, <2>1 DEF FoundAt
  <2>3. ASSUME Creates(c, KeyOf(c, d), New(c, d)), KeyOf(c, d) \notin byName'[c]
        PROVE  Creates(c, KeyOf(c, d), New(c, d))'
    <3>1. PICK q \in call[c].todo : q.op = "create" /\ q.key = KeyOf(c, d) /\ q.new = New(c, d)
      BY <2>3 DEF Creates
    <3>2. q # r
      BY <1>2, <2>3, <3>1
    <3>3. q \in call'[c].todo
      BY <3>2
    <3>4. QED
      BY <3>1, <3>3 DEF Creates
  <2>4. KeyOf(c, d) \in byName[c] \cup missed[c] => KeyOf(c, d) \in byName'[c] \cup missed'[c]
    BY <1>2
  <2>5. Mine(c, cache[KeyOf(c, d)]) => Mine(c, cache'[KeyOf(c, d)])
    OBVIOUS
  <2>6. QED
    BY <1>5, <2>2, <2>3, <2>4, <2>5
<1>8. QED
  BY <1>2, <1>3, <1>6, <1>7 DEF Told

\* The next request is made, or has failed.
LEMMA ToldDone ==
    ASSUME Base, Told, NEW c \in Callers, call[c].todo # {}, NEW f \in BOOLEAN, Done(c, f), Watch(c, {Req(c).key}, {}),
           UNCHANGED <<cache, desired, due, missed>>
    PROVE  Told'
<1>1. PICK r \in call[c].todo : r = Req(c)
  <2>1. Req(c) \in call[c].todo
    BY ReqIn DEF Base
  <2>2. QED
    BY <2>1, Zenon
<1>2. /\ \A b \in Callers \ {c} : call'[b] = call[b]
      /\ call'[c].pc = "run" /\ call'[c].gvks = call[c].gvks
      /\ call'[c].todo = call[c].todo \ {r}
  BY <1>1, DoneOk
<1>3. Watch(c, {r.key}, {}) /\ call'[c].pc # "idle"
  BY <1>1, <1>2
<1>4. QED
  BY <1>2, <1>3, ToldRequest

LEMMA CreateTold ==
    ASSUME Base, Told, NEW c \in Callers, NEW lost \in BOOLEAN, Create(c, lost)
    PROVE  Told'
BY ToldDone DEF Create, Doing

LEMMA UpdateTold ==
    ASSUME Base, Told, NEW c \in Callers, NEW lost \in BOOLEAN, Update(c, lost)
    PROVE  Told'
<1>1. PICK f \in BOOLEAN : f = (lost \/ obj[Req(c).key] = Absent)
  BY Zenon
<1>2. /\ call[c].todo # {} /\ Done(c, f) /\ Watch(c, {Req(c).key}, {})
      /\ UNCHANGED <<cache, desired, due, missed>>
  BY <1>1, Zenon DEF Update, Doing
<1>3. QED
  BY <1>2, ToldDone

LEMMA DeleteTold ==
    ASSUME Base, Told, NEW c \in Callers, NEW lost \in BOOLEAN, Delete(c, lost)
    PROVE  Told'
<1>1. PICK f \in BOOLEAN : f = (lost \/ obj[Req(c).key] = Absent)
  BY Zenon
<1>2. /\ call[c].todo # {} /\ Done(c, f) /\ Watch(c, {Req(c).key}, {})
      /\ UNCHANGED <<cache, desired, due, missed>>
  BY <1>1, Zenon DEF Delete, Doing
<1>3. QED
  BY <1>2, ToldDone

LEMMA RequestFailsTold ==
    ASSUME Base, Told, NEW c \in Callers, RequestFails(c)
    PROVE  Told'
<1>1. PICK f \in BOOLEAN : f = TRUE
  OBVIOUS
<1>2. /\ call[c].todo # {} /\ Done(c, f) /\ Watch(c, {Req(c).key}, {})
      /\ UNCHANGED <<cache, desired, due, missed>>
  BY <1>1, Zenon DEF RequestFails
<1>3. QED
  BY <1>2, ToldDone

LEMMA AlreadyExistsTold ==
    ASSUME Base, Told, NEW c \in Callers, AlreadyExists(c)
    PROVE  Told'
<1>1. /\ call[c].todo # {} /\ Watch(c, {Req(c).key}, {}) /\ UNCHANGED <<cache, desired, due, missed>>
      /\ call' = [call EXCEPT ![c].pc = "get"]
  BY DEF AlreadyExists, Doing
<1>2. PICK r \in call[c].todo : r = Req(c)
  <2>1. Req(c) \in call[c].todo
    BY <1>1, ReqIn DEF Base
  <2>2. QED
    BY <2>1, Zenon
<1>3. call \in [Callers -> Calls] /\ call[c] \in Calls
  BY DEF Base, Types
<1>4. /\ \A b \in Callers \ {c} : call'[b] = call[b]
      /\ call'[c].pc = "get" /\ call'[c].gvks = call[c].gvks /\ call'[c].todo = call[c].todo
  BY <1>1, <1>3 DEF Calls
<1>5. Watch(c, {r.key}, {}) /\ call'[c].pc # "idle" /\ call[c].todo \ {r} \subseteq call'[c].todo
  BY <1>1, <1>2, <1>4
<1>6. QED
  BY <1>1, <1>4, <1>5, ToldRequest

LEMMA GetExistingTold ==
    ASSUME Base, Told, NEW c \in Callers, NEW seen, GetExisting(c, seen)
    PROVE  Told'
<1>1. call[c].pc = "get" /\ Watch(c, {Req(c).key}, {}) /\ UNCHANGED <<cache, desired, due, missed>>
  BY DEF GetExisting
<1>2. PICK r \in call[c].todo : r = Req(c)
  BY <1>1, Zenon DEF Base, CallAt
<1>3. call \in [Callers -> Calls] /\ call[c] \in Calls
  BY DEF Base, Types
<1> DEFINE mine == seen # Absent /\ \/ seen.c["ann"] = Id(c)
                                    \/ seen.c["hash"] = Unset
                                    \/ MayTakeOver(seen.c["ann"], Id(c))
<1>4. CASE mine /\ r.op = "create"
  <2> DEFINE more == Requests(r.key, seen, r.new)
  <2>1. call' = [call EXCEPT ![c].pc = "run", ![c].todo = (@ \ {r}) \cup more]
    BY <1>2, <1>4, Zenon DEF GetExisting
  <2> HIDE DEF more
  <2>2. /\ \A b \in Callers \ {c} : call'[b] = call[b]
        /\ call'[c].pc = "run" /\ call'[c].gvks = call[c].gvks /\ call'[c].todo = (call[c].todo \ {r}) \cup more
    BY <1>3, <2>1 DEF Calls
  <2>3. Watch(c, {r.key}, {}) /\ call'[c].pc # "idle" /\ call[c].todo \ {r} \subseteq call'[c].todo
    BY <1>1, <1>2, <2>2
  <2>4. QED
    BY <1>1, <2>2, <2>3, ToldRequest
<1>5. CASE ~(mine /\ r.op = "create")
  <2>1. PICK f \in BOOLEAN : f = ~mine
    BY Zenon
  <2>2. Done(c, f)
    BY <1>2, <1>5, <2>1, Zenon DEF GetExisting
  <2>3. call[c].todo # {}
    BY <1>2
  <2>4. QED
    BY <1>1, <2>2, <2>3, ToldDone
<1>6. QED
  BY <1>4, <1>5

\* What is wanted and is not found by its label is created.
LEMMA ComparedCreates ==
    ASSUME NEW c \in Callers, NEW set \in Menu[c], NEW d \in set, Id(c) # Unset,
           ~Mine(c, cache[KeyOf(c, d)]), d.opts # "noCreate"
    PROVE  \E r \in Compared(c, set, d.gvk) : r.op = "create" /\ r.key = KeyOf(c, d) /\ r.new = New(c, d)
<1> DEFINE k == KeyOf(c, d)
           gvk == d.gvk
           found == Listed(c, set, gvk)
           want == Wanted(c, set, gvk)
           of(j) == New(c, CHOOSE e \in set : e.gvk = gvk /\ KeyOf(c, e) = j)
           create == {j \in want \ found : Should(of(j), "noCreate")}
<1>1. k \in want \ found
  <2>1. k \in want
    BY DEF Wanted
  <2>2. k \notin found
    BY DEF Listed, Mine
  <2>3. QED
    BY <2>1, <2>2
<1>2. of(k) = New(c, d)
  <2>1. \A e \in set : e.gvk = gvk /\ KeyOf(c, e) = k => e = d
    BY ApplyAssumption
  <2>2. (CHOOSE e \in set : e.gvk = gvk /\ KeyOf(c, e) = k) = d
    BY <2>1
  <2>3. QED
    BY <2>2
<1>3. Should(of(k), "noCreate")
  BY <1>2, NewOk DEF Should
<1>4. k \in create
  BY <1>1, <1>3
<1>5. Request("create", k, Absent, of(k)) \in {Request("create", j, Absent, of(j)) : j \in create}
  BY <1>4
<1>6. Request("create", k, Absent, New(c, d)) \in Compared(c, set, gvk)
  BY <1>2, <1>5, Zenon DEF Compared
<1>7. /\ Request("create", k, Absent, New(c, d)).op = "create"
      /\ Request("create", k, Absent, New(c, d)).key = k
      /\ Request("create", k, Absent, New(c, d)).new = New(c, d)
  BY DEF Request
<1>8. QED
  BY <1>6, <1>7

\* A list registers its selector, or the objects that it reads one by one.
LEMMA ListWatchOk ==
    ASSUME Registered, NEW c \in Callers, NEW set \in Menu[c], NEW gvk \in Kinds, ListWatch(c, set, gvk)
    PROVE  /\ Registered' /\ \A b \in Callers \ {c} : byName'[b] = byName[b] /\ byLabel'[b] = byLabel[b]
           /\ byName[c] \subseteq byName'[c] /\ byLabel[c] \subseteq byLabel'[c]
           /\ Id(c) # Unset => gvk.gk \in byLabel'[c]
           /\ Id(c) = Unset => \A d \in set : d.gvk = gvk => KeyOf(c, d) \in byName'[c]
<1>1. PICK none \in SUBSET Keys, kinds \in SUBSET {g.gk : g \in Kinds} : none = {} /\ kinds = {gvk.gk}
  OBVIOUS
<1>2. PICK names \in SUBSET Keys, no \in SUBSET {g.gk : g \in Kinds} : names = Wanted(c, set, gvk) /\ no = {}
  <2>1. \A d \in set : KeyOf(c, d) \in Keys
    BY ApplyAssumption
  <2>2. Wanted(c, set, gvk) \subseteq Keys
    BY <2>1 DEF Wanted
  <2>3. QED
    BY <2>2
<1>3. CASE Id(c) # Unset
  <2>1. Watch(c, none, kinds)
    BY <1>1, <1>3 DEF ListWatch
  <2>2. /\ Registered' /\ byName'[c] = byName[c] \cup none /\ byLabel'[c] = byLabel[c] \cup kinds
        /\ \A b \in Callers \ {c} : byName'[b] = byName[b] /\ byLabel'[b] = byLabel[b]
    BY <2>1, WatchOk
  <2>3. QED
    BY <1>1, <1>3, <2>2
<1>4. CASE Id(c) = Unset
  <2>1. Watch(c, names, no)
    BY <1>2, <1>4 DEF ListWatch
  <2>2. /\ Registered' /\ byName'[c] = byName[c] \cup names /\ byLabel'[c] = byLabel[c] \cup no
        /\ \A b \in Callers \ {c} : byName'[b] = byName[b] /\ byLabel'[b] = byLabel[b]
    BY <2>1, WatchOk
  <2>3. \A d \in set : d.gvk = gvk => KeyOf(c, d) \in names
    BY <1>2 DEF Wanted
  <2>4. QED
    BY <1>2, <1>4, <2>2, <2>3
<1>5. QED
  BY <1>3, <1>4

\* process for one kind: it registers the kind, and finds or creates what is
\* wanted of it; the other ones it has done, or will do.
LEMMA ToldCompare ==
    ASSUME Base, Told, NEW c \in Callers, NEW set \in Menu[c], NEW gvk \in Kinds,
           UNCHANGED <<cache, desired>>, ListWatch(c, set, gvk),
           \A b \in Callers \ {c} : call'[b] = call[b] /\ due'[b] = due[b] /\ missed'[b] = missed[b],
           call'[c].pc = "run", call'[c].todo = Compared(c, set, gvk), ~due'[c] => set = desired[c],
           \A g \in PruneTypes \cup {d.gvk : d \in desired[c]} :
              \/ due'[c] \/ g \in {gvk} \cup ToSet(call'[c].gvks)
              \/ ~due[c] /\ ~Ahead(c, g) /\ call[c].todo = {} /\ missed'[c] = missed[c]
    PROVE  Told'
<1>1. /\ Registered' /\ \A b \in Callers \ {c} : byName'[b] = byName[b] /\ byLabel'[b] = byLabel[b]
      /\ byName[c] \subseteq byName'[c] /\ byLabel[c] \subseteq byLabel'[c]
      /\ Id(c) # Unset => gvk.gk \in byLabel'[c]
      /\ Id(c) = Unset => \A d \in set : d.gvk = gvk => KeyOf(c, d) \in byName'[c]
  BY ListWatchOk DEF Told
<1>2. \A b \in Callers \ {c} : ListedAt(b)' /\ FoundAt(b)'
  BY <1>1, ToldSame DEF Told
<1>3. \A g : g \in ToSet(call'[c].gvks) => Ahead(c, g)'
  BY DEF Ahead
<1>4. ListedAt(c) /\ FoundAt(c)
  BY DEF Told
<1>5. ASSUME ~due'[c] PROVE set = desired[c] /\ set = desired'[c]
  BY <1>5
<1>6. ListedAt(c)'
  <2>1. ASSUME ~due'[c], Id(c) = Unset, NEW d \in desired'[c] PROVE Ahead(c, d.gvk)' \/ KeyOf(c, d) \in byName'[c]
    <3>1. d \in desired[c] /\ d \in set
      BY <1>5, <2>1
    <3>2. CASE d.gvk = gvk
      BY <1>1, <2>1, <3>1, <3>2
    <3>3. CASE d.gvk \in ToSet(call'[c].gvks)
      BY <1>3, <3>3
    <3>4. CASE ~due[c] /\ ~Ahead(c, d.gvk)
      BY <1>1, <1>4, <2>1, <3>1, <3>4 DEF ListedAt
    <3>5. QED
      BY <2>1, <3>1, <3>2, <3>3, <3>4
  <2>2. ASSUME ~due'[c], Id(c) # Unset, NEW g \in PruneTypes \cup {d.gvk : d \in desired'[c]}
        PROVE  Ahead(c, g)' \/ g.gk \in byLabel'[c]
    <3>1. g \in PruneTypes \cup {d.gvk : d \in desired[c]}
      BY <2>2
    <3>2. CASE g = gvk
      BY <1>1, <2>2, <3>2
    <3>3. CASE g \in ToSet(call'[c].gvks)
      BY <1>3, <3>3
    <3>4. CASE ~due[c] /\ ~Ahead(c, g)
      BY <1>1, <1>4, <2>2, <3>1, <3>4 DEF ListedAt
    <3>5. QED
      BY <2>2, <3>1, <3>2, <3>3, <3>4
  <2>3. QED
    BY <2>1, <2>2 DEF ListedAt
<1>7. FoundAt(c)'
  <2>1. SUFFICES ASSUME ~due'[c], Id(c) # Unset, NEW d \in desired'[c]
        PROVE  \/ Mine(c, cache'[KeyOf(c, d)])
               \/ KeyOf(c, d) \in byName'[c] \cup missed'[c]
               \/ d.opts = "noCreate"
               \/ Ahead(c, d.gvk)'
               \/ Creates(c, KeyOf(c, d), New(c, d))'
    BY DEF FoundAt, Mine
  <2>2. d \in desired[c] /\ d \in set
    BY <1>5, <2>1
  <2>3. CASE d.gvk = gvk
    <3>1. ASSUME ~Mine(c, cache[KeyOf(c, d)]), d.opts # "noCreate" PROVE Creates(c, KeyOf(c, d), New(c, d))'
      <4>1. PICK r \in Compared(c, set, gvk) : r.op = "create" /\ r.key = KeyOf(c, d) /\ r.new = New(c, d)
        BY <2>1, <2>2, <2>3, <3>1, ComparedCreates
      <4>2. r \in call'[c].todo
        BY <4>1
      <4>3. QED
        BY <4>1, <4>2 DEF Creates
    <3>2. Mine(c, cache[KeyOf(c, d)]) => Mine(c, cache'[KeyOf(c, d)])
      OBVIOUS
    <3>3. QED
      BY <3>1, <3>2
  <2>4. CASE d.gvk \in ToSet(call'[c].gvks)
    BY <1>3, <2>4
  <2>5. CASE ~due[c] /\ ~Ahead(c, d.gvk) /\ call[c].todo = {} /\ missed'[c] = missed[c]
    <3>1. \/ Mine(c, cache[KeyOf(c, d)])
          \/ KeyOf(c, d) \in byName[c] \cup missed[c]
          \/ d.opts = "noCreate"
      BY <1>4, <2>1, <2>2, <2>5 DEF FoundAt, Creates
    <3>2. Mine(c, cache[KeyOf(c, d)]) => Mine(c, cache'[KeyOf(c, d)])
      OBVIOUS
    <3>3. QED
      BY <1>1, <2>5, <3>1, <3>2
  <2>6. QED
    BY <2>1, <2>2, <2>3, <2>4, <2>5
<1>8. QED
  BY <1>1, <1>2, <1>6, <1>7 DEF Told

LEMMA BeginTold ==
    ASSUME Base, Told, NEW c \in Callers, Begin(c)
    PROVE  Told'
<1>1. PICK set \in Menu[c] : set = desired[c]
  BY DEF Base, CallAt
<1>2. PICK gvks \in Seq(Kinds) : gvks = GVKOrder(set)
  BY GVKOrderOk
<1>3. PruneTypes \subseteq ToSet(gvks) /\ \A d \in set : d.gvk \in ToSet(gvks)
  BY <1>2, GVKOrderOk
<1>4. /\ UNCHANGED <<cache, desired>>
      /\ call' = [call EXCEPT ![c] = IF gvks = <<>> THEN [Idle EXCEPT !.pc = "run"] ELSE Processing(c, set, gvks)]
      /\ IF gvks = <<>> THEN UNCHANGED registry ELSE ListWatch(c, set, Head(gvks))
      /\ due' = [due EXCEPT ![c] = FALSE] /\ missed' = [missed EXCEPT ![c] = {}]
  BY <1>1, <1>2, Zenon DEF Begin
<1>5. /\ Types /\ call \in [Callers -> Calls] /\ due \in [Callers -> BOOLEAN]
      /\ missed \in [Callers -> SUBSET Keys]
  BY DEF Base, Types
<1>6. /\ ~due'[c] /\ \A b \in Callers \ {c} : due'[b] = due[b]
      /\ \A b \in Callers \ {c} : missed'[b] = missed[b]
  BY <1>4, <1>5
<1>7. \A b \in Callers \ {c} : call'[b] = call[b]
  BY <1>4, <1>5
<1>8. CASE gvks = <<>>
  <2>1. ToSet(gvks) = {}
    BY <1>8 DEF ToSet
  <2>2. desired[c] = {} /\ PruneTypes = {}
    BY <1>1, <1>3, <2>1
  <2>3. UNCHANGED <<byName, byLabel>>
    BY <1>4, <1>8 DEF registry
  <2>4. ListedAt(c)' /\ FoundAt(c)'
    BY <1>4, <2>2 DEF ListedAt, FoundAt
  <2>5. \A b \in Callers \ {c} : ListedAt(b)' /\ FoundAt(b)'
    BY <1>4, <1>6, <1>7, <2>3, ToldSame DEF Told
  <2>6. QED
    BY <2>3, <2>4, <2>5 DEF Told, Registered
<1>9. CASE gvks # <<>>
  <2>1. PICK gvk \in Kinds : gvk = Head(gvks)
    BY <1>9, HeadTail
  <2>2. ToSet(gvks) \subseteq {gvk} \cup ToSet(Tail(gvks))
    BY <1>9, <2>1, HeadTail
  <2> DEFINE new == Processing(c, set, gvks)
  <2>3. new \in Calls /\ new.pc = "run" /\ new.gvks = Tail(gvks) /\ new.todo = Compared(c, set, gvk)
    BY <1>5, <1>9, <2>1, ProcessingOk
  <2> HIDE DEF new
  <2>4. call' = [call EXCEPT ![c] = new]
    BY <1>4, <1>9 DEF new
  <2>5. call'[c].pc = "run" /\ call'[c].gvks = Tail(gvks) /\ call'[c].todo = Compared(c, set, gvk)
    BY <1>5, <2>3, <2>4
  <2>6. \A g \in PruneTypes \cup {d.gvk : d \in desired[c]} : g \in {gvk} \cup ToSet(call'[c].gvks)
    BY <1>1, <1>3, <2>2, <2>5
  <2>7. ListWatch(c, set, gvk) /\ set = desired[c]
    BY <1>1, <1>4, <1>9, <2>1
  <2>8. QED
    BY <1>4, <1>6, <1>7, <2>5, <2>6, <2>7, ToldCompare
<1>10. QED
  BY <1>8, <1>9

LEMMA NextGVKTold ==
    ASSUME Base, Told, NEW c \in Callers, NextGVK(c)
    PROVE  Told'
<1>1. /\ call[c].pc = "run" /\ call[c].todo = {} /\ call[c].gvks # <<>>
      /\ UNCHANGED <<cache, desired, due, missed>> /\ ListWatch(c, call[c].set, Head(call[c].gvks))
  BY DEF NextGVK
<1>2. Types /\ call \in [Callers -> Calls] /\ call[c] \in Calls
  BY DEF Base, Types
<1>3. PICK set \in Menu[c] : set = call[c].set
  BY <1>1 DEF Base, CallAt
<1>4. PICK gvks \in Seq(Kinds) : gvks = call[c].gvks /\ gvks # <<>>
  BY <1>1, <1>2 DEF Calls
<1>5. PICK failed \in BOOLEAN : failed = call[c].failed
  BY <1>2 DEF Calls
<1>6. PICK gvk \in Kinds : gvk = Head(gvks)
  BY <1>4, HeadTail
<1>7. ToSet(gvks) \subseteq {gvk} \cup ToSet(Tail(gvks))
  BY <1>4, <1>6, HeadTail
<1> DEFINE first == Processing(c, set, gvks)
           new == [first EXCEPT !.failed = failed]
<1>8. first \in Calls /\ first.pc = "run" /\ first.gvks = Tail(gvks) /\ first.todo = Compared(c, set, gvk)
  <2>1. Types /\ gvks # <<>>
    BY <1>2, <1>4
  <2>2. first \in Calls /\ first.pc = "run" /\ first.gvks = Tail(gvks) /\ first.todo = Compared(c, set, Head(gvks))
    BY <2>1, ProcessingOk, Zenon
  <2> HIDE DEF first
  <2>3. QED
    BY <1>6, <2>2, Zenon
<1>9. call' = [call EXCEPT ![c] = new]
  BY <1>2, <1>3, <1>4, <1>5 DEF NextGVK
<1> HIDE DEF first
<1>10. new.pc = "run" /\ new.gvks = Tail(gvks) /\ new.todo = Compared(c, set, gvk)
  BY <1>8 DEF Calls
<1> HIDE DEF new
<1>11. /\ call'[c].pc = "run" /\ call'[c].gvks = Tail(gvks) /\ call'[c].todo = Compared(c, set, gvk)
       /\ \A b \in Callers \ {c} : call'[b] = call[b]
  BY <1>2, <1>9, <1>10
<1>12. \A g : Ahead(c, g) => g \in {gvk} \cup ToSet(call'[c].gvks)
  BY <1>4, <1>7, <1>11 DEF Ahead
<1>13. ~due'[c] => set = desired[c]
  BY <1>1, <1>3 DEF Base, CallAt
<1>14. \A g \in PruneTypes \cup {d.gvk : d \in desired[c]} :
          \/ due'[c] \/ g \in {gvk} \cup ToSet(call'[c].gvks)
          \/ ~due[c] /\ ~Ahead(c, g) /\ call[c].todo = {} /\ missed'[c] = missed[c]
  BY <1>1, <1>12
<1>15. ListWatch(c, set, gvk)
  BY <1>1, <1>3, <1>4, <1>6
<1>16. QED
  BY <1>1, <1>11, <1>13, <1>14, <1>15, ToldCompare

LEMMA ReturnTold ==
    ASSUME Base, Told, NEW c \in Callers, Return(c)
    PROVE  Told'
<1>1. /\ UNCHANGED <<cache, desired, missed, byName, byLabel>> /\ call' = [call EXCEPT ![c] = Idle]
      /\ call[c].todo = {} /\ call[c].gvks = <<>>
  BY DEF Return, registry
<1>2. due \in [Callers -> BOOLEAN] /\ call \in [Callers -> Calls] /\ call[c].failed \in BOOLEAN
  BY DEF Base, Types, Calls
<1>3. ~due'[c] => ~due[c]
  BY <1>2 DEF Return
<1>4. \A b \in Callers \ {c} : call'[b] = call[b] /\ due'[b] = due[b]
  BY <1>1, <1>2 DEF Return
<1>5. \A b \in Callers \ {c} : ListedAt(b)' /\ FoundAt(b)'
  BY <1>1, <1>4, ToldSame DEF Told
<1>6. ToSet(<<>>) = {}
  BY DEF ToSet
<1>7. \A g : ~Ahead(c, g)
  BY <1>1, <1>6 DEF Ahead
<1>8. \A k, new : ~Creates(c, k, new)
  BY <1>1 DEF Creates
<1>9. ListedAt(c) /\ FoundAt(c)
  BY DEF Told
<1>10. ListedAt(c)'
  BY <1>1, <1>3, <1>7, <1>9 DEF ListedAt
<1>11. FoundAt(c)'
  <2>1. SUFFICES ASSUME ~due'[c], Id(c) # Unset, NEW d \in desired'[c]
        PROVE  \/ Mine(c, cache'[KeyOf(c, d)])
               \/ KeyOf(c, d) \in byName'[c] \cup missed'[c]
               \/ d.opts = "noCreate"
    BY DEF FoundAt, Mine
  <2>2. \/ Mine(c, cache[KeyOf(c, d)])
        \/ KeyOf(c, d) \in byName[c] \cup missed[c]
        \/ d.opts = "noCreate"
    BY <1>1, <1>3, <1>7, <1>8, <1>9, <2>1 DEF FoundAt
  <2>3. Mine(c, cache[KeyOf(c, d)]) => Mine(c, cache'[KeyOf(c, d)])
    BY <1>1
  <2>4. QED
    BY <1>1, <2>2, <2>3
<1>12. QED
  BY <1>1, <1>5, <1>10, <1>11 DEF Told, Registered

LEMMA CrashTold ==
    ASSUME Base, Told, NEW c \in Callers, Crash(c)
    PROVE  Told'
<1>1. /\ UNCHANGED <<cache, desired, missed>> /\ call' = [call EXCEPT ![c] = Idle] /\ due' = [due EXCEPT ![c] = TRUE]
      /\ byName' = [byName EXCEPT ![c] = {}] /\ byLabel' = [byLabel EXCEPT ![c] = {}]
  BY DEF Crash
<1>2. due \in [Callers -> BOOLEAN] /\ call \in [Callers -> Calls] /\ Registered
  BY DEF Base, Types, Told
<1>3. /\ due'[c]
      /\ \A b \in Callers \ {c} : call'[b] = call[b] /\ due'[b] = due[b] /\ byName'[b] = byName[b] /\ byLabel'[b] = byLabel[b]
  BY <1>1, <1>2 DEF Registered
<1>4. Registered'
  BY <1>1, <1>2 DEF Registered
<1>5. \A b \in Callers \ {c} : ListedAt(b)' /\ FoundAt(b)'
  BY <1>1, <1>3, ToldSame DEF Told
<1>6. ListedAt(c)' /\ FoundAt(c)'
  BY <1>3 DEF ListedAt, FoundAt
<1>7. QED
  BY <1>4, <1>5, <1>6 DEF Told

LEMMA SetDesiredTold ==
    ASSUME Base, Told, NEW c \in Callers, NEW set \in Menu[c], SetDesired(c, set)
    PROVE  Told'
<1>1. /\ UNCHANGED <<cache, call, missed, byName, byLabel>>
      /\ desired' = [desired EXCEPT ![c] = set] /\ due' = [due EXCEPT ![c] = TRUE]
  BY DEF SetDesired, registry
<1>2. due \in [Callers -> BOOLEAN] /\ desired \in [Callers -> Sets]
  BY DEF Base, Types
<1>3. due'[c] /\ \A b \in Callers \ {c} : desired'[b] = desired[b] /\ due'[b] = due[b]
  BY <1>1, <1>2
<1>4. \A b \in Callers \ {c} : ListedAt(b)' /\ FoundAt(b)'
  BY <1>1, <1>3, ToldSame DEF Told
<1>5. ListedAt(c)' /\ FoundAt(c)'
  BY <1>3 DEF ListedAt, FoundAt
<1>6. QED
  BY <1>1, <1>4, <1>5 DEF Told, Registered

\* triggers.process forgets a name only together with telling who has it.
LEMMA InformTold ==
    ASSUME Base, Told, NEW k \in Keys, Inform(k)
    PROVE  Told'
<1>1. /\ UNCHANGED <<obj, desired, call, byLabel>>
      /\ cache'[k] = obj[k] /\ \A j \in Keys \ {k} : cache'[j] = cache[j]
      /\ \A b \in Callers : ~due'[b] => ~due[b] /\ ~Matches(b, k)
      /\ \A b \in Callers : missed[b] \subseteq missed'[b]
      /\ \A b \in Callers : Mine(b, cache[k]) /\ ~Mine(b, obj[k]) /\ ~Matches(b, k) => k \in missed'[b]
  BY Delivered
<1>2. byName' = IF obj[k] # Absent THEN byName ELSE [b \in Callers |-> byName[b] \ {k}]
  BY DEF Inform
<1>3. Registered
  BY DEF Told
<1>4. Registered'
  BY <1>1, <1>2, <1>3 DEF Registered
<1>5. ASSUME NEW b \in Callers, ~due'[b] PROVE byName'[b] = byName[b]
  <2>1. k \notin byName[b]
    BY <1>1, <1>5 DEF Matches
  <2>2. byName[b] \ {k} = byName[b]
    BY <2>1
  <2>3. QED
    BY <1>2, <2>2
<1>6. \A b \in Callers : ListedAt(b) /\ FoundAt(b)
  BY DEF Told
<1>7. \A b \in Callers : \A g : Ahead(b, g) => Ahead(b, g)'
  BY <1>1 DEF Ahead
<1>8. \A b \in Callers : ListedAt(b)'
  BY <1>1, <1>5, <1>6, <1>7 DEF ListedAt
<1>9. ASSUME NEW b \in Callers PROVE FoundAt(b)'
  <2>1. SUFFICES ASSUME ~due'[b], Id(b) # Unset, NEW d \in desired'[b]
        PROVE  \/ Mine(b, cache'[KeyOf(b, d)])
               \/ KeyOf(b, d) \in byName'[b] \cup missed'[b]
               \/ d.opts = "noCreate"
               \/ Ahead(b, d.gvk)'
               \/ Creates(b, KeyOf(b, d), New(b, d))'
    BY DEF FoundAt, Mine
  <2>2. ~due[b] /\ ~Matches(b, k) /\ byName'[b] = byName[b] /\ d \in desired[b] /\ KeyOf(b, d) \in Keys
    BY <1>1, <1>5, <2>1, WantedKeys
  <2>3. \/ Mine(b, cache[KeyOf(b, d)])
        \/ KeyOf(b, d) \in byName[b] \cup missed[b]
        \/ d.opts = "noCreate"
        \/ Ahead(b, d.gvk)
        \/ Creates(b, KeyOf(b, d), New(b, d))
    BY <1>6, <2>1, <2>2 DEF FoundAt
  <2>4. CASE Mine(b, cache[KeyOf(b, d)]) /\ KeyOf(b, d) = k
    <3>1. CASE Mine(b, obj[k])
      <4>1. cache'[KeyOf(b, d)] = obj[k]
        BY <1>1, <2>4
      <4>2. QED
        BY <3>1, <4>1
    <3>2. CASE ~Mine(b, obj[k])
      BY <1>1, <2>2, <2>4, <3>2
    <3>3. QED
      BY <3>1, <3>2
  <2>5. CASE Mine(b, cache[KeyOf(b, d)]) /\ KeyOf(b, d) # k
    <3>1. cache'[KeyOf(b, d)] = cache[KeyOf(b, d)]
      BY <1>1, <2>2, <2>5
    <3>2. QED
      BY <2>5, <3>1
  <2>6. CASE KeyOf(b, d) \in byName[b] \cup missed[b]
    BY <1>1, <2>2, <2>6
  <2>7. CASE Creates(b, KeyOf(b, d), New(b, d))
    BY <1>1, <2>7 DEF Creates
  <2>8. QED
    BY <1>7, <2>3, <2>4, <2>5, <2>6, <2>7
<1>10. QED
  BY <1>4, <1>8, <1>9 DEF Told

\* Steps that leave the calls, the registrations and the informer alone.
LEMMA QuietTold ==
    ASSUME Told, UNCHANGED <<cache, desired, due, call, byName, byLabel, missed>>
    PROVE  Told'
<1>1. \A b \in Callers : ListedAt(b)' /\ FoundAt(b)'
  BY ToldSame DEF Told
<1>2. QED
  BY <1>1 DEF Told, Registered

LEMMA NextTold ==
    ASSUME Base, Told, [Next]_vars
    PROVE  Told'
<1>1. ASSUME NEW c \in Callers, Call(c) PROVE Told'
  <2>1. ASSUME NEW lost \in BOOLEAN, Create(c, lost) \/ Update(c, lost) \/ Delete(c, lost) PROVE Told'
    BY <2>1, CreateTold, UpdateTold, DeleteTold
  <2>2. Create(c, FALSE) \/ Update(c, FALSE) \/ Delete(c, FALSE) => Told'
    BY <2>1, Zenon
  <2>3. ASSUME NEW seen \in {cache[Req(c).key], obj[Req(c).key]}, GetExisting(c, seen) PROVE Told'
    BY <2>3, GetExistingTold
  <2>4. QED
    BY <1>1, <2>2, <2>3, BeginTold, NextGVKTold, ReturnTold, AlreadyExistsTold, Zenon DEF Call
<1>2. ASSUME NEW c \in Callers, Fault(c) PROVE Told'
  <2>1. ASSUME NEW lost \in BOOLEAN, Create(c, lost) \/ Update(c, lost) \/ Delete(c, lost) PROVE Told'
    BY <2>1, CreateTold, UpdateTold, DeleteTold
  <2>2. Create(c, TRUE) \/ Update(c, TRUE) \/ Delete(c, TRUE) => Told'
    BY <2>1, Zenon
  <2>3. QED
    BY <1>2, <2>2, RequestFailsTold, CrashTold, Zenon DEF Fault
<1>3. ASSUME NEW k \in Keys, PurgeOrphan(k) \/ UserDelete(k) \/ FinalizersDone(k) PROVE Told'
  <2>1. UNCHANGED <<cache, desired, due, call, byName, byLabel, missed>>
    BY <1>3 DEF PurgeOrphan, UserDelete, FinalizersDone, registry
  <2>2. QED
    BY <2>1, QuietTold
<1>4. ASSUME NEW k \in Keys, NEW v \in Vals, UserEdit(k, v) PROVE Told'
  <2>1. UNCHANGED <<cache, desired, due, call, byName, byLabel, missed>>
    BY <1>4 DEF UserEdit, registry
  <2>2. QED
    BY <2>1, QuietTold
<1>5. ASSUME NEW o \in DOMAIN OwnerNs, OwnerDeleted(o) PROVE Told'
  <2>1. UNCHANGED <<cache, desired, due, call, byName, byLabel, missed>>
    BY <1>5 DEF OwnerDeleted, registry
  <2>2. QED
    BY <2>1, QuietTold
<1>6. ASSUME UNCHANGED vars PROVE Told'
  <2>1. UNCHANGED <<cache, desired, due, call, byName, byLabel, missed>>
    BY <1>6 DEF vars, registry
  <2>2. QED
    BY <2>1, QuietTold
<1>7. QED
  BY <1>1, <1>2, <1>3, <1>4, <1>5, <1>6, SetDesiredTold, InformTold, Zenon DEF Next

-------------------------------------------------------------------------------
(* The theorems                                                            *)

LEMMA InitBase == Init => Base
<1>1. SUFFICES ASSUME Init PROVE Base
  OBVIOUS
<1>2. /\ obj = Obj0 /\ cache = Obj0 /\ news = {} /\ desired = Desired0 /\ gone = {}
      /\ due = [c \in Callers |-> TRUE] /\ missed = [c \in Callers |-> {}] /\ call = [c \in Callers |-> Idle]
  BY <1>1 DEF Init
<1>3. Obj0 \in [Keys -> Stored] /\ Desired0 \in [Callers -> Sets] /\ \A c \in Callers : Desired0[c] \in Menu[c]
  BY ApplyAssumption DEF Stored, Sets
<1>4. call \in [Callers -> Calls] /\ \A c \in Callers : call[c] = Idle
  BY <1>2, IdleOk
<1>5. Types
  BY <1>2, <1>3, <1>4 DEF Types
<1>6. \A c \in Callers : CallAt(c) /\ RequestsAt(c)
  BY <1>2, <1>3, <1>4, IdleOk DEF CallAt, RequestsAt
<1>7. QED
  BY <1>2, <1>5, <1>6 DEF Base, NewsOk

LEMMA InitLive == Regular /\ Init => Live
<1>1. SUFFICES ASSUME Regular, Init PROVE Live
  OBVIOUS
<1>2. obj = Obj0 /\ cache = Obj0 /\ \A c \in Callers : due[c]
  BY <1>1 DEF Init
<1>3. LabelOk
  BY <1>1, <1>2 DEF LabelOk, Regular, Pruned
<1>4. \A c \in Callers : WantAt(c) /\ PruneAt(c)
  BY <1>2 DEF WantAt, PruneAt, Fresh
<1>5. QED
  BY <1>3, <1>4 DEF Live

LEMMA InitTold == Init => Told
<1>1. SUFFICES ASSUME Init PROVE Told
  OBVIOUS
<1>2. byName = [c \in Callers |-> {}] /\ byLabel = [c \in Callers |-> {}] /\ \A c \in Callers : due[c]
  BY <1>1 DEF Init
<1>3. Registered
  BY <1>2 DEF Registered
<1>4. \A c \in Callers : ListedAt(c) /\ FoundAt(c)
  BY <1>2 DEF ListedAt, FoundAt
<1>5. QED
  BY <1>3, <1>4 DEF Told

LEMMA NextStep ==
    ASSUME Base, [Next]_vars
    PROVE  Base' /\ (Regular /\ Told /\ Live => Live')
<1>1. ASSUME NEW c \in Callers, Call(c) PROVE Base' /\ (Regular /\ Told /\ Live => Live')
  <2>1. ASSUME NEW lost \in BOOLEAN, Create(c, lost) \/ Update(c, lost) \/ Delete(c, lost)
        PROVE  Base' /\ (Regular /\ Told /\ Live => Live')
    BY <2>1, CreateStep, UpdateStep, DeleteStep
  <2>2. Create(c, FALSE) \/ Update(c, FALSE) \/ Delete(c, FALSE) => Base' /\ (Regular /\ Told /\ Live => Live')
    BY <2>1, Zenon
  <2>3. ASSUME NEW seen \in {cache[Req(c).key], obj[Req(c).key]}, GetExisting(c, seen)
        PROVE  Base' /\ (Regular /\ Told /\ Live => Live')
    BY <2>3, GetExistingStep
  <2>4. QED
    BY <1>1, <2>2, <2>3, BeginStep, NextGVKStep, ReturnStep, AlreadyExistsStep, Zenon DEF Call
<1>2. ASSUME NEW c \in Callers, Fault(c) PROVE Base' /\ (Regular /\ Told /\ Live => Live')
  <2>1. ASSUME NEW lost \in BOOLEAN, Create(c, lost) \/ Update(c, lost) \/ Delete(c, lost)
        PROVE  Base' /\ (Regular /\ Told /\ Live => Live')
    BY <2>1, CreateStep, UpdateStep, DeleteStep
  <2>2. Create(c, TRUE) \/ Update(c, TRUE) \/ Delete(c, TRUE) => Base' /\ (Regular /\ Told /\ Live => Live')
    BY <2>1, Zenon
  <2>3. QED
    BY <1>2, <2>2, RequestFailsStep, CrashStep, Zenon DEF Fault
<1>3. ASSUME NEW k \in Keys, PurgeOrphan(k) \/ UserDelete(k) PROVE Base' /\ (Live => Live')
  BY <1>3, RemoveStep DEF PurgeOrphan, UserDelete
<1>4. QED
  BY <1>1, <1>2, <1>3, SetDesiredStep, InformStep, FinalizersDoneStep, UserEditStep, OwnerDeletedStep, StutterStep, Zenon DEF Next

\* The invariant, for callers that use the package as it is meant to be used:
\* every operation of apply, every fault and every change by others preserves it.
THEOREM Invariance ==
    ASSUME Regular
    PROVE  Spec => []Inv
<1>1. Init => Inv
  BY InitBase, InitTold, InitLive DEF Inv
<1>2. Inv /\ [Next]_vars => Inv'
  BY NextStep, NextTold DEF Inv
<1>3. QED
  BY <1>1, <1>2, PTL DEF Spec

\* TypeOK for any use: objects keep their fields, calls their types, createF
\* reads what it failed to create only while that creation is still to be done,
\* and only objects are registered by name.
THEOREM TypeCorrect == Spec => []TypeOK
<1>1. Init => Base /\ Told
  BY InitBase, InitTold
<1>2. Base /\ Told /\ [Next]_vars => Base' /\ Told'
  BY NextStep, NextTold
<1>3. Base /\ Told => TypeOK
  <2>1. SUFFICES ASSUME Base, Told PROVE TypeOK
    OBVIOUS
  <2>2. ASSUME NEW k \in Keys, obj[k] # Absent PROVE DOMAIN obj[k].c = Fields /\ DOMAIN obj[k].applied = Fields
    <3>1. obj[k] \in Objects
      BY <2>1, <2>2 DEF Base, Types, Stored
    <3>2. QED
      BY <3>1 DEF Objects
  <2>3. ASSUME NEW c \in Callers
        PROVE  /\ desired[c] \in Menu[c] /\ due[c] \in BOOLEAN /\ call[c].pc \in {"idle", "run", "get"}
               /\ call[c].pc = "get" => \E r \in call[c].todo : r.op \in {"create", "recreate"} /\ r.old = Absent
               /\ byName[c] \cup missed[c] \subseteq Keys
    <3>1. CallAt(c) /\ RequestsAt(c) /\ call[c] \in Calls /\ due[c] \in BOOLEAN /\ missed[c] \subseteq Keys
      BY <2>1 DEF Base, Types
    <3>2. byName[c] \subseteq Keys
      BY <2>1 DEF Told, Registered
    <3>3. QED
      BY <3>1, <3>2 DEF CallAt, RequestsAt, Calls
  <2>4. gone \subseteq DOMAIN OwnerNs
    BY <2>1 DEF Base, Types
  <2>5. QED
    BY <2>2, <2>3, <2>4 DEF TypeOK
<1>4. QED
  BY <1>1, <1>2, <1>3, PTL DEF Spec

LEMMA RestApplied ==
    ASSUME Inv
    PROVE  RestMeansApplied
<1>1. SUFFICES ASSUME NEW c \in Callers, Rest(c) PROVE Applied(c, missed[c])
  BY DEF RestMeansApplied
<1>2. ~due[c] /\ call[c].pc = "idle" /\ news = {} /\ ~call[c].failed
  BY <1>1 DEF Rest, Inv, Base, CallAt
<1>3. \A d \in desired[c] : Agreed(c, d)
  BY <1>1, <1>2 DEF Inv, Live, WantAt, Fresh
<1>4. ASSUME c \notin NoPrune, NEW k \in Keys, Mine(c, obj[k]), Prunable(obj[k]) PROVE \E d \in desired[c] : KeyOf(c, d) = k
  BY <1>1, <1>2, <1>4 DEF Inv, Live, PruneAt, Fresh
<1>5. QED
  BY <1>3, <1>4 DEF Agreed, Applied

\* RestMeansApplied: when nothing is left to do for a caller, its desired set is
\* applied and nothing else carries its label, but for objects that left the set
\* without the triggers telling the caller; whatever requests failed, whatever
\* answers and processes were lost, and whatever stale state was read, for any
\* callers, objects, kinds, annotations and number of events.
THEOREM AppliedAtRest ==
    ASSUME Regular
    PROVE  Spec => []RestMeansApplied
BY RestApplied, Invariance, PTL

\* Only what has a label can leave a set unnoticed.
NoneMissed == \A c \in Callers : Id(c) = Unset => missed[c] = {}

LEMMA NoneMissedStep ==
    ASSUME Base, NoneMissed, [Next]_vars
    PROVE  NoneMissed'
<1>1. missed \in [Callers -> SUBSET Keys]
  BY DEF Base, Types
<1>2. ASSUME NEW c \in Callers, Begin(c) PROVE NoneMissed'
  BY <1>1, <1>2 DEF Begin, NoneMissed
<1>3. ASSUME NEW k \in Keys, Inform(k) PROVE NoneMissed'
  BY <1>3 DEF Inform, NoneMissed, Mine
<1>4. missed' = missed => NoneMissed'
  BY DEF NoneMissed
<1>5. ASSUME NEW c \in Callers, Call(c) PROVE Begin(c) \/ missed' = missed
  BY <1>5 DEF Call, NextGVK, Return, Create, AlreadyExists, Update, Delete, GetExisting
<1>6. ASSUME NEW c \in Callers, Fault(c) PROVE missed' = missed
  BY <1>6 DEF Fault, RequestFails, Crash, Create, Update, Delete
<1>7. ASSUME NEW c \in Callers, NEW set \in Menu[c], SetDesired(c, set) PROVE missed' = missed
  BY <1>7 DEF SetDesired
<1>8. ASSUME NEW k \in Keys, PurgeOrphan(k) \/ UserDelete(k) \/ FinalizersDone(k) PROVE missed' = missed
  BY <1>8 DEF PurgeOrphan, UserDelete, FinalizersDone
<1>9. ASSUME NEW k \in Keys, NEW v \in Vals, UserEdit(k, v) PROVE missed' = missed
  BY <1>9 DEF UserEdit
<1>10. ASSUME NEW o \in DOMAIN OwnerNs, OwnerDeleted(o) PROVE missed' = missed
  BY <1>10 DEF OwnerDeleted
<1>11. UNCHANGED vars => missed' = missed
  BY DEF vars
<1>12. QED
  BY <1>2, <1>3, <1>4, <1>5, <1>6, <1>7, <1>8, <1>9, <1>10, <1>11, Zenon DEF Next

\* LevelTriggered for callers without an identity, as Ensure is: process reads
\* their objects one by one and registers the name of each, so that a removal is
\* never missed, for any objects, kinds and annotations and number of events.
THEOREM EnsuredAtRest ==
    ASSUME Regular, \A c \in Callers : Id(c) = Unset
    PROVE  Spec => []LevelTriggered
<1>1. Init => Inv /\ NoneMissed
  <2>1. SUFFICES ASSUME Init PROVE Inv /\ NoneMissed
    OBVIOUS
  <2>2. Inv
    BY <2>1, InitBase, InitTold, InitLive DEF Inv
  <2>3. NoneMissed
    BY <2>1 DEF Init, NoneMissed
  <2>4. QED
    BY <2>2, <2>3
<1>2. Inv /\ NoneMissed /\ [Next]_vars => Inv' /\ NoneMissed'
  BY NextStep, NextTold, NoneMissedStep DEF Inv
<1>3. Inv /\ NoneMissed => LevelTriggered
  <2>1. SUFFICES ASSUME Inv, NoneMissed, NEW c \in Callers, c.owner \notin gone, Rest(c) PROVE Applied(c, {})
    BY DEF LevelTriggered
  <2>2. Applied(c, missed[c])
    BY <2>1, RestApplied DEF RestMeansApplied
  <2>3. QED
    BY <2>1, <2>2 DEF NoneMissed
<1>4. QED
  BY <1>1, <1>2, <1>3, PTL DEF Spec
===============================================================================
