------------------------------ MODULE MCApply -------------------------------
(* An instance of Apply for TLC: two subcontexts of one owner.              *)
EXTENDS Apply

CONSTANTS owner1, vx, vy

A == [sub |-> "a", owner |-> owner1]
B == [sub |-> "b", owner |-> owner1]
MCCallers == {A, B}
MCOwnerNs == [p \in {owner1} |-> "n"]

Key(name) == [gk |-> "G", ns |-> "n", name |-> name]
MCKeys == {Key("1"), Key("2"), Key("3")}
MCKinds == {"G"}
G(v) == [gk |-> "G", v |-> v]
Version1 == {G("v1")}
Obj(v, name, sel, f) == [gvk |-> G(v), ns |-> "", name |-> name, data |-> [sel |-> sel, f |-> f], opts |-> Unset]

\* A moves 1 to another version, with a change that replaces it, and takes 2,
\* which B may have.
A1 == {Obj("v1", "1", vx, vx)}
A2 == {Obj("v2", "1", vy, Unset), Obj("v2", "2", vx, vx)}
B2 == {Obj("v1", "2", vx, vy)}
MCMenu == [c \in MCCallers |-> IF c = A THEN {A1, A2} ELSE {B2, {}}]
MCDesired0 == [c \in MCCallers |-> IF c = A THEN A1 ELSE {}]

\* 1 exists without an owner, 3 is a copy that carries the label of A
MCObj0 == [k \in MCKeys |->
    IF k.name = "2" THEN Absent
    ELSE [c |-> [Nothing EXCEPT !["f"] = vy, !["hash"] = IF k.name = "3" THEN Id(A) ELSE Unset],
          applied |-> Nothing, deleting |-> FALSE]]
Just1 == {Key("1")}
JustY == {vy}
BToA == {<<"b", "a">>}
Empty == {}

\* The instance is one that the theorems are about.
ASSUME RegularInstance == Regular
==============================================================================
