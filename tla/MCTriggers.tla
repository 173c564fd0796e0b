----------------------------- MODULE MCTriggers -----------------------------
(* Instances of Triggers for TLC: object a lists the namespace of object b. *)
EXTENDS Triggers

CONSTANTS v1, v2

a == [gvk |-> "A", ns |-> "n", name |-> "a"]
b == [gvk |-> "B", ns |-> "n", name |-> "b"]

MCVals == {v1, v2}
AB == {a, b}

InNamespace == [gvk |-> "B", ns |-> "n", name |-> "", sel |-> {v1, v2, Absent}]

ListNamespace == [o \in AB |-> IF o = a THEN {InNamespace} ELSE {}]

AllV1 == [o \in AB |-> v1]
==============================================================================
