------------------------------ MODULE MCShared ------------------------------
(* Instances of Shared for TLC: two handler sets on one Backend.            *)
EXTENDS Shared

CONSTANTS obj1, h1, h2, g1, g2, g3, leader, other, reader

MCSets == {h1, h2}
MCKinds == {g1, g2, g3}
MCThreads == {leader, other, reader}
MCSetOf == [t \in MCThreads |-> IF t = other THEN h2 ELSE h1]
MCProgram == [t \in MCThreads |-> CASE t = leader -> <<"preload", "start">> [] t = other -> <<"start">> [] OTHER -> <<"watch">>]
MCKindsOf == [s \in MCSets |-> {g1}]
MCObjects == {obj1}
MCInitial == [g \in MCKinds |-> IF g = g2 THEN {obj1} ELSE {}]
MCLater == [g \in MCKinds |-> IF g = g1 THEN {obj1} ELSE {}]
JustG3 == {g3}
Late == {g2, g3}

\* The instance is one that the theorems are about.
ASSUME OneFollowerInstance == OneFollower
==============================================================================
