---------------------------- MODULE MCController ----------------------------
(* Instances of Controller for TLC.                                         *)
EXTENDS ControllerRefinement

CONSTANTS k1, k2, none

MCKeys == {k1, k2}
MCObjects == {k1}
MCSplitOne == [k \in MCKeys |-> 1]
==============================================================================
