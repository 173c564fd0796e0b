---------------------------- MODULE MCHandlerSet ----------------------------
(* Instances of HandlerSet for TLC.                                         *)
EXTENDS HandlerSet

CONSTANTS key, s1, s2

MCKeys == {key}
MCSpecs == {s1, s2}
==============================================================================
