------------------------------- MODULE MCRouter -------------------------------
(* Instances of Router for TLC.                                              *)
EXTENDS Router
===============================================================================
