------------------------------ MODULE MCChain -------------------------------
(* Instances of Chain for TLC.                                              *)
EXTENDS Chain

CONSTANTS fin1, fin2

Plain == [does |-> "report", id |-> None, sel |-> FALSE, include |-> "live", rejects |-> {}]
MCRoutes == <<[Plain EXCEPT !.rejects = {"bad"}],
              [Plain EXCEPT !.sel = TRUE],
              [Plain EXCEPT !.does = "finalize", !.id = fin1, !.sel = TRUE],
              [Plain EXCEPT !.does = "normalize", !.include = "finalizing"],
              [Plain EXCEPT !.does = "finalize", !.id = fin2],
              [Plain EXCEPT !.does = "forget", !.include = "removed"]>>
=============================================================================
