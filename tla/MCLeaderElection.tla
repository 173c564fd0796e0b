-------------------------- MODULE MCLeaderElection --------------------------
(* Instances of LeaderElection for TLC.                                      *)
EXTENDS LeaderElection

CONSTANTS r1, r2, r3

Three == {r1, r2, r3}

BothLocks == {"file", "leases"}
==============================================================================
