-------------------------- MODULE MCWritePermission --------------------------
(* Instances of WritePermission. *)
EXTENDS WritePermission

CONSTANTS a1, a2, r1, r2

TwoAttempts == {a1, a2}
TwoConnections == {r1, r2}
==============================================================================
