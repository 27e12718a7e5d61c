-------------------------------- MODULE Retries --------------------------------
(* How often a deletion in the cluster is tried: _delete_with_retries *)
EXTENDS Integers

CONSTANT Attempts
ASSUME AttemptsAssumption == Attempts \in Nat \ {0}
===============================================================================
