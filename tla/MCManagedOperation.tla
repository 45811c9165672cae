------------------------- MODULE MCManagedOperation -------------------------
(* Instances of ManagedOperation for TLC. *)
EXTENDS ManagedOperation

CONSTANTS a, b, c

AllFaults == {"append", "sync", "store", "publish", "persist"}
=============================================================================
