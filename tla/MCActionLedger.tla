--------------------------- MODULE MCActionLedger ---------------------------
(* A small instance of ActionLedger: a message, an outside-world action and  *)
(* a local one.                                                              *)
EXTENDS ActionLedger

CONSTANTS m, x, l

AllFaults == {"append", "sync", "persist", "deliver", "input", "agent",
              "cancel"}

=============================================================================
