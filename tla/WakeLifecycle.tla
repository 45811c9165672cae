--------------------------- MODULE WakeLifecycle ---------------------------
(***************************************************************************)
(* What the publication outbox promises of each wake identity: it is       *)
(* reserved, becomes announced when its source event is committed, is      *)
(* taken by one run, and is done when that run is durably terminal.  It    *)
(* never goes back, so its consequence happens at most once.               *)
(* (header of publication_outbox.c; docs/architecture.md)                  *)
(***************************************************************************)
EXTENDS Integers, Sequences

CONSTANT Wakes
VARIABLE stage

Stages == <<"free", "reserved", "announced", "running", "done">>

Init == stage = [w \in Wakes |-> Stages[1]]

Advance(w) ==
  \E i \in 1..4 : stage[w] = Stages[i] /\ stage'[w] = Stages[i + 1]

\* One step may move several wakes (a shutdown ends every run at once).
Next ==
  /\ stage' \in [Wakes -> {Stages[i] : i \in 1..5}]
  /\ \A w \in Wakes : stage'[w] = stage[w] \/ Advance(w)

Spec == Init /\ [][Next]_stage
=============================================================================
