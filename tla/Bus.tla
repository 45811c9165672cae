--------------------------------- MODULE Bus ---------------------------------
(***************************************************************************)
(* The message bus (runtime/bus/bus.c) between the processes that publish   *)
(* and the gateway that takes: numbered envelope files, a counter under     *)
(* flock, a wake datagram, and the intake pass of the reactor               *)
(* (gateway/wake_module.c, gateway/bus_intake_module.c, ports.c).           *)
(*                                                                          *)
(* A publisher is a process of its own (a command, a worker) and may be     *)
(* killed anywhere.  The gateway's loop is one process; runs end whenever   *)
(* they end.  A message is <<publisher, n>>.                                *)
(***************************************************************************)
EXTENDS Integers, FiniteSets

CONSTANTS
  Publishers,  \* processes that publish
  MaxMsgs,     \* bound: messages of each publisher
  FirstId,     \* the counter's value at the start
  LastId,      \* LONG_MAX: the counter goes no further
  PadLimit,    \* ids from here on have more digits than the format pads to
  ScanCap,     \* BUS_NAMES_CAP
  Budget,      \* RT_INTAKE_PER_TICK
  MaxActive,   \* RT_MAX_ACTIVE_RUNS
  MaxFaults,   \* bound: kills, failed writes and failed renames
  MaxRequeues  \* bound: envelopes requeued

None == "none"

ASSUME PublishersAssumption == None \notin Publishers
ASSUME IdsAssumption ==
  FirstId \in Nat /\ LastId \in Nat /\ PadLimit \in Nat /\ FirstId <= LastId
ASSUME BoundsAssumption ==
  /\ MaxMsgs \in [Publishers -> Nat] /\ MaxFaults \in Nat /\ MaxRequeues \in Nat
  /\ ScanCap \in Nat /\ Budget \in Nat /\ MaxActive \in Nat

VARIABLES
  lock,     \* who holds .counter.lock
  counter,  \* .counter
  at,       \* where each publisher is
  id,       \* the envelope id it has been given, or 0
  begun,    \* how many messages it has begun
  inbox,    \* envelope ids in inbox/
  done,     \* envelope ids in processed/
  body,     \* the message an envelope file holds
  wake,     \* a datagram waits in the socket
  pc,       \* where the gateway is
  ready,    \* the poll about to start has a deadline that is now
  seen,     \* the inbox when the scan began
  batch,    \* the names the scan gave and the pass has not reached
  left,     \* how many more the pass may take
  cur,      \* the envelope in hand
  active,   \* how many runs are active
  runs,     \* history: how often a run was made from an envelope
  again,    \* history: envelopes requeued
  sent,     \* history: messages whose file reached the inbox
  faults

pubVars == <<lock, counter, at, id, begun>>
gwVars == <<pc, ready, seen, batch, left, cur>>
vars == <<pubVars, inbox, done, body, wake, gwVars, active, runs, again, sent, faults>>

Ids == FirstId..LastId

Init ==
  /\ lock = None /\ counter = FirstId
  /\ at = [p \in Publishers |-> "idle"] /\ id = [p \in Publishers |-> 0]
  /\ begun = [p \in Publishers |-> 0]
  /\ inbox = {} /\ done = {} /\ body = [i \in Ids |-> <<None, 0>>]
  /\ wake = FALSE
  /\ pc = "down" /\ ready = FALSE /\ seen = {} /\ batch = {} /\ left = 0 /\ cur = 0
  /\ active = 0 /\ runs = [i \in Ids |-> 0] /\ again = {} /\ sent = {}
  /\ faults = 0

-----------------------------------------------------------------------------
(* A publisher.                                                            *)

At(p, to, i) == at' = [at EXCEPT ![p] = to] /\ id' = [id EXCEPT ![p] = i]
Quiet == UNCHANGED <<gwVars, active, runs, again>>

\* A variant: see MayLock.
MayLockAlways == TRUE
\* flock(LOCK_EX) on the counter's lock file.
MayLock == lock = None

\* next_envelope_id: the counter is read under the lock ...
ReadCounter(p) ==
  /\ at[p] = "idle" /\ begun[p] < MaxMsgs[p] /\ counter < LastId
  /\ MayLock
  /\ lock' = p
  /\ At(p, "locked", counter + 1)
  /\ begun' = [begun EXCEPT ![p] = @ + 1]
  /\ UNCHANGED <<counter, inbox, done, body, wake, sent, faults>> /\ Quiet

\* ... and replaced before the lock is given up.
WriteCounter(p) ==
  /\ at[p] = "locked"
  /\ lock' = None
  /\ \/ counter' = id[p] /\ At(p, "reserved", id[p]) /\ UNCHANGED faults
     \/ /\ faults < MaxFaults /\ faults' = faults + 1   \* the write fails
        /\ At(p, "idle", 0) /\ UNCHANGED counter
  /\ UNCHANGED <<begun, inbox, done, body, wake, sent>> /\ Quiet

\* bus_envelope_locations, before anything is written: an envelope that is
\* there already is the same one or a conflict, and is left alone.
Occupied(i) == i \in inbox \cup done
Look(p) ==
  /\ at[p] = "reserved"
  /\ IF Occupied(id[p]) THEN At(p, "idle", 0) ELSE At(p, "writing", id[p])
  /\ UNCHANGED <<lock, counter, begun, inbox, done, body, wake, sent, faults>> /\ Quiet

\* The inbox file is the commit: written aside and renamed.
Commit(p) ==
  LET msg == <<p, begun[p]>>
  IN  /\ at[p] = "writing"
      /\ \/ /\ inbox' = inbox \cup {id[p]}
            /\ body' = [body EXCEPT ![id[p]] = msg]
            /\ sent' = sent \cup {msg}
            /\ At(p, "signals", id[p]) /\ UNCHANGED faults
         \/ /\ faults < MaxFaults /\ faults' = faults + 1   \* the write fails
            /\ At(p, "idle", 0) /\ UNCHANGED <<inbox, body, sent>>
      /\ UNCHANGED <<lock, counter, begun, done, wake>> /\ Quiet

\* bus_signal_wake: a datagram, lost when nothing is bound to the socket.
SignalWake(p) ==
  /\ at[p] = "signals"
  /\ wake' = (wake \/ pc # "down")
  /\ At(p, "idle", 0)
  /\ UNCHANGED <<lock, counter, begun, inbox, done, body, sent, faults>> /\ Quiet

\* The process is killed; its locks go with it.
KillPublisher(p) ==
  /\ faults < MaxFaults /\ faults' = faults + 1
  /\ at[p] \notin {"idle", "gone"}
  /\ At(p, "gone", 0)
  /\ lock' = IF lock = p THEN None ELSE lock
  /\ UNCHANGED <<counter, begun, inbox, done, body, wake, sent>> /\ Quiet

-----------------------------------------------------------------------------
(* The gateway's loop.                                                     *)

Still == UNCHANGED <<pubVars, body, sent>>
Idle == /\ seen' = {} /\ batch' = {} /\ left' = 0 /\ cur' = 0

\* wake_init: the old socket is unlinked and a new one bound.
Start ==
  /\ pc = "down"
  /\ pc' = "collect" /\ wake' = FALSE
  /\ UNCHANGED <<inbox, done, ready, seen, batch, left, cur, active, runs, again, faults>>
  /\ Still

\* bi_next_deadline: now, if the inbox holds an envelope and a run fits.
Pending == inbox # {} /\ active < MaxActive
Collect ==
  /\ pc = "collect"
  /\ pc' = "poll" /\ ready' = Pending
  /\ UNCHANGED <<inbox, done, wake, seen, batch, left, cur, active, runs, again, faults>>
  /\ Still

\* A variant: see PollReturns.
PollWaits == ready \/ wake
\* poll(2) returns at a deadline, on a datagram, or when its own time is up.
PollReturns == TRUE

\* wake_on_fd reads every datagram; then the ticks run.
Poll ==
  /\ pc = "poll" /\ PollReturns
  /\ pc' = "tick" /\ ready' = FALSE /\ wake' = FALSE
  /\ UNCHANGED <<inbox, done, seen, batch, left, cur, active, runs, again, faults>>
  /\ Still

Lesser(a, b) == IF a <= b THEN a ELSE b

\* rt_ports_drain_sources: as many as there is room for, and the directory
\* is opened.
Tick ==
  /\ pc = "tick"
  /\ LET room == Lesser(Budget, MaxActive - active)
     IN  IF room = 0 \/ inbox = {}
         THEN pc' = "collect" /\ UNCHANGED <<seen, left>>
         ELSE pc' = "scan" /\ seen' = inbox /\ left' = room
  /\ UNCHANGED <<inbox, done, wake, ready, batch, cur, active, runs, again, faults>>
  /\ Still

\* inbox_scan_sorted: at most ScanCap names, in the directory's order; a
\* file added meanwhile may or may not be among them.
Scan ==
  /\ pc = "scan"
  /\ \E late \in SUBSET (inbox \ seen) :
       \E names \in SUBSET (seen \cup late) :
         /\ Cardinality(names) = Lesser(ScanCap, Cardinality(seen \cup late))
         /\ batch' = names
  /\ pc' = "drain"
  /\ UNCHANGED <<inbox, done, wake, ready, seen, left, cur, active, runs, again, faults>>
  /\ Still

\* The place of a name in strcmp order: the padding ends before the digits do.
NameKey(i) == IF i < PadLimit THEN 10 * i - 1 ELSE i
\* A variant: see Oldest.
OldestAny(S) == S
Oldest(S) == {i \in S : \A j \in S : NameKey(i) <= NameKey(j)}

\* A variant: see AfterRename.
AfterRenameAnyway(moved) == "handle"
\* An envelope that cannot be moved is skipped.
AfterRename(moved) == IF moved THEN "handle" ELSE "drain"

\* bus_drain_inbox: the next name is moved to processed/.
Rename ==
  /\ pc = "drain" /\ batch # {} /\ left > 0
  /\ \E i \in Oldest(batch) :
       /\ cur' = i /\ batch' = batch \ {i} /\ left' = left - 1
       /\ \/ /\ inbox' = inbox \ {i} /\ done' = done \cup {i}
             /\ pc' = AfterRename(TRUE) /\ UNCHANGED <<faults, seen>>
          \/ /\ faults < MaxFaults /\ faults' = faults + 1
             /\ pc' = AfterRename(FALSE) /\ seen' = seen \ {i}
             /\ UNCHANGED <<inbox, done>>
  /\ UNCHANGED <<wake, ready, active, runs, again>> /\ Still

\* intake_envelope: a run is made from it, or it is rejected.
Handle ==
  /\ pc = "handle"
  /\ pc' = "drain"
  /\ runs' = [runs EXCEPT ![cur] = @ + 1]
  /\ active' \in {active, active + 1}
  /\ UNCHANGED <<inbox, done, wake, ready, seen, batch, left, cur, again, faults>>
  /\ Still

DrainEnds ==
  /\ pc = "drain" /\ (batch = {} \/ left = 0)
  /\ pc' = "collect" /\ Idle
  /\ UNCHANGED <<inbox, done, wake, ready, active, runs, again, faults>> /\ Still

\* The tick of another module: a run ends, or a processed envelope whose work
\* is not finished is put back (bus_requeue_processed).
RunEnds ==
  /\ pc \in {"collect", "poll", "tick"} /\ active > 0 /\ active' = active - 1
  /\ UNCHANGED <<inbox, done, wake, gwVars, runs, again, faults>> /\ Still
Requeue(i) ==
  /\ pc = "tick" /\ i \in done \ again /\ Cardinality(again) < MaxRequeues
  /\ done' = done \ {i} /\ inbox' = inbox \cup {i}
  /\ again' = again \cup {i} /\ wake' = TRUE
  /\ UNCHANGED <<gwVars, active, runs, faults>> /\ Still

\* The gateway is killed and its runs with it.
KillGateway ==
  /\ pc # "down" /\ faults < MaxFaults /\ faults' = faults + 1
  /\ pc' = "down" /\ ready' = FALSE /\ wake' = FALSE /\ active' = 0 /\ Idle
  /\ UNCHANGED <<inbox, done, runs, again>> /\ Still

Publish(p) ==
  \/ ReadCounter(p) \/ WriteCounter(p) \/ Look(p) \/ Commit(p) \/ SignalWake(p)
Loop == Start \/ Collect \/ Poll \/ Tick \/ Scan \/ Rename \/ Handle \/ DrainEnds

Next ==
  \/ \E p \in Publishers : Publish(p) \/ KillPublisher(p)
  \/ Loop \/ RunEnds \/ KillGateway
  \/ \E i \in Ids : Requeue(i)

Spec == Init /\ [][Next]_vars /\ WF_vars(Loop) /\ WF_vars(RunEnds)

-----------------------------------------------------------------------------
TypeOK ==
  /\ lock \in Publishers \cup {None} /\ counter \in Ids
  /\ at \in [Publishers -> {"idle", "locked", "reserved", "writing", "signals", "gone"}]
  /\ id \in [Publishers -> Ids \cup {0}] /\ begun \in [Publishers -> Nat]
  /\ inbox \subseteq Ids /\ done \subseteq Ids
  /\ body \in [Ids -> (Publishers \cup {None}) \X Nat] /\ sent \subseteq Publishers \X Nat
  /\ wake \in BOOLEAN /\ ready \in BOOLEAN
  /\ pc \in {"down", "collect", "poll", "tick", "scan", "drain", "handle"}
  /\ seen \subseteq Ids /\ batch \subseteq Ids /\ left \in 0..Budget /\ cur \in Ids \cup {0}
  /\ active \in 0..MaxActive /\ runs \in [Ids -> Nat] /\ again \subseteq Ids
  /\ faults \in 0..MaxFaults

\* Every message whose envelope was committed is in one envelope for good:
\* two publishers never get the same id, whoever is killed between reading
\* the counter and writing it, so no envelope is written over another.
MessagesKept ==
  \A m \in sent : \E i \in inbox \cup done :
    \A j \in inbox \cup done : body[j] = m <=> j = i

\* A run is made from an envelope once, and once more if it was requeued:
\* what could not be moved out of the inbox is not handled.
TakenOnce == \A i \in Ids : runs[i] <= IF i \in again THEN 2 ELSE 1

\* An envelope that was in the inbox when a pass began is not passed over by
\* one with a later id, unless the inbox is larger than the scan or the ids
\* have outgrown their padding.
TakesOldest ==
  pc = "drain" /\ pc' = "handle" /\ Cardinality(inbox \cup done) <= ScanCap =>
    \A i \in seen \cap inbox : cur' < PadLimit => i >= cur'
OldestTaken == [][TakesOldest]_vars

\* The inbox is emptied again and again, so every committed envelope is
\* taken, even one whose publisher was killed before the wake: the reactor's
\* sleep has an end of its own.
InboxDrains == []<>(inbox = {})

-----------------------------------------------------------------------------
(* The inductive invariant behind the three.                               *)

\* An id is one publisher's from the moment it is read until its file is in
\* the inbox: at most one publisher holds the lock, and what is reserved,
\* in the inbox or processed has been counted.
IdsAreGiven ==
  /\ \A p \in Publishers : at[p] = "locked" <=> lock = p
  /\ \A p \in Publishers : at[p] = "locked" => id[p] = counter + 1
  /\ \A p \in Publishers : at[p] \in {"reserved", "writing"} =>
       id[p] \in Ids /\ id[p] <= counter /\ id[p] \notin inbox \cup done
  /\ \A p, q \in Publishers :
       /\ at[p] \in {"reserved", "writing"} /\ at[q] \in {"reserved", "writing"}
       /\ id[p] = id[q]
       => p = q
  /\ \A i \in inbox \cup done : i <= counter /\ body[i] \in sent

\* A publisher's message is new until it commits it.
MessagesAreNew ==
  /\ \A m \in sent : m[2] <= begun[m[1]]
  /\ \A p \in Publishers :
       at[p] \in {"locked", "reserved", "writing"} => <<p, begun[p]>> \notin sent

\* What the pass has in hand is where it thinks it is, a scan that was not
\* cut short still names all that was there, and there is room for a run.
PassIsSound ==
  /\ inbox \cap done = {} /\ batch \subseteq inbox
  /\ seen \subseteq inbox \cup done
  /\ pc = "scan" => seen \subseteq inbox
  /\ pc \in {"drain", "handle"} /\ Cardinality(inbox \cup done) <= ScanCap =>
       seen \cap inbox \subseteq batch
  /\ pc = "handle" => cur \in done
  /\ pc \in {"scan", "drain"} => left + active <= MaxActive
  /\ pc = "handle" => left + active < MaxActive

\* An envelope that waits, or is in hand, has not had this turn's run yet.
RunsAreCounted ==
  /\ \A i \in inbox : runs[i] <= IF i \in again THEN 1 ELSE 0
  /\ \A i \in Ids \ (inbox \cup done) : runs[i] = 0
  /\ pc = "handle" => runs[cur] <= IF cur \in again THEN 1 ELSE 0

IInv ==
  /\ TypeOK /\ IdsAreGiven /\ MessagesAreNew /\ PassIsSound /\ RunsAreCounted
  /\ MessagesKept /\ TakenOnce
=============================================================================
