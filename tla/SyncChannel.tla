---------------------------- MODULE SyncChannel -----------------------------
(***************************************************************************)
(* The synchronous clients of channel/channel.c.  A client publishes its   *)
(* message on the bus and reads deliveries.jsonl from the length it had    *)
(* before, until a delivery names its envelope.  With a live gateway it    *)
(* only polls the log.  With none it takes the owner lock and runs the     *)
(* scheduler itself, tick by tick, until its run has retired.              *)
(*                                                                         *)
(* The owner's scheduler is modelled by what a client sees of it: a tick   *)
(* takes the inbox into runs, lets some of them reply, publish a follow-up *)
(* that carries the same origin, and end, and then retires the ended ones  *)
(* in the order of the run table, remembering the last.                    *)
(***************************************************************************)
EXTENDS Integers, Sequences, FiniteSets, SequencesExt

CONSTANTS Clients,      \* synchronous clients, one message each
          Backlog,      \* a message of someone else's, in the inbox
          IntakePerTick, \* envelopes a tick takes in
          MaxOldLines,  \* bound: lines of the log before the clients come
          MaxFollow,    \* bound: follow-up envelopes
          MaxFlips      \* bound: gateway starts and stops

VARIABLES owner,      \* "gateway", the client that hosts the runtime, or "none"
          phase,      \* the owner's tick: "intake", "steps" or "polls"
          inbox,      \* envelopes waiting, by the origin they carry
          runs,       \* the run table: [o: origin, id, st]
          nextId,     \* the last run number
          log,        \* deliveries.jsonl: [o: origin, bad: it is a failure]
          last,       \* last_retired_*: the run
          pc,         \* each client: where it is
          cursor,     \* each client: its place in the log
          have,       \* clients that have found a delivery
          settled,    \* each client: settled_without_delivery
          result,     \* each client: what it returned, 9 when it has not yet
          ended,      \* the runs that have retired: origin and state
          told,       \* origins some delivery was appended for
          follow, flips, rotated

vars == <<owner, phase, inbox, runs, nextId, log, last, pc, cursor, have, settled,
          result, ended, told, follow, flips, rotated>>

world == <<inbox, runs, nextId, log, last, ended, told, follow, rotated>>

NoRun == [o |-> "none", id |-> 0, st |-> "runs"]

Init == /\ owner \in {"gateway", "none"} /\ phase = "intake"
        /\ inbox = SetToSeq(Backlog) /\ runs = <<>> /\ nextId = 0
        /\ log \in {[i \in 1..n |-> [o |-> "old", bad |-> FALSE]] : n \in 0..MaxOldLines}
        /\ last = NoRun
        /\ pc = [c \in Clients |-> "looks"]
        /\ cursor = [c \in Clients |-> 0]
        /\ have = {} /\ settled = [c \in Clients |-> 0]
        /\ result = [c \in Clients |-> 9]
        /\ ended = {} /\ told = {} /\ follow = 0 /\ flips = 0 /\ rotated = FALSE

Goes(c, to) == pc' = [pc EXCEPT ![c] = to]

-----------------------------------------------------------------------------
(***************************************************************************)
(* channel_synchronous: a live gateway is looked for once.  Without one    *)
(* the client waits for the owner lock, however long a gateway that has    *)
(* started since may hold it.  A new owner's table is empty but for what   *)
(* recovery finds.  Then the cursor, then the envelope.                    *)
(***************************************************************************)
Looks(c) == /\ pc[c] = "looks"
            /\ Goes(c, IF owner = "gateway" THEN "ready" ELSE "locks")
            /\ UNCHANGED <<owner, phase, cursor, have, settled, result, flips>>
            /\ UNCHANGED world

Locks(c) == /\ pc[c] = "locks" /\ owner = "none"
            /\ owner' = c /\ phase' = "intake" /\ last' = NoRun /\ Goes(c, "ready")
            /\ UNCHANGED <<inbox, runs, nextId, log, ended, told, follow, rotated, cursor,
                           have, settled, result, flips>>

Marks(c) == /\ pc[c] = "ready"
            /\ cursor' = [cursor EXCEPT ![c] = Len(log)] /\ Goes(c, "publishes")
            /\ UNCHANGED <<owner, phase, have, settled, result, flips>>
            /\ UNCHANGED world

Publishes(c) == /\ pc[c] = "publishes"
                /\ inbox' = Append(inbox, c)
                /\ Goes(c, IF owner = c THEN "hosts" ELSE "waits")
                /\ UNCHANGED <<owner, phase, runs, nextId, log, last, cursor, have, settled,
                               result, ended, told, follow, flips, rotated>>

-----------------------------------------------------------------------------
(***************************************************************************)
(* The owner's tick.  A hosting client ticks only once it has published.   *)
(***************************************************************************)
Ticks(ph) == phase = ph /\ (owner = "gateway" \/ (owner \in Clients /\ pc[owner] = "hosts"))

Ticking == Ticks("steps")

Intake == /\ Ticks("intake")
          /\ LET n == IF Len(inbox) < IntakePerTick THEN Len(inbox) ELSE IntakePerTick
             IN /\ runs' = runs \o [i \in 1..n |-> [o |-> inbox[i], id |-> nextId + i,
                                                    st |-> "runs"]]
                /\ nextId' = nextId + n /\ inbox' = SubSeq(inbox, n + 1, Len(inbox))
          /\ phase' = "steps"
          /\ UNCHANGED <<owner, log, last, pc, cursor, have, settled, result, ended,
                         told, follow, flips, rotated>>

Replies(i) == /\ Ticking /\ runs[i].st = "runs" /\ runs[i].o \notin told
              /\ log' = Append(log, [o |-> runs[i].o, bad |-> FALSE])
              /\ told' = told \cup {runs[i].o}
              /\ UNCHANGED <<owner, phase, inbox, runs, nextId, last, pc, cursor, have,
                             settled, result, ended, follow, flips, rotated>>

Follows(i) == /\ Ticking /\ runs[i].st = "runs" /\ follow < MaxFollow
              /\ inbox' = Append(inbox, runs[i].o) /\ follow' = follow + 1
              /\ UNCHANGED <<owner, phase, runs, nextId, log, last, pc, cursor, have,
                             settled, result, ended, told, flips, rotated>>

Ends(i) == /\ Ticking /\ runs[i].st = "runs"
           /\ \E st \in {"done", "failed"} : runs' = [runs EXCEPT ![i].st = st]
           /\ UNCHANGED <<owner, phase, inbox, nextId, log, last, pc, cursor, have,
                          settled, result, ended, told, follow, flips, rotated>>

AfterTick == IF owner = "gateway" THEN "intake" ELSE "polls"

\* retire_terminal_runs: a failed run's delivery is written here.
Retires ==
    /\ Ticking
    /\ LET gone == SelectSeq(runs, LAMBDA r : r.st # "runs")
           bad == SelectSeq(gone, LAMBDA r : r.st = "failed")
       IN /\ gone # <<>>
          /\ log' = log \o [i \in 1..Len(bad) |-> [o |-> bad[i].o, bad |-> TRUE]]
          /\ told' = told \cup {bad[i].o : i \in 1..Len(bad)}
          /\ runs' = SelectSeq(runs, LAMBDA r : r.st = "runs")
          /\ last' = Last(gone)
          /\ ended' = ended \cup {<<gone[i].o, gone[i].st>> : i \in 1..Len(gone)}
    /\ phase' = AfterTick
    /\ UNCHANGED <<owner, inbox, nextId, pc, cursor, have, settled, result, follow, flips,
                   rotated>>

\* A tick in which nothing ends is over too.
Naps == /\ Ticking
        /\ \A i \in DOMAIN runs : runs[i].st = "runs"
        /\ phase' = AfterTick
        /\ UNCHANGED <<owner, pc, cursor, have, settled, result, flips>>
        /\ UNCHANGED world

-----------------------------------------------------------------------------
(***************************************************************************)
(* find_delivery_since: the first delivery at or after the cursor that     *)
(* names the origin.  A cursor beyond the end of a log that was replaced   *)
(* finds nothing, and stays.                                               *)
(***************************************************************************)

Matches(c) == {i \in cursor[c] + 1 .. Len(log) : log[i].o = c}

Found(c) == Matches(c) # {}

First(c) == CHOOSE i \in Matches(c) : \A j \in Matches(c) : i <= j

MovedOn(c) == cursor' = [cursor EXCEPT ![c] =
    IF Found(c) THEN First(c) ELSE IF @ > Len(log) THEN @ ELSE Len(log)]

Returns(c, rc) == result' = [result EXCEPT ![c] = rc] /\ Goes(c, "out")

\* wait_for_delivery: the first delivery decides, reply or failure.
Waits(c) == /\ pc[c] = "waits" /\ (Found(c) \/ cursor[c] < Len(log))
            /\ MovedOn(c)
            /\ IF Found(c) THEN Returns(c, IF log[First(c)].bad THEN 2 ELSE 0)
                           ELSE UNCHANGED <<result, pc>>
            /\ UNCHANGED <<owner, phase, have, settled, flips>>
            /\ UNCHANGED world

(***************************************************************************)
(* embedded_owner_wait_for_delivery after a tick: the scheduler's last     *)
(* retired run decides.  A done run with no delivery may have left a       *)
(* follow-up behind, so an empty answer is accepted only at the second     *)
(* look, with no run of the origin active.  Returning destroys the         *)
(* scheduler and frees the lock; the runs it leaves are recovered by the   *)
(* next owner.                                                             *)
(***************************************************************************)
Correlated(c) == \E i \in DOMAIN runs : runs[i].o = c

DecidesByDelivery(c) == Found(c) \/ c \in have

Decides(c) == last.o = c /\ (last.st = "failed" \/ Found(c) \/ c \in have)

EmptyAnswer(c) == last.o = c /\ ~ Correlated(c) /\ settled[c] = last.id

Polls(c) ==
    /\ phase = "polls" /\ owner = c /\ pc[c] = "hosts"
    /\ MovedOn(c)
    /\ have' = IF Found(c) THEN have \cup {c} ELSE have
    /\ phase' = "intake"
    /\ IF Decides(c) THEN /\ Returns(c, IF last.st = "failed" THEN 2 ELSE 0)
                          /\ owner' = "none" /\ settled' = settled
       ELSE IF EmptyAnswer(c) THEN Returns(c, 0) /\ owner' = "none" /\ settled' = settled
       ELSE /\ settled' = IF last.o = c THEN [settled EXCEPT ![c] = last.id] ELSE settled
            /\ UNCHANGED <<result, pc, owner>>
    /\ UNCHANGED <<inbox, runs, nextId, log, last, ended, told, follow, flips, rotated>>

\* 180 seconds.  A host shuts its scheduler down: the runs are cancelled.
TimesOut(c) ==
    /\ \/ pc[c] = "waits" /\ ~ Found(c) /\ UNCHANGED <<owner, runs, ended, told, log>>
       \/ /\ pc[c] = "hosts" /\ phase = "intake" /\ owner' = "none"
          /\ ended' = ended \cup {<<runs[i].o, "failed">> : i \in DOMAIN runs}
          /\ runs' = <<>> /\ UNCHANGED <<log, told>>
    /\ Returns(c, 1)
    /\ UNCHANGED <<phase, inbox, nextId, last, cursor, have, settled, follow, flips, rotated>>

-----------------------------------------------------------------------------
\* A gateway starts or stops; it shuts its runs down when it stops.
GatewayStarts == /\ owner = "none" /\ flips < MaxFlips /\ flips' = flips + 1
                 /\ owner' = "gateway" /\ phase' = "intake" /\ last' = NoRun
                 /\ UNCHANGED <<inbox, runs, nextId, log, pc, cursor, have, settled, result,
                                ended, told, follow, rotated>>

GatewayStops == /\ owner = "gateway" /\ flips < MaxFlips /\ flips' = flips + 1
                /\ owner' = "none"
                /\ ended' = ended \cup {<<runs[i].o, "failed">> : i \in DOMAIN runs}
                /\ runs' = <<>>
                /\ UNCHANGED <<phase, inbox, nextId, log, last, pc, cursor, have, settled,
                               result, told, follow, rotated>>

\* The janitor of a gateway rotates the log.
Rotates == /\ owner = "gateway" /\ ~ rotated /\ log # <<>>
           /\ log' = <<>> /\ rotated' = TRUE
           /\ UNCHANGED <<owner, phase, inbox, runs, nextId, last, pc, cursor, have, settled,
                          result, ended, told, follow, flips>>

Next == \/ \E c \in Clients : Looks(c) \/ Locks(c) \/ Marks(c) \/ Publishes(c)
                              \/ Waits(c) \/ Polls(c) \/ TimesOut(c)
        \/ \E i \in DOMAIN runs : Replies(i) \/ Follows(i) \/ Ends(i)
        \/ Intake \/ Retires \/ Naps \/ GatewayStarts \/ GatewayStops \/ Rotates

Spec == Init /\ [][Next]_vars

-----------------------------------------------------------------------------
\* The type of the state.
TypeOK == /\ owner \in Clients \cup {"gateway", "none"} /\ phase \in {"intake", "steps", "polls"}
          /\ pc \in [Clients -> {"looks", "locks", "ready", "publishes", "waits", "hosts", "out"}]
          /\ cursor \in [Clients -> Nat] /\ settled \in [Clients -> Nat]
          /\ have \subseteq Clients /\ result \in [Clients -> {0, 1, 2, 9}]
          /\ follow \in 0..MaxFollow /\ flips \in 0..MaxFlips

(***************************************************************************)
(* A client that is told done or failed is told of a run of its own: a     *)
(* reply or a failure was delivered for its envelope, or its run retired   *)
(* done with nothing to say.                                               *)
(***************************************************************************)
AnswerIsMine == \A c \in Clients :
    /\ result[c] = 0 => c \in told \/ <<c, "done">> \in ended
    /\ result[c] = 2 => <<c, "failed">> \in ended

(***************************************************************************)
(* A hosting client returns with an empty answer only when every envelope  *)
(* its run published has been taken in and has run.                        *)
(***************************************************************************)
EmptyIsFinal == \A c \in Clients :
    result[c] = 0 /\ pc[c] = "out" /\ c \notin told => ~ \E i \in DOMAIN inbox : inbox[i] = c

(***************************************************************************)
(* "0 -> run_done": a hosting client that is told done has no run of its   *)
(* own that failed last.                                                   *)
(***************************************************************************)
HostSaysHowItEnded == [][\A c \in Clients :
    phase = "polls" /\ owner = c /\ result[c] = 9 /\ result'[c] = 0 => last.o = c /\ last.st = "done"]_vars

(***************************************************************************)
(* "1 -> setup error or no terminal delivery within timeout": a client     *)
(* that times out had no delivery for its envelope.                        *)
(***************************************************************************)
TimeoutMeansNone == \A c \in Clients : result[c] = 1 => c \notin have
=============================================================================
