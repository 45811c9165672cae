------------------------------ MODULE ModelCall ------------------------------
(***************************************************************************)
(* A model call (runtime/llm): the child processes that call one provider   *)
(* at a time through libcurl, the bounded retry of an attempt, and the      *)
(* provider's limit ledger they share.  A call reserves a ceiling in the    *)
(* ledger before anything is sent and corrects it when the outcome is       *)
(* known.  The ledger is a file replaced under a lock; a child may be       *)
(* killed at any point, which frees its lock and loses only its memory.     *)
(***************************************************************************)
EXTENDS Integers, FiniteSets, FiniteSetsExt

CONSTANTS
  Calls,          \* the children, one call each
  Streamers,      \* those whose provider streams (gemini_key with a progress fd)
  Limits,         \* the providers' limits: records rpm, daily, usd; -1: no cap
  Overrides,      \* the environments: records timeout (s), retries
  Ceiling,        \* what the pricing table says a request may cost
  Costs,          \* what a text response may report: a subset of 1..Ceiling
  Minutes,        \* the clock's minutes
  MinutesPerDay,
  MaxBack,        \* bound: how often the clock is set back
  MaxFaults       \* bound: how often the disk or the pricing table fails

VARIABLES
  limit,      \* the provider's configuration
  env,        \* the overrides of the environment
  now, back,
  lock,       \* the child that holds <provider>.json.lock
  file,       \* <provider>.json
  mem,        \* what a child inside the lock has read
  pc, usage,  \* where each child is, and its LlmUsage
  tries,      \* retries made
  admitted,   \* history: the windows each admitted call was counted in
  on,         \* history: the day the ledger charges a call to
  billed,     \* history: calls the provider charged for something
  faults

vars == <<limit, env, now, back, lock, file, mem, pc, usage, tries,
          admitted, on, billed, faults>>

None == "none"
Day(t) == (t - 1) \div MinutesPerDay + 1
Fresh == [day |-> 0, dayCount |-> 0, usd |-> 0, minute |-> 0, minuteCount |-> 0]
NoUsage == [outcome |-> "none", day |-> 0, sent |-> FALSE, cost |-> 0, shown |-> FALSE]

Init ==
  /\ limit \in Limits /\ env \in Overrides
  /\ now = 1 /\ back = 0
  /\ lock = None
  /\ file = Fresh
  /\ mem = [c \in Calls |-> Fresh]
  /\ pc = [c \in Calls |-> "idle"]
  /\ usage = [c \in Calls |-> NoUsage]
  /\ tries = [c \in Calls |-> 0]
  /\ admitted = [c \in Calls |-> [day |-> 0, minute |-> 0]]
  /\ on = [c \in Calls |-> 0]
  /\ billed = {}
  /\ faults = 0

-----------------------------------------------------------------------------
(* The ledger.                                                             *)

\* Windows only roll forward: a clock set back keeps counting against the
\* later window.
RolledDay(s, t) ==
  IF s.day < Day(t) THEN [s EXCEPT !.day = Day(t), !.dayCount = 0, !.usd = 0] ELSE s
Rolled(s, t) ==
  LET r == RolledDay(s, t)
  IN  IF r.minute < t THEN [r EXCEPT !.minute = t, !.minuteCount = 0] ELSE r

\* A cap of 0 blocks every call, without reading the ledger.
Disabled == limit.rpm = 0 \/ limit.daily = 0 \/ limit.usd = 0

\* No cap: the call is admitted without a ledger.
Unlimited == limit.rpm < 0 /\ limit.daily < 0 /\ limit.usd < 0

\* What a request reserves: the table's ceiling when dollars are capped.
Reserves == IF limit.usd >= 0 THEN Ceiling ELSE 0

OverBudget(s) ==
  limit.usd >= 0 /\ (Reserves > limit.usd \/ s.usd > limit.usd - Reserves)
Exhausted(s) ==
  \/ limit.daily >= 0 /\ s.dayCount >= limit.daily
  \/ limit.rpm >= 0 /\ s.minuteCount >= limit.rpm
  \/ OverBudget(s)

Counted(s) ==
  [s EXCEPT !.dayCount = @ + 1, !.minuteCount = @ + 1, !.usd = @ + Reserves]

\* adjust_reserved: the reservation is taken back from the day it was made
\* on, if that is still the ledger's day, and the actual cost added.
Adjusted(s, c, cost) ==
  LET back1 == IF s.day = usage[c].day THEN Max({s.usd - Ceiling, 0}) ELSE s.usd
  IN  [s EXCEPT !.usd = back1 + cost]
\* What is left of a process that is gone: its ledger entry.
Gone(u) == [u EXCEPT !.sent = FALSE, !.shown = FALSE]

At(c, from, to) == pc[c] = from /\ pc' = [pc EXCEPT ![c] = to]
Fault == faults < MaxFaults /\ faults' = faults + 1

\* A variant: see Locks.
LocksNot(c) ==
  /\ lock' = c
  /\ mem' = [mem EXCEPT ![c] = Rolled(file, now)]

\* open_lock_file and the read of the state, for a reservation ("reads") or
\* a settlement ("settles").
Locks(c) ==
  /\ lock = None
  /\ lock' = c
  /\ mem' = [mem EXCEPT ![c] = Rolled(file, now)]
Unlocks(c) ==
  /\ lock' = IF lock = c THEN None ELSE lock
  /\ mem' = [mem EXCEPT ![c] = Fresh]

\* llm_call_request up to the reservation: an invalid request, an unpriced
\* one or a cap of 0 ends the call before the ledger is read.
Refuse(c) ==
  /\ At(c, "idle", "records")
  /\ \/ Disabled /\ UNCHANGED faults
     \/ ~ Disabled /\ Fault
  /\ UNCHANGED <<limit, env, now, back, lock, file, mem, usage, tries,
                 admitted, on, billed>>

Admit(c) ==
  /\ Unlimited
  /\ At(c, "idle", "sends")
  /\ UNCHANGED <<limit, env, now, back, lock, file, mem, usage, tries,
                 admitted, on, billed, faults>>

BeginReserve(c) ==
  /\ ~ Disabled /\ ~ Unlimited
  /\ At(c, "idle", "reserves")
  /\ Locks(c)
  /\ UNCHANGED <<limit, env, now, back, file, usage, tries, admitted,
                 on, billed, faults>>

\* A window that is full, or a dollar cap the request would pass.
Block(c) ==
  /\ Exhausted(mem[c])
  /\ At(c, "reserves", "records")
  /\ Unlocks(c)
  /\ UNCHANGED <<limit, env, now, back, file, usage, tries,
                 admitted, on, billed, faults>>

\* The reservation is written, and remembered with its day when dollars are
\* capped.
Reserve(c) ==
  LET s == Counted(mem[c])
  IN  /\ ~ Exhausted(mem[c])
      /\ At(c, "reserves", "sends")
      /\ Unlocks(c)
      /\ file' = s
      /\ usage' = IF limit.usd >= 0
                  THEN [usage EXCEPT ![c].outcome = "kept", ![c].day = s.day]
                  ELSE usage
      /\ on' = [on EXCEPT ![c] = s.day]
      /\ admitted' = [admitted EXCEPT ![c] = [day |-> s.day, minute |-> s.minute]]
      /\ UNCHANGED <<limit, env, now, back, tries, billed, faults>>

\* The state could not be read or replaced: the call fails, nothing counted.
ReserveFails(c) ==
  /\ Fault
  /\ At(c, "reserves", "records")
  /\ Unlocks(c)
  /\ UNCHANGED <<limit, env, now, back, file, usage, tries,
                 admitted, on, billed>>

-----------------------------------------------------------------------------
(* The transport.                                                          *)

AttemptTimeoutS == 25
RetriesDefault == 3
BackoffTotalMs == 3500
AgentReserveMs == 10000
JobBudgetMs == 120000

WorstCaseMs(retries, timeout) == (retries + 1) * timeout * 1000 + BackoffTotalMs
RequestedTimeout ==
  IF env.timeout \in 5..600 THEN env.timeout ELSE AttemptTimeoutS
RequestedRetries ==
  IF env.retries \in 0..10 THEN env.retries ELSE RetriesDefault
Fits(retries, timeout) == WorstCaseMs(retries, timeout) + AgentReserveMs <= JobBudgetMs

\* The overrides are clamped: retries are shed until the worst case fits,
\* then the timeout itself.
MaxRetries ==
  Max({0} \cup {v \in 0..RequestedRetries : Fits(v, RequestedTimeout)})
AttemptTimeout ==
  IF Fits(0, RequestedTimeout)
  THEN RequestedTimeout
  ELSE (JobBudgetMs - AgentReserveMs - BackoffTotalMs) \div 1000

\* How an attempt ends: before a byte left (refused, tls), with the outcome
\* unknown (timeout, abort), with a status (busy: 429 or 5xx; bad), or well.
Results == {"refused", "tls", "timeout", "abort", "busy", "bad", "ok"}
NeverDispatched(r) == r \in {"refused", "tls"}
Retryable(r) == r \in {"refused", "timeout", "busy"}

\* A stream may report usage, and show text, before it breaks; without one
\* only a good response reports.
Reports(c, r) ==
  IF r = "ok" \/ (c \in Streamers /\ r \in {"timeout", "abort"})
  THEN Costs \cup {0} ELSE {0}
Shows(c, r) ==
  IF c \in Streamers /\ r \in {"timeout", "abort", "ok"} THEN BOOLEAN ELSE {FALSE}

\* A streaming attempt starts from no usage; dispatch is never forgotten.
Dispatched(u, r) == u.sent \/ ~ NeverDispatched(r)

\* Text already shown forbids another attempt.
Again(c, r, shown) == tries[c] < MaxRetries /\ Retryable(r) /\ ~ shown
\* llm_http_call, one pass of its loop.  A request that cannot be built,
\* saved or authorised is not sent.
Attempt(c) ==
  \E r \in Results : \E cost \in Reports(c, r), shown \in Shows(c, r) :
    \E bills \in IF NeverDispatched(r) THEN {FALSE}
                 ELSE IF cost > 0 THEN {TRUE} ELSE BOOLEAN :
      /\ IF Again(c, r, shown)
         THEN At(c, "sends", "sends") /\ tries' = [tries EXCEPT ![c] = @ + 1]
         ELSE At(c, "sends", "outcome") /\ UNCHANGED tries
      /\ usage' = [usage EXCEPT ![c].sent = Dispatched(usage[c], r),
                                ![c].cost = cost,
                                ![c].shown = @ \/ shown]
      /\ billed' = IF bills THEN billed \cup {c} ELSE billed
      /\ UNCHANGED <<limit, env, now, back, lock, file, mem, admitted,
                     on, faults>>

NotSent(c) ==
  /\ Fault
  /\ tries[c] = 0 /\ ~ usage[c].sent
  /\ At(c, "sends", "outcome")
  /\ UNCHANGED <<limit, env, now, back, lock, file, mem, usage, tries,
                 admitted, on, billed>>

-----------------------------------------------------------------------------
(* Settlement and the record.                                              *)

\* A dollar reservation is corrected when usage was reported, or when the
\* request never reached the provider; otherwise it stands.
Settles(u) == u.outcome = "kept" /\ (u.cost > 0 \/ ~ u.sent)

KeepReservation(c) ==
  /\ ~ Settles(usage[c])
  /\ At(c, "outcome", "records")
  /\ UNCHANGED <<limit, env, now, back, lock, file, mem, usage, tries,
                 admitted, on, billed, faults>>

BeginSettle(c) ==
  /\ Settles(usage[c])
  /\ At(c, "outcome", "settles")
  /\ Locks(c)
  /\ UNCHANGED <<limit, env, now, back, file, usage, tries, admitted,
                 on, billed, faults>>

Settle(c) ==
  LET s == Adjusted(mem[c], c, usage[c].cost)
  IN  /\ At(c, "settles", "records")
      /\ Unlocks(c)
      /\ file' = s
      /\ usage' = [usage EXCEPT ![c].outcome =
                     IF usage[c].cost > 0 THEN "settled" ELSE "released"]
      /\ on' = [on EXCEPT ![c] = s.day]
      /\ UNCHANGED <<limit, env, now, back, tries, admitted,
                     billed, faults>>

SettleFails(c) ==
  /\ Fault
  /\ At(c, "settles", "records")
  /\ Unlocks(c)
  /\ UNCHANGED <<limit, env, now, back, file, usage, tries,
                 admitted, on, billed>>

\* The artifacts, then one line of llm_usage.jsonl, whatever the outcome.
Record(c) ==
  /\ At(c, "records", "done")
  /\ usage' = [usage EXCEPT ![c] = Gone(@)]
  /\ tries' = [tries EXCEPT ![c] = 0]
  /\ UNCHANGED <<limit, env, now, back, lock, file, mem, admitted, on,
                 billed, faults>>

\* The gateway kills the agent job, or it dies: the kernel frees the lock.
Kill(c) ==
  /\ pc[c] \notin {"idle", "done", "dead"}
  /\ pc' = [pc EXCEPT ![c] = "dead"]
  /\ lock' = IF lock = c THEN None ELSE lock
  /\ mem' = [mem EXCEPT ![c] = Fresh]
  /\ usage' = [usage EXCEPT ![c] = Gone(@)]
  /\ tries' = [tries EXCEPT ![c] = 0]
  /\ UNCHANGED <<limit, env, now, back, file, admitted, on, billed, faults>>

Elapse ==
  /\ \/ now < Minutes /\ now' = now + 1 /\ UNCHANGED back
     \/ now > 1 /\ back < MaxBack /\ now' = now - 1 /\ back' = back + 1
  /\ UNCHANGED <<limit, env, lock, file, mem, pc, usage, tries,
                 admitted, on, billed, faults>>

Call(c) ==
  \/ Refuse(c) \/ Admit(c) \/ BeginReserve(c) \/ Block(c) \/ Reserve(c)
  \/ ReserveFails(c) \/ Attempt(c) \/ NotSent(c) \/ KeepReservation(c)
  \/ BeginSettle(c) \/ Settle(c) \/ SettleFails(c) \/ Record(c)

Next == (\E c \in Calls : Call(c) \/ Kill(c)) \/ Elapse

Spec == Init /\ [][Next]_vars /\ \A c \in Calls : WF_vars(Call(c))

-----------------------------------------------------------------------------
TypeOK ==
  /\ limit \in Limits /\ env \in Overrides
  /\ now \in 1..Minutes /\ back \in 0..MaxBack /\ faults \in 0..MaxFaults
  /\ lock \in Calls \cup {None}
  /\ \A s \in {file} \cup {mem[c] : c \in Calls} :
       s.day \in 0..Day(Minutes) /\ s.minute \in 0..Minutes
       /\ s.dayCount \in Nat /\ s.minuteCount \in Nat /\ s.usd \in Nat
  /\ pc \in [Calls -> {"idle", "reserves", "sends", "outcome", "settles",
                       "records", "done", "dead"}]
  /\ \A c \in Calls :
       /\ usage[c].outcome \in {"none", "kept", "settled", "released"}
       /\ usage[c].cost \in Costs \cup {0}
       /\ tries[c] \in 0..10
  /\ billed \subseteq Calls

\* What the ledger must hold for a call: its ceiling until it is settled,
\* what it reported after, nothing once it is released.
Charge(c) ==
  CASE usage[c].outcome = "kept" -> Ceiling
    [] usage[c].outcome = "settled" -> usage[c].cost
    [] OTHER -> 0

\* The ledger of a day is exactly what the calls charged to that day cost or
\* may still cost: concurrent children, kills, failed writes and a day that
\* turns between reservation and settlement lose and invent nothing.
LedgerIsExact ==
  file.usd = MapThenSumSet(Charge, {c \in Calls : on[c] = file.day /\ on[c] > 0})

\* A clock set back grants no second allowance, and no interleaving of
\* children admits one call too many to a day or to a minute.
WithinLimits ==
  \A c \in Calls :
    LET a == admitted[c]
    IN  a.day > 0 =>
          /\ limit.daily >= 0 =>
               Cardinality({d \in Calls : admitted[d].day = a.day}) <= limit.daily
          /\ limit.rpm >= 0 =>
               Cardinality({d \in Calls : admitted[d].minute = a.minute}) <= limit.rpm

\* The dollar cap is passed only by what calls of an earlier day turned out
\* to cost after midnight.
BudgetHeld ==
  limit.usd >= 0 =>
    file.usd <= limit.usd
      + MapThenSumSet(Charge, {c \in Calls : on[c] = file.day /\ usage[c].day < on[c]})

\* A reservation is returned only for a call the provider never charged for,
\* whatever its earlier attempts were.
ReleasedWasFree == \A c \in Calls : usage[c].outcome = "released" => c \notin billed

\* Text a user has been shown is never followed by another attempt's.
ShownOnce == \A c \in Calls : pc[c] = "sends" => ~ usage[c].shown

\* The attempts of a call and the pauses between them end, with room for the
\* artifacts, before the gateway kills the agent job.
RetriesFitJob ==
  \A c \in Calls :
    (tries[c] + 1) * AttemptTimeout * 1000 + 500 * (2 ^ tries[c] - 1) + AgentReserveMs
      <= JobBudgetMs
=============================================================================
