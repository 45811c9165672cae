------------------------- MODULE PublicationOutbox -------------------------
(***************************************************************************)
(* The durable publication outbox: how one committed source event becomes  *)
(* exactly one bus wake and exactly one result run.                        *)
(*                                                                         *)
(* A producing run reserves a bus identity and writes an outbox record     *)
(* BEFORE it appends the source event; a reconcile pass publishes the      *)
(* reserved identity only when the source event is exactly on disk; intake *)
(* turns the envelope into a run and binds the record to it; the record is *)
(* unlinked when that run is durably terminal.  (publication_outbox.c,     *)
(* ports.c, action_events.c, task_artifacts.c, recovery.c, scheduler.c)    *)
(*                                                                         *)
(* The gateway is one thread: `pc' says between which two file-system      *)
(* effects it stands.  A process kill may come at every pc.  Event ids are *)
(* counted from the producing run's action_request.                        *)
(***************************************************************************)
EXTENDS Integers, FiniteSets

CONSTANTS Sources,      \* producing runs, each with one wake-bearing action
          OutsideWorld, \* the sources whose action declares outside_world
          MaxEvents,    \* bound: event ids per source run
          MaxWakes,     \* bound: bus identities reserved
          MaxRuns,      \* bound: result runs created
          ScanCap,      \* PUBLICATION_SCAN_CAP
          MaxCrashes,   \* bound: process kills
          MaxShutdowns, \* bound: graceful stops
          MaxFaults,    \* bound: failing file-system calls
          FaultPoints   \* which calls may fail

ASSUME OutboxAssumption ==
  /\ OutsideWorld \subseteq Sources
  /\ MaxEvents \in Nat \ {0}
  /\ MaxWakes \in Nat
  /\ MaxRuns \in Nat
  /\ ScanCap \in Nat
  /\ MaxCrashes \in Nat
  /\ MaxShutdowns \in Nat
  /\ MaxFaults \in Nat

Events == 1..MaxEvents
Wakes == 1..MaxWakes
Runs == 1..MaxRuns
NoRun == 0

VARIABLES
  \* on disk
  log,        \* log[s][e]: the committed event with id e of source run s
  srcOver,    \* sources whose runstate.json is terminal
  spec,       \* spec[w]: source identity written in record w
  outbox,     \* the records whose file exists
  bound,      \* claimed_run_id of each record
  counter,    \* the bus identity counter
  inbox, processed,
  claim,      \* claim[r]: created_from of run r
  status,     \* status in runstate.json of run r
  first,      \* first line of run r's event log
  ended,      \* runs with a terminal event in their log
  \* in memory
  step,       \* the pending action of each source
  nextEvent,  \* ctx.next_event of each source
  mem,        \* the scheduler's state of each result run
  retry,      \* g_retry_pass
  \* control
  pc, cur, run, todo, bad, ret,
  \* bounds
  crashes, shutdowns, faults

disk == <<log, srcOver, spec, outbox, bound, counter, inbox, processed,
          claim, status, first, ended>>
memory == <<step, nextEvent, mem, retry>>
control == <<pc, cur, run, todo, bad, ret>>
stops == <<crashes, shutdowns>>
bounds == <<crashes, shutdowns, faults>>
vars == <<disk, memory, control, bounds>>

Kinds == {"terminal", "blocked"}
SpecType == [src: Sources, ev: Events, what: Kinds]
NoSpec == [src |-> NoRun, ev |-> 0, what |-> "none"]

Init ==
  /\ log = [s \in Sources |-> [e \in Events |-> "none"]]
  /\ srcOver = {}
  /\ spec = [w \in Wakes |-> NoSpec]
  /\ outbox = {}
  /\ bound = [w \in Wakes |-> NoRun]
  /\ counter = 0
  /\ inbox = {} /\ processed = {}
  /\ claim = [r \in Runs |-> 0]
  /\ status = [r \in Runs |-> "none"]
  /\ first = [r \in Runs |-> "none"]
  /\ ended = {}
  /\ step = [s \in Sources |-> "queued"]
  /\ nextEvent = [s \in Sources |-> 1]
  /\ mem = [r \in Runs |-> "none"]
  /\ retry = FALSE
  /\ pc = "up" /\ cur = 0 /\ run = NoRun /\ todo = {} /\ bad = FALSE
  /\ ret = "up"
  /\ crashes = 0 /\ shutdowns = 0 /\ faults = 0

-----------------------------------------------------------------------------
(* Reading the disk *)

\* A failing call: `point' names it.
Fault(point) ==
  /\ point \in FaultPoints
  /\ faults < MaxFaults
  /\ faults' = faults + 1

\* Directories are walked in name order.
Oldest(x, S) == x \in S /\ \A y \in S : x <= y

\* (a variant with a fault: publishes on the record alone)
SourceStateUnread(w) ==
  LET at == log[spec[w].src][spec[w].ev]
  IN  IF at \in {"none", spec[w].what} THEN "exact" ELSE "conflict"

\* source_state: what the source log says of record w
SourceState(w) ==
  LET at == log[spec[w].src][spec[w].ev]
  IN  IF at = "none" THEN "absent"
      ELSE IF at = spec[w].what THEN "exact" ELSE "conflict"

OnDisk(r) == status[r] \in {"waiting", "active", "terminal"}

\* (a variant with a fault: a run without its first event is no claim)
ClaimStateIgnoringPending(r) ==
  CASE first[r] = "none"  -> "none"
    [] first[r] = "other" -> "conflict"
    [] OTHER -> IF status[r] = "terminal" THEN "terminal" ELSE "active"

\* (a variant with a fault: a committed first event counts as terminal)
ClaimStateTooEarly(r) ==
  CASE first[r] = "none"  -> "pending"
    [] first[r] = "other" -> "conflict"
    [] OTHER -> "terminal"

\* claim_state_of_run
ClaimStateOfRun(r) ==
  CASE first[r] = "none"  -> "pending"
    [] first[r] = "other" -> "conflict"
    [] OTHER -> IF status[r] = "terminal" THEN "terminal" ELSE "active"

Claimants(w) == {r \in Runs : OnDisk(r) /\ claim[r] = w}

\* run_claim_state: a bound record asks its run, an unbound one scans all runs
ClaimState(w) ==
  IF bound[w] # NoRun
  THEN IF OnDisk(bound[w]) THEN ClaimStateOfRun(bound[w]) ELSE "terminal"
  ELSE IF Claimants(w) = {} THEN "none"
       ELSE IF \E r1, r2 \in Claimants(w) : r1 # r2 THEN "conflict"
       ELSE ClaimStateOfRun(CHOOSE r \in Claimants(w) : TRUE)

\* (a variant with a fault: prepare never looks for an earlier record)
PreparedForNothing(s, e) == {}

\* prepared_source_lookup: the records already reserved for this event id
PreparedFor(s, e) == {w \in outbox : spec[w].src = s /\ spec[w].ev = e}

HasEvent(s, kinds) == \E e \in Events : log[s][e] \in kinds
IsLastEvent(s, n) ==
  /\ n > 0 => log[s][n] # "none"
  /\ \A e \in Events : e > n => log[s][e] = "none"

-----------------------------------------------------------------------------
(* The producing run: prepare, append, reconcile *)

\* Room in the bounded event log of s for the events one action may write
LogRoom(s) == nextEvent[s] + 2 <= MaxEvents

\* rt_append_event: the id is consumed before the write, whatever comes of it
Append(s, what, written) ==
  /\ nextEvent' = [nextEvent EXCEPT ![s] = @ + 1]
  /\ log' = IF written THEN [log EXCEPT ![s][nextEvent[s]] = what] ELSE log

\* A synchronous append succeeds, fails with nothing written, or reports an
\* fsync error after the whole line was written.
AppendOk(s, what) == Append(s, what, TRUE) /\ UNCHANGED faults
AppendFailed(s, what) ==
  /\ Fault("append")
  /\ \E written \in BOOLEAN : Append(s, what, written)

\* emit_started, then the action's job runs
LaunchAction(s) ==
  /\ pc = "up" /\ s \notin srcOver /\ step[s] = "queued" /\ LogRoom(s)
  /\ \/ /\ AppendOk(s, "started")
        /\ step' = [step EXCEPT ![s] = "running"]
        /\ UNCHANGED <<pc, cur>>
     \/ /\ AppendFailed(s, "started")
        /\ pc' = "failsource" /\ cur' = s
        /\ UNCHANGED step
  /\ UNCHANGED <<srcOver, spec, outbox, bound, counter, inbox, processed,
                 claim, status, first, ended, mem, retry, run, todo, bad, ret,
                 stops>>

\* rt_publication_outbox_prepare: reuse an equal record, refuse a different
\* one for the same event id, else reserve an identity and write the record.
PrepareReuse(s, what) ==
  /\ \E w \in PreparedFor(s, nextEvent[s]) : spec[w].what = what
  /\ \A w \in PreparedFor(s, nextEvent[s]) : spec[w].what = what
  /\ UNCHANGED <<spec, outbox, bound, counter, faults>>

PrepareNew(s, what) ==
  /\ PreparedFor(s, nextEvent[s]) = {}
  /\ Cardinality(outbox) < ScanCap
  /\ counter < MaxWakes
  /\ counter' = counter + 1
  /\ spec' = [spec EXCEPT ![counter + 1] =
                [src |-> s, ev |-> nextEvent[s], what |-> what]]
  /\ outbox' = outbox \cup {counter + 1}
  /\ UNCHANGED <<bound, faults>>

\* EEXIST, ENOSPC, or a failing write after the identity was reserved
PrepareRefused(s, what) ==
  \/ /\ \E w \in PreparedFor(s, nextEvent[s]) : spec[w].what # what
     /\ UNCHANGED <<counter, faults>>
  \/ /\ PreparedFor(s, nextEvent[s]) = {}
     /\ Cardinality(outbox) >= ScanCap
     /\ UNCHANGED <<counter, faults>>
  \/ /\ PreparedFor(s, nextEvent[s]) = {}
     /\ Cardinality(outbox) < ScanCap
     /\ counter < MaxWakes
     /\ Fault("prepare")
     /\ counter' = counter + 1

Prepare(s, what, ok, refused) ==
  /\ nextEvent[s] \in Events
  /\ cur' = s
  /\ \/ PrepareReuse(s, what) /\ pc' = ok
     \/ PrepareNew(s, what) /\ pc' = ok
     \/ /\ PrepareRefused(s, what) /\ pc' = refused
        /\ UNCHANGED <<spec, outbox, bound>>
  /\ UNCHANGED <<log, srcOver, inbox, processed, claim, status, first, ended,
                 memory, run, todo, bad, ret, stops>>

\* emit_terminal of a finished job: prepare comes first; a refusal fails the run
CompleteAction(s) ==
  /\ pc = "up" /\ s \notin srcOver /\ step[s] = "running"
  /\ Prepare(s, "terminal", "append", "failsource")

StartPass(returnTo) ==
  /\ pc' = "pass" /\ todo' = outbox /\ bad' = FALSE /\ ret' = returnTo

\* the source append; on success the producer reconciles at once
AppendSource ==
  /\ pc = "append"
  /\ \/ /\ AppendOk(cur, "terminal")
        /\ step' = [step EXCEPT ![cur] = "closed"]
        /\ StartPass("up")
     \/ /\ AppendFailed(cur, "terminal")
        /\ pc' = "failsource"
        /\ UNCHANGED <<step, todo, bad, ret>>
  /\ UNCHANGED <<srcOver, spec, outbox, bound, counter, inbox, processed,
                 claim, status, first, ended, mem, retry, cur, run, stops>>

\* rt_run_fail / rt_run_finish of the producing run: its terminal event, then
\* its runstate; recovery treats the event alone as terminal.
EndSource(s) ==
  /\ nextEvent[s] \in Events
  /\ Append(s, "end", TRUE)
  /\ srcOver' = srcOver \cup {s}
  /\ step' = [step EXCEPT ![s] = "closed"]
  /\ UNCHANGED <<spec, outbox, bound, counter, inbox, processed, claim, status,
                 first, ended, mem, retry, cur, run, todo, bad, ret, bounds>>

FailSource == pc = "failsource" /\ pc' = "up" /\ EndSource(cur)

FinishSource(s) ==
  /\ pc = "up" /\ s \notin srcOver /\ step[s] = "closed"
  /\ EndSource(s) /\ UNCHANGED pc

-----------------------------------------------------------------------------
(* reconcile_pass: one record at a time, in identity order *)

\* Only an unbound record has its source verified again.
SourceVerdict(w) == IF bound[w] = NoRun THEN SourceState(w) ELSE "exact"

PassKeeps == UNCHANGED <<log, srcOver, spec, outbox, bound, counter, inbox,
                         processed, claim, status, first, ended, faults>>

PassFrame(w) ==
  /\ todo' = todo \ {w}
  /\ UNCHANGED <<memory, pc, cur, run, ret, stops>>

\* An inexact source or claim fails the pass and leaves the record.
RecordConflict(w) ==
  /\ \/ SourceVerdict(w) = "conflict"
     \/ SourceVerdict(w) = "exact" /\ ClaimState(w) = "conflict"
  /\ bad' = TRUE /\ PassKeeps

\* A source not committed yet, or a claim not terminal yet: keep the record.
RecordKept(w) ==
  /\ \/ SourceVerdict(w) = "absent"
     \/ SourceVerdict(w) = "exact" /\ ClaimState(w) \in {"pending", "active"}
  /\ UNCHANGED bad /\ PassKeeps

\* The claiming run is durably terminal: the record is garbage.
RecordUnlinked(w) ==
  /\ SourceVerdict(w) = "exact" /\ ClaimState(w) = "terminal"
  /\ \/ outbox' = outbox \ {w} /\ UNCHANGED <<bad, faults>>
     \/ Fault("unlink") /\ bad' = TRUE /\ UNCHANGED outbox
  /\ UNCHANGED <<log, srcOver, spec, bound, counter, inbox, processed, claim,
                 status, first, ended>>

\* (a variant with a fault: a wake in processed/ is taken to be published)
RecordPublishedOnce(w) ==
  /\ SourceVerdict(w) = "exact" /\ ClaimState(w) = "none"
  /\ inbox' = IF w \in processed THEN inbox ELSE inbox \cup {w}
  /\ UNCHANGED <<log, srcOver, spec, outbox, bound, counter, processed, claim,
                 status, first, ended, bad, faults>>

\* No run claims the wake: write it to the inbox, or take it back from
\* processed/.  In the inbox already, it is left there.
RecordPublished(w) ==
  /\ SourceVerdict(w) = "exact" /\ ClaimState(w) = "none"
  /\ \/ /\ inbox' = inbox \cup {w}
        /\ processed' = processed \ {w}
        /\ UNCHANGED <<bad, faults>>
     \/ /\ Fault("publish") /\ bad' = TRUE
        /\ \/ UNCHANGED <<inbox, processed>>
           \/ inbox' = inbox \cup {w} /\ processed' = processed \ {w}
  /\ UNCHANGED <<log, srcOver, spec, outbox, bound, counter, claim, status,
                 first, ended>>

ReconcileRecord ==
  /\ pc = "pass"
  /\ \E w \in todo :
       /\ Oldest(w, todo)
       /\ PassFrame(w)
       /\ \/ RecordConflict(w) \/ RecordKept(w)
          \/ RecordUnlinked(w) \/ RecordPublished(w)

\* (a variant with a fault: the caller does not look at the verdict)
AfterPassUnchecked == ret

\* rt_publication_outbox_reconcile: the pass's verdict becomes g_retry_pass.
\* Its caller decides: startup refuses to go on, intake skips this tick.
AfterPass ==
  CASE ret = "boot"   -> IF bad THEN "refused" ELSE "up"
    [] ret = "intake" -> IF bad THEN "up" ELSE "intake"
    [] OTHER          -> ret

EndPass ==
  /\ pc = "pass" /\ todo = {}
  /\ retry' = bad
  /\ pc' = AfterPass
  /\ UNCHANGED <<disk, step, nextEvent, mem, cur, run, todo, bad, ret, bounds>>

-----------------------------------------------------------------------------
(* Intake (rt_ports_drain_sources, create_run_from_envelope) *)

\* Runs end and retire in one scheduler tick, so none is left over here.
Retired == \A r \in Runs : mem[r] # "over"
WaitingRuns == {r \in Runs : mem[r] = "waiting"}

\* A tick with nothing to retry, to reconcile or to drain changes nothing.
BeginIntake ==
  /\ pc = "up" /\ Retired
  /\ retry \/ inbox # {} \/ WaitingRuns # {}
  /\ pc' = "claims" /\ todo' = WaitingRuns
  /\ UNCHANGED <<disk, memory, cur, run, bad, ret, bounds>>

\* commit_inbound_event of run r: its first event, then READY
InboundCommitted(r) ==
  /\ first' = [first EXCEPT ![r] = "exact"]
  /\ status' = [status EXCEPT ![r] = "active"]
  /\ mem' = [mem EXCEPT ![r] = "ready"]

\* retry_waiting_inbound_claims: truncate, append again under the same run
RetryClaim ==
  /\ pc = "claims"
  /\ \E r \in todo :
       /\ Oldest(r, todo)
       /\ todo' = todo \ {r}
       /\ \/ InboundCommitted(r) /\ UNCHANGED faults
          \/ Fault("append") /\ UNCHANGED <<first, status, mem>>
  /\ UNCHANGED <<log, srcOver, spec, outbox, bound, counter, inbox, processed,
                 claim, ended, step, nextEvent, retry, pc, cur, run, bad, ret,
                 stops>>

\* rt_publication_outbox_retry_if_pending, before anything is drained
ClaimsRetried ==
  /\ pc = "claims" /\ todo = {}
  /\ IF retry THEN StartPass("intake")
              ELSE pc' = "intake" /\ UNCHANGED <<todo, bad, ret>>
  /\ UNCHANGED <<disk, memory, cur, run, bounds>>

\* bus_drain_inbox: the rename comes before the handler
TakeEnvelope ==
  /\ pc \in {"intake", "drained"}
  /\ \E r \in Runs : status[r] = "none"
  /\ \E w \in inbox :
       /\ Oldest(w, inbox)
       /\ inbox' = inbox \ {w}
       /\ processed' = processed \cup {w}
       /\ cur' = w
  /\ pc' = "validate"
  /\ UNCHANGED <<log, srcOver, spec, outbox, bound, counter, claim, status,
                 first, ended, memory, run, todo, bad, ret, bounds>>

\* the inbox is empty, the runs are exhausted, or so is the per-tick budget
EndIntake ==
  /\ pc \in {"intake", "drained"}
  /\ \/ pc = "drained" \/ inbox = {}
     \/ \A r \in Runs : status[r] # "none"
  /\ pc' = "up"
  /\ UNCHANGED <<disk, memory, cur, run, todo, bad, ret, bounds>>

\* rt_publication_outbox_validate: the record exists, its source is exact
WakeIsValid(w) == w \in outbox /\ SourceState(w) = "exact"

ValidateWake ==
  /\ pc = "validate"
  /\ \/ WakeIsValid(cur) /\ pc' = "persist" /\ UNCHANGED faults
     \/ ~WakeIsValid(cur) /\ pc' = "drained" /\ UNCHANGED faults
     \/ Fault("validate") /\ pc' = "drained"
  /\ UNCHANGED <<disk, memory, cur, run, todo, bad, ret, stops>>

\* the deferred claim: runstate.json says WAITING_EVENT before anything else
PersistClaim ==
  /\ pc = "persist"
  /\ \/ /\ \E r \in Runs :
             /\ Oldest(r, {x \in Runs : status[x] = "none"})
             /\ claim' = [claim EXCEPT ![r] = cur]
             /\ status' = [status EXCEPT ![r] = "waiting"]
             /\ mem' = [mem EXCEPT ![r] = "waiting"]
             /\ run' = r
        /\ pc' = "bind"
        /\ UNCHANGED faults
     \/ /\ Fault("persist") /\ pc' = "drained"
        /\ UNCHANGED <<claim, status, mem, run>>
  /\ UNCHANGED <<log, srcOver, spec, outbox, bound, counter, inbox, processed,
                 first, ended, step, nextEvent, retry, cur, todo, bad, ret,
                 stops>>

\* rt_publication_outbox_claim; a failed bind owes the next tick a pass
BindClaim ==
  /\ pc = "bind" /\ pc' = "commit"
  /\ \/ /\ cur \in outbox /\ bound[cur] = NoRun
        /\ bound' = [bound EXCEPT ![cur] = run]
        /\ UNCHANGED <<retry, faults>>
     \/ /\ cur \in outbox /\ bound[cur] = NoRun
        /\ Fault("bind") /\ retry' = TRUE /\ UNCHANGED bound
     \/ /\ cur \in outbox /\ bound[cur] \notin {NoRun, run}
        /\ retry' = TRUE /\ UNCHANGED <<bound, faults>>
     \/ /\ cur \notin outbox \/ bound[cur] = run
        /\ UNCHANGED <<bound, retry, faults>>
  /\ UNCHANGED <<log, srcOver, spec, outbox, counter, inbox, processed, claim,
                 status, first, ended, step, nextEvent, mem, cur, run, todo,
                 bad, ret, stops>>

\* The first event of the run; failing, the run keeps waiting for a retry,
\* unless the whole line is there after all.
CommitInbound ==
  /\ pc = "commit" /\ pc' = "drained"
  /\ \/ InboundCommitted(run) /\ UNCHANGED faults
     \/ /\ Fault("append")
        /\ InboundCommitted(run) \/ UNCHANGED <<first, status, mem>>
  /\ UNCHANGED <<log, srcOver, spec, outbox, bound, counter, inbox, processed,
                 claim, ended, step, nextEvent, retry, cur, run, todo, bad,
                 ret, stops>>

-----------------------------------------------------------------------------
(* The result run: its end, and the release of its record *)

\* apply_run_terminal_event: the terminal event, then the terminal runstate
EndRun(r) ==
  /\ pc = "up" /\ mem[r] = "ready"
  /\ ended' = ended \cup {r}
  /\ mem' = [mem EXCEPT ![r] = "over"]
  /\ run' = r /\ pc' = "terminal"
  /\ UNCHANGED <<log, srcOver, spec, outbox, bound, counter, inbox, processed,
                 claim, status, first, step, nextEvent, retry, cur, todo, bad,
                 ret, bounds>>

PersistTerminal ==
  /\ pc = "terminal" /\ pc' = "up"
  /\ \/ status' = [status EXCEPT ![run] = "terminal"] /\ UNCHANGED faults
     \/ Fault("persist") /\ UNCHANGED status
  /\ UNCHANGED <<log, srcOver, spec, outbox, bound, counter, inbox, processed,
                 claim, first, ended, memory, cur, run, todo, bad, ret, stops>>

\* rt_publication_outbox_release may unlink only for its own terminal run.
Releasable(r) ==
  /\ bound[claim[r]] \in {NoRun, r}
  /\ ClaimStateOfRun(r) = "terminal"

\* retire_terminal_runs; what release cannot settle owes the tick a pass
RetireRun(r) ==
  /\ pc = "up" /\ mem[r] = "over"
  /\ mem' = [mem EXCEPT ![r] = "none"]
  /\ \/ claim[r] \notin outbox /\ UNCHANGED <<outbox, retry, faults>>
     \/ /\ claim[r] \in outbox /\ Releasable(r)
        /\ outbox' = outbox \ {claim[r]} /\ UNCHANGED <<retry, faults>>
     \/ /\ claim[r] \in outbox /\ ~Releasable(r)
        /\ retry' = TRUE /\ UNCHANGED <<outbox, faults>>
     \/ /\ claim[r] \in outbox /\ Fault("unlink")
        /\ retry' = TRUE /\ UNCHANGED outbox
  /\ UNCHANGED <<log, srcOver, spec, bound, counter, inbox, processed, claim,
                 status, first, ended, step, nextEvent, control, stops>>

-----------------------------------------------------------------------------
(* Retention (janitor_module.c): live publication evidence is pinned *)

PruneRun(r) ==
  /\ pc = "up" /\ Retired
  /\ status[r] = "terminal" /\ claim[r] \notin outbox
  /\ status' = [status EXCEPT ![r] = "pruned"]
  /\ UNCHANGED <<log, srcOver, spec, outbox, bound, counter, inbox, processed,
                 claim, first, ended, memory, control, bounds>>

SourcePinned(s) == \E w \in outbox : spec[w].src = s

PruneSource(s) ==
  /\ pc = "up" /\ Retired
  /\ s \in srcOver /\ ~SourcePinned(s) /\ HasEvent(s, {"end"})
  /\ log' = [log EXCEPT ![s] = [e \in Events |-> "none"]]
  /\ UNCHANGED <<srcOver, spec, outbox, bound, counter, inbox, processed,
                 claim, status, first, ended, memory, control, bounds>>

\* (a variant with a fault: retention does not ask the outbox)
PruneEnvelopeUnpinned(w) ==
  /\ pc = "up" /\ Retired
  /\ w \in processed
  /\ processed' = processed \ {w}
  /\ UNCHANGED <<log, srcOver, spec, outbox, bound, counter, inbox, claim,
                 status, first, ended, memory, control, bounds>>

PruneEnvelope(w) ==
  /\ pc = "up" /\ Retired
  /\ w \in processed /\ w \notin outbox
  /\ processed' = processed \ {w}
  /\ UNCHANGED <<log, srcOver, spec, outbox, bound, counter, inbox, claim,
                 status, first, ended, memory, control, bounds>>

-----------------------------------------------------------------------------
(* Stopping and recovering *)

MemoryLost ==
  /\ step' = [s \in Sources |-> "closed"]
  /\ nextEvent' = [s \in Sources |-> MaxEvents + 1]   \* none is known
  /\ mem' = [r \in Runs |-> "none"]
  /\ retry' = FALSE
  /\ pc' = "down" /\ cur' = 0 /\ run' = NoRun /\ todo' = {} /\ bad' = FALSE
  /\ ret' = "up"

\* The process is killed between two file-system effects.
Crash ==
  /\ pc \notin {"down", "refused"} /\ crashes < MaxCrashes
  /\ crashes' = crashes + 1
  /\ MemoryLost
  /\ UNCHANGED <<disk, shutdowns, faults>>

\* rt_scheduler_shutdown: run_canceled for every run in memory, no release.
\* A run still waiting for its first event gets run_canceled as first line.
LiveSources == {s \in Sources \ srcOver : nextEvent[s] \in Events}
LiveRuns == {r \in Runs : mem[r] \in {"waiting", "ready"}}

Shutdown ==
  /\ pc = "up" /\ Retired /\ shutdowns < MaxShutdowns
  /\ shutdowns' = shutdowns + 1
  /\ log' = [s \in Sources |-> IF s \in LiveSources
                               THEN [log[s] EXCEPT ![nextEvent[s]] = "end"]
                               ELSE log[s]]
  /\ srcOver' = srcOver \cup LiveSources
  /\ ended' = ended \cup LiveRuns
  /\ first' = [r \in Runs |-> IF mem[r] = "waiting" THEN "other"
                              ELSE first[r]]
  /\ status' = [r \in Runs |-> IF r \in LiveRuns THEN "terminal"
                               ELSE status[r]]
  /\ MemoryLost
  /\ UNCHANGED <<spec, outbox, bound, counter, inbox, processed, claim,
                 crashes, faults>>

\* a new process: it recovers every run that is not durably terminal, whose
\* next event id follows the last one its log holds
Boot ==
  /\ pc \in {"down", "refused"}
  /\ pc' = "recover"
  /\ step' = [s \in Sources |-> IF s \in srcOver THEN "closed" ELSE "lost"]
  /\ mem' = [r \in Runs |-> IF status[r] \in {"waiting", "active"}
                            THEN "lost" ELSE "none"]
  /\ \E last \in [Sources -> 0..MaxEvents] :
       /\ \A s \in Sources : IsLastEvent(s, last[s])
       /\ nextEvent' = [s \in Sources |-> last[s] + 1]
  /\ retry' = FALSE
  /\ UNCHANGED <<disk, cur, run, todo, bad, ret, bounds>>

\* restore_runstate of a result run: the processed envelope must be there; a
\* terminal event settles it; a missing first event is committed again.
RecoverRun(r) ==
  /\ pc = "recover" /\ mem[r] = "lost"
  /\ \/ /\ claim[r] \notin processed \/ first[r] = "other"
        /\ pc' = "refused" /\ UNCHANGED <<first, status, mem, faults>>
     \/ /\ claim[r] \in processed /\ first[r] # "other" /\ r \in ended
        /\ status' = [status EXCEPT ![r] = "terminal"]
        /\ mem' = [mem EXCEPT ![r] = "none"]
        /\ UNCHANGED <<pc, first, faults>>
     \/ /\ claim[r] \in processed /\ first[r] # "other" /\ r \notin ended
        /\ InboundCommitted(r) /\ UNCHANGED <<pc, faults>>
     \/ /\ claim[r] \in processed /\ first[r] = "none"
        /\ Fault("append")
        /\ pc' = "refused" /\ UNCHANGED <<first, status, mem>>
  /\ UNCHANGED <<log, srcOver, spec, outbox, bound, counter, inbox, processed,
                 claim, ended, step, nextEvent, retry, cur, run, todo, bad,
                 ret, stops>>

SourceReplayed(s, state) == step' = [step EXCEPT ![s] = state]

\* restore_runstate of a producing run whose log settles its action, or whose
\* action may simply run again (not started, or declared local)
RecoverSource(s) ==
  /\ pc = "recover" /\ step[s] = "lost"
  /\ \/ /\ HasEvent(s, {"end"})
        /\ srcOver' = srcOver \cup {s} /\ SourceReplayed(s, "closed")
     \/ /\ ~HasEvent(s, {"end"}) /\ HasEvent(s, Kinds)
        /\ SourceReplayed(s, "closed") /\ UNCHANGED srcOver
     \/ /\ ~HasEvent(s, Kinds \cup {"end"})
        /\ s \notin OutsideWorld \/ ~HasEvent(s, {"started"})
        /\ SourceReplayed(s, "queued") /\ UNCHANGED srcOver
  /\ UNCHANGED <<log, spec, outbox, bound, counter, inbox, processed, claim,
                 status, first, ended, nextEvent, mem, retry, control, bounds>>

\* rt_task_block_bound_work: a started outside-world action with no terminal
\* is closed by work_blocked, itself a wake-bearing source event.
BlockSource(s) ==
  /\ pc = "recover" /\ step[s] = "lost"
  /\ s \in OutsideWorld /\ HasEvent(s, {"started"})
  /\ ~HasEvent(s, Kinds \cup {"end"})
  /\ Prepare(s, "blocked", "block", "refused")

AppendBlocked ==
  /\ pc = "block"
  /\ \/ /\ AppendOk(cur, "blocked")
        /\ step' = [step EXCEPT ![cur] = "closed"]
        /\ StartPass("recover")
     \/ /\ AppendFailed(cur, "blocked")
        /\ pc' = "refused"
        /\ UNCHANGED <<step, todo, bad, ret>>
  /\ UNCHANGED <<srcOver, spec, outbox, bound, counter, inbox, processed,
                 claim, status, first, ended, mem, retry, cur, run, stops>>

\* rt_scheduler_init, after recovery: one reconcile pass, which must succeed
Recovered ==
  /\ pc = "recover"
  /\ \A s \in Sources : step[s] # "lost"
  /\ \A r \in Runs : mem[r] # "lost"
  /\ StartPass("boot")
  /\ UNCHANGED <<disk, memory, cur, run, bounds>>

-----------------------------------------------------------------------------
\* The reactor sleeps in poll: there is nothing left for it to do.
Quiescent ==
  /\ pc = "up" /\ ~retry /\ inbox = {}
  /\ \A r \in Runs : mem[r] = "none"
  /\ UNCHANGED vars

Produce(s) == LaunchAction(s) \/ CompleteAction(s) \/ FinishSource(s)
Prune == \/ \E r \in Runs : PruneRun(r)
         \/ \E s \in Sources : PruneSource(s)
         \/ \E w \in Wakes : PruneEnvelope(w)

\* What the one thread does once it has begun a call: no choice of its own.
Continue ==
  \/ AppendSource \/ FailSource \/ ReconcileRecord \/ EndPass
  \/ RetryClaim \/ ClaimsRetried \/ TakeEnvelope \/ EndIntake
  \/ ValidateWake \/ PersistClaim \/ BindClaim \/ CommitInbound
  \/ PersistTerminal \/ AppendBlocked \/ Recovered
  \/ \E r \in Runs : RecoverRun(r)
  \/ \E s \in Sources : RecoverSource(s) \/ BlockSource(s)

Next ==
  \/ \E s \in Sources : Produce(s)
  \/ BeginIntake \/ Continue
  \/ \E r \in Runs : EndRun(r) \/ RetireRun(r)
  \/ Prune \/ Crash \/ Shutdown \/ Boot
  \/ Quiescent

Spec == Init /\ [][Next]_vars

\* The reactor keeps ticking, a stopped gateway is started again, and every
\* result run and every retirement gets its turn in the scheduler's loop.
Fairness ==
  /\ WF_vars(Continue) /\ WF_vars(BeginIntake) /\ WF_vars(Boot)
  /\ \A r \in Runs : WF_vars(EndRun(r)) /\ WF_vars(RetireRun(r))

FairSpec == Spec /\ Fairness

-----------------------------------------------------------------------------
(* Properties *)

TypeOK ==
  /\ log \in [Sources -> [Events -> {"none", "started", "end"} \cup Kinds]]
  /\ srcOver \subseteq Sources
  /\ spec \in [Wakes -> SpecType \cup {NoSpec}]
  /\ outbox \subseteq Wakes
  /\ bound \in [Wakes -> Runs \cup {NoRun}]
  /\ counter \in 0..MaxWakes
  /\ inbox \subseteq Wakes /\ processed \subseteq Wakes
  /\ claim \in [Runs -> Wakes \cup {0}]
  /\ status \in [Runs -> {"none", "waiting", "active", "terminal", "pruned"}]
  /\ first \in [Runs -> {"none", "exact", "other"}]
  /\ ended \subseteq Runs
  /\ step \in [Sources -> {"queued", "running", "closed", "lost"}]
  /\ nextEvent \in [Sources -> Nat \ {0}]
  /\ mem \in [Runs -> {"none", "waiting", "ready", "over", "lost"}]
  /\ retry \in BOOLEAN /\ bad \in BOOLEAN
  /\ pc \in {"up", "append", "failsource", "pass", "claims", "intake",
             "drained", "validate", "persist", "bind", "commit", "terminal",
             "down", "recover", "block", "refused"}
  /\ ret \in {"up", "intake", "recover", "boot"}
  /\ run \in Runs \cup {NoRun}
  /\ todo \subseteq Wakes \cup Runs
  /\ crashes \in 0..MaxCrashes /\ shutdowns \in 0..MaxShutdowns
  /\ faults \in 0..MaxFaults

\* A wake waiting in the inbox, or being admitted, always has its record and
\* its exact committed source: intake never meets an internal wake it must
\* reject ("internal_wake_outbox_mismatch" of create_run_from_envelope), and
\* no wake is on the bus before the event it announces is on disk.
InboxWakesAreValid ==
  \A w \in inbox \cup (IF pc \in {"validate", "persist"} THEN {cur} ELSE {}) :
     WakeIsValid(w)

\* However often reconciliation publishes, requeues or restarts, one wake
\* identity creates at most one result run, pruned runs included.
OneRunPerWake ==
  \A r1, r2 \in Runs : claim[r1] # 0 /\ claim[r1] = claim[r2] => r1 = r2

\* One source event reserves one bus identity, so its consequence is announced
\* once: prepare finds the earlier record or the event is already committed.
OneWakePerSource ==
  \A w1, w2 \in Wakes :
     /\ spec[w1] # NoSpec
     /\ spec[w1].src = spec[w2].src /\ spec[w1].ev = spec[w2].ev
     => w1 = w2

\* Until a result run is durably terminal, everything its recovery reads is
\* kept: the record, the processed envelope, the exact source event.
\* (the pins of rt_publication_outbox_run_pending and _wake_pending)
ClaimEvidencePinned ==
  \A r \in Runs : status[r] \in {"waiting", "active"} =>
     /\ WakeIsValid(claim[r])
     /\ claim[r] \in processed

Served(w) == \E r \in Runs : claim[r] = w /\ status[r] \in {"terminal", "pruned"}
OnlyServedForgotten == \A w \in outbox \ outbox' : Served(w)

\* A record goes away only when the one run it woke is durably terminal, so a
\* committed source is never forgotten (unlink in reconcile_pass and release).
ForgottenOnlyWhenServed == [][OnlyServedForgotten]_vars

\* The stage of a wake identity, read off the disk
WakeStage ==
  [w \in Wakes |->
     CASE Served(w) -> "done"
       [] \E r \in Runs : claim[r] = w /\ status[r] \in {"waiting", "active"}
               -> "running"
       [] spec[w] = NoSpec -> "free"
       [] OTHER -> IF SourceState(w) = "exact" THEN "announced" ELSE "reserved"]

Lifecycle == INSTANCE WakeLifecycle WITH stage <- WakeStage

\* The outbox implements the lifecycle: across crashes, failing calls and
\* retention, a wake only ever moves reserved -> announced -> running -> done.
ImplementsLifecycle == Lifecycle!Spec

\* A reserved event id that names another event now: the record can neither be
\* published nor removed.
ReservationClash ==
  \E w \in outbox : SourceState(w) # "exact" /\ bound[w] = NoRun
                   /\ log[spec[w].src][1] # "none"

\* A claim run canceled by a shutdown before its first event was committed
CanceledBeforeFirst == \E r \in Runs : first[r] = "other"

\* prepared_source_lookup has counted PUBLICATION_SCAN_CAP records: ENOSPC
OutboxFull == Cardinality(outbox) >= ScanCap

\* Startup is refused only for a failing call, a clash of reserved event ids,
\* a claim canceled before its first event, or an outbox with no room for the
\* record of a blocked action; never for a pinned artefact that retention
\* removed or a record left by an ordinary crash.
RefusalExplained ==
  pc = "refused" =>
    faults > 0 \/ ReservationClash \/ CanceledBeforeFirst \/ OutboxFull

\* "On cold start, the recovery pass repairs a torn final event record,
\* rehydrates nonterminal runs, ..." (docs/concepts/gateway-reactor.md)
StartupCompletes == pc # "refused"

Committed(w) == w \in outbox /\ SourceState(w) = "exact"

\* Every committed source is eventually served by a run that ends and whose
\* record is removed, across crashes and shutdowns, unless a reservation clash
\* stops the gateway from starting.
CommittedIsServed ==
  \A w \in Wakes : Committed(w) ~>
     (Served(w) /\ w \notin outbox) \/ ReservationClash

=============================================================================
