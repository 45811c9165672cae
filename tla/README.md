# FloofClaw in TLA+

FloofClaw is a single-process, single-threaded gateway: a `poll(2)` reactor
ticks a fixed list of modules (bus wake, job runner, bus intake, runtime,
status, affair watcher, janitor, adapters). The file system is its durable
store. An event is committed when its line, newline included, is in a run's
`events.jsonl`; other state lives in files replaced atomically. Work leaves the
process only as child processes (agents, actions, detached workers) and as
envelopes in the file-backed bus, which other processes write too.

The hard part of such a program is not any one function but what a process
kill, a failing call or another process does between two file-system effects,
and that is what these modules model.

## How the modules read

* The gateway is one thread. In each module `pc` says between which two
  file-system effects it stands; an action is the code from one effect to the
  next. In-memory state and on-disk state are separate variables.
* **Crash** = the process is killed at any `pc`: memory is lost, the disk and
  detached workers stay. A torn final line is an event not committed
  (`fs_truncate_incomplete_line`). Loss of power, where data that `write(2)`
  accepted may vanish, is out of scope.
* **Faults** are calls that fail and report it. `FaultPoints` says which may,
  `MaxFaults` how often. A synchronous append has three outcomes: written,
  not written, and written although `fsync` reported an error.
* Text (payloads, JSON, messages) is abstracted to what the code compares:
  identities, kinds and equality.
* Every bound is a CONSTANT whose name begins with `Max`, or names the code's
  own limit (`ScanCap`, `KeepFinished`, `MaxItems`).
* Definitions commented "a variant with a fault" are plausible mistakes of the
  code. They are used by no specification; replacing the definition that
  follows by the variant breaks the property named in `PROJECT.json`.

## Inventory

| Part | State | Operations | What makes it hard | Modelled by |
|---|---|---|---|---|
| publication outbox | outbox records, bus identity counter, claims | prepare, validate, claim, release, reconcile | kill between record and source; retention; failed bind | `PublicationOutbox` |
| managed operations | operation store, tokens, timers, claims | allocate, terminalize, claim, abort, pump, reconcile orphans, close | four parties race to end one operation | `ManagedOperation` |
| inbound ports and intake | inbox, processed, deferred claims, deliveries | drain, admit, commit, retry, requeue | rename before handling; retry of what was done | both, partly |
| run engine and scheduler | run table, phases, waiting jobs, slots | start, step, wait, wake, fail, cancel, retire | serialisation, cancellation, pass limits | partly, planned `RunEngine` |
| action ledger | pending, terminal and completed requests | note, start, terminal, replay | replay after a kill must not redo an effect | `ActionLedger` |
| run recovery | run logs and runstates | scan, replay, restore | must agree with what was done before | `ActionLedger`; both, partly |
| event log | `events.jsonl`, event ids | append, sync append, validate output | ids consumed by failing writes | both, partly |
| retention janitor | runs, processed envelopes, stores | prune | removes evidence that is still needed | both, partly |
| file-backed bus | inbox, processed, counter lock | reserve, publish, stable publish, drain, requeue | several processes | partly, planned `Bus` |
| job runner | job table, pipes, deadlines | launch, poll, kill, reap, cancel | child exit, pipes and deadline in any order | planned `JobRunner` |
| work, task and pulse state | work revisions, steps, tasks | reducers | stale revisions, budgets | blockers only |
| affairs, reactor, channels and adapters, model calls | cursors, sessions, back-off | tick, reconnect, deliver | order and liveness of ticks | not yet |
| memory, views, secrets, command line, registry | files | render, load, print | no protocol | no |

## Modules

### PublicationOutbox: one committed event, one wake, one run

A producing run reserves a bus identity and writes an outbox record *before* it
appends the source event; a reconcile pass publishes only records whose source
is exactly on disk; intake creates a run and binds the record; the record goes
when that run is durably terminal.

* Disk: `log` (events by id), `spec`/`outbox`/`bound` (records), `counter`,
  `inbox`, `processed`, and for each result run `claim`, `status`, `first`,
  `ended`. Memory: `step`, `nextEvent`, `mem`, `retry` (`g_retry_pass`).
* Producer: `LaunchAction`, `CompleteAction`, `AppendSource`, `FailSource`,
  `FinishSource`. Pass: `ReconcileRecord`, `EndPass`. Intake: `BeginIntake`,
  `RetryClaim`, `ClaimsRetried`, `TakeEnvelope`, `ValidateWake`,
  `PersistClaim`, `BindClaim`, `CommitInbound`. Result run: `EndRun`,
  `PersistTerminal`, `RetireRun`. Retention: `Prune`. Restart: `Crash`,
  `Shutdown`, `Boot`, `RecoverRun`, `RecoverSource`, `BlockSource`,
  `AppendBlocked`, `Recovered`.
* `WakeLifecycle` is the abstract promise: a wake moves
  free, reserved, announced, running, done and never back. `WakeStage` maps the
  disk to it and `ImplementsLifecycle` is the refinement.

### ManagedOperation: one operation, one terminal truth

The store is the gate: `operation_result` is appended first and the reducer
then flips the record. Actions, detached workers, aborts and the deadline race
for it; a claim is admitted only while the record runs and becomes the first
event of its own run.

* Disk: `store`, `birth`, `token`, `handle`, `timer` (the record), `acts`,
  `results`, `first` (logs), `env`, `inbox`, `processed`, `crun` (bus and claim
  runs). Other processes: `worker`. Memory: `job`, `mem`, `todo`.
* History: `lapse` marks the three windows in which the gate is open although a
  truth exists or is on its way (`reducer`: the store missed the result;
  `deferred`: an admitted claim is not written yet; `purged`: the finished
  record was dropped). `closed` marks records closed without a result.
* Actions: `Producing`, `Claiming`, `Intake`, `Retention`, `Restarting` group
  one action per step of the code.

### ActionLedger: one call, one effect

One run of a profile with an agent step and the action_runner step. An agent's
output is appended line by line and then noted; a noted request is queued,
rejected as a duplicate in flight, answered from the memory of outcomes, or
dropped at the cap. `action_started` is written before any effect; the terminal
after it. After a kill the log is replayed line by line through the same code,
started requests are settled (a message by its delivery line, an outside-world
action as failed, a local one by running it again), and the run goes on.

* Disk: `log`, `call` (the request lines), `ledger` (`deliveries.jsonl`),
  `saved` (`runstate.json`), `repairs`. Outside: `forks`. Memory: `pend`, `done`,
  `memo`, `next`, and the cursor `state`, `phase`, `advance`, `attempts`,
  `delivered`.
* `Deciding`: `BeginPass`, `StartAgent`, `AgentAnswers`, `AgentFails`,
  `AppendRequest`, `AppendRequestFails`, `NoteOutput`, `AgentDone`. `Acting`:
  `RefuseAction`, `StartAction`, `ForkChild`, `ForkFails`, `JobEnds`, `Deliver`,
  `CommitMessage`, `AdvancePhase`. `Ends`: `FinishAdvance`, `EndRun`, `SaveEnd`;
  `Cancel`, `Crash`; `Restarting`: `Boot`, the `Replay` actions,
  `RecoverStarted`, `Resume`.
* History: `lost` holds requests that are in the log and were not taken up
  (dropped at the cap, cut off by a failing append, or refused in a line that
  could not be written), `forgot` the calls whose outcome found no room.

## Runs

Runs marked *violation* check what a document or comment of the repository
says; TLC shows the code doing otherwise. `PROJECT.json` quotes the lines.

| Run | Expect | Question and instance |
|---|---|---|
| `outbox_safety` | pass | Two producers (one outside-world, one local), two kills, a shutdown, one failing call anywhere: valid wakes, one wake per source, one run per wake, evidence pinned, startup refused only for a named reason, refinement of `WakeLifecycle` |
| `outbox_live` | pass | Under a fair reactor every committed source is served and its record removed, across a kill and a failing publish, bind or unlink |
| `outbox_wedge` | violation | A kill between record and source makes every later start fail |
| `operation_safety` | pass | One detached operation, its action, two worker or abort claims and its deadline, a kill, a shutdown and one failing call; also the inductive invariant of the proof |
| `operation_retention` | pass | Three operations, one of them detached, outside-world and bound to a work revision, in a store with room for two and `keep_finished` = 1: recycling, refusal, purging and closing, across a kill and a failing store write |
| `operation_live` | pass | Every running record ends, unless its result is already logged or its deadline claim was spoiled |
| `ledger_safety` | pass | Three requests over a message, an outside-world and a local call, with a retry, a repair, a kill and one failing call, refusal or cancellation anywhere; queue of two, memory of one outcome |
| `operation_crash` | violation | Kill between result line and store: a second result |

Other disagreements met while modelling have no run of their own; the passing
properties name them as their exceptions, and TLC finds each trace when the
exception is removed:

* a graceful shutdown while a claim run waits for its first append writes
  `run_canceled` as that run's first line, and every later start is refused
  (`CanceledBeforeFirst` in `RefusalExplained`; `scheduler.c:336`);
* the first append of a claim run fails, a second claim of the batch is
  admitted, and the retry of the first writes a second result (lapse
  `deferred` in `OneTerminalTruth`; `ports.c:797`). The same lapse lets
  recovery close a record and then write the claim admitted before the kill
  (`recovery.c:304`);
* a kill between a record and its token lets the deadline publish a claim that
  the relaunched action makes inadmissible (`TimerSpoiled` in
  `OperationsEndOrAreTold`; `ports.c:1133`);
* a claim's envelope is pinned only while the record runs, although its run is
  restored from it (`pc = "refused"` there; `ports.c:1235`);
* an append that fails in the middle of an agent's output leaves requests in
  the log that the run does not hold; the agent is asked again, and a later
  restart executes the first request too (`lost` in `OncePerCall`;
  `event_log.c:676`);
* the memory of outcomes is full at 32, after which a retry repeats an effect,
  although "retries never re-deliver or re-execute"
  (docs/concepts/floofclaw_floop.md:110; `forgot` in `OncePerCall`);
* the purge orders finished records by insertion, so a record can be dropped by
  the write that finishes it (`RunningKept` asks only that its truth is told;
  `operation_state.c:166`).

### Bounds

Two producers are enough for the outbox because records interact only through
the pass, the counter and the inbox order, all of which two wakes exercise;
`MaxEvents` 4 holds a start, a terminal, a blocker and an end. Three runs leave
one spare for an illegal second claim. One operation with three claims lets a
worker, an abort and the deadline meet; retention needs three operations for two
places, so that recycling and purging choose between running and finished
records (`b` and `c` are interchangeable there, hence the symmetry). In the
ledger three requests let a call be repeated while another is in flight, and a
memory of one outcome lets the second be forgotten. One kill and one failing call reach
every pair of adjacent effects; the outbox run takes two kills because its
recovery itself writes records.

### Fairness

`PublicationOutbox.FairSpec` and `ManagedOperation.FairSpec` assume that the
thread finishes what it began, that a stopped gateway is started again, and
that the reactor gives each module its tick (`reactor.c` calls every module in
every turn). Strong fairness is used where a tick can be pre-empted by another
module's work but comes back in each turn: intake, the deadline pump and the
requeueing of orphans. `ActionLedger.FairSpec` assumes of its run only that the
thread goes on, that children exit or are killed at their deadline, and that
the gateway is started again. Nothing is assumed of workers, which may never report.

### Deadlock

`outbox_*` check deadlock; the sleeping reactor is the explicit step
`Quiescent`. The `operation_*` runs and `ledger_safety` set `CHECK_DEADLOCK FALSE`: when all
operations are over and the bounds on kills and claims are used up, the system
really has nothing left to do, as has a run that is over.

## Proofs

TLAPS checks them for every value of the constants satisfying the named
assumptions (bounds are naturals; subsets are subsets).

* `PublicationOutbox_proofs`: `TypeCorrect`, `WakesAreValid`, `NoSecondRun`,
  `EvidenceStays`, `NothingForgotten`. None of these is inductive alone.
  `IInv` adds that ids at or above `next_event` are free (an append overwrites
  nothing), that a bound record points at the run its own wake created, that a
  run is pruned only after its record, that an inbox wake is unclaimed, that a
  claimed record keeps an exact source, and what the thread holds at each `pc`.
* `ManagedOperation_proofs`: `TypeCorrect`, `TruthIsUnique`,
  `FinishedHasTruth`, `OnlyToldRecordsGo`. The strengthening is `GateInv`: of
  an operation without a lapse either nothing is told and the gate is open, or
  one truth is told and the gate is shut, or the thread stands exactly between
  log and store; with `ThreadInv` and `ClaimInv` for what the thread and the
  claims refer to. TLC checks the same `IInv` in `operation_safety`.

Only model-checked: liveness (fairness is outside the prover), the refinement
of `WakeLifecycle`, `OneWakePerSource` and `RefusalExplained`.

## Plan

1. `RunEngine`: phases, waits, action slot, retries, cancellation and
   retirement of several runs; serialisation per context; every run ends.
2. `JobRunner` and `Bus`, with their several processes.
3. Work, task and affair reducers; janitor stores; reactor tick and shutdown.
4. Adapters: outbox cursors, reconnect back-off, sessions; provider limits.

## Not modelled

Rendering of prompts and views, JSON text, argument parsing, credentials and
static configuration have no protocol state. Loss of power is not modelled.
`PROJECT.json` lists every component with its status and reason.
