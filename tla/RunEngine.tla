------------------------------ MODULE RunEngine ------------------------------
(***************************************************************************)
(* The run engine of the gateway: the reactor pass over its modules, the   *)
(* job runner that owns the child processes, the intake of envelopes into  *)
(* a fixed pool of runs, the profile walk of each run, the single action   *)
(* slot, cancellation, retirement and the graceful shutdown.               *)
(*                                                                         *)
(* The gateway is one thread.  pc is the place of that thread in the       *)
(* reactor pass; everything outside it (publishers, clients, children)     *)
(* acts while the thread sleeps in poll(2), because what they change is    *)
(* only read at the module ticks that follow.                              *)
(*                                                                         *)
(* A run is named by the envelope it was created from.  Events are not     *)
(* recorded one by one: log[e] says how far the event log of run e is.     *)
(* What an agent decides, and whether the tasks of a context are           *)
(* actionable, are choices.  Crash and recovery of a single run are the    *)
(* business of ActionLedger; this module follows one gateway process.      *)
(***************************************************************************)
EXTENDS Integers, Sequences

CONSTANTS
  Envs,           \* envelopes that are published, each the origin of one run
  Exec,           \* the envelopes of type action_exec
  Ctx,            \* the context of each envelope
  Profiles,       \* the profiles the gateway may have loaded
  MaxActive,      \* RT_MAX_ACTIVE_RUNS
  IntakePerTick,  \* RT_INTAKE_PER_TICK
  MaxAdvances,    \* RT_MAX_PHASE_ADVANCES_PER_TICK
  MaxPasses,      \* RT_MAX_PROFILE_PASSES
  Outputs,        \* the action requests one agent output may carry
  Deadline,       \* ticks a job may take before it is sent SIGTERM
  Grace,          \* ticks between SIGTERM and SIGKILL
  MaxFaults       \* failed writes and launches, repairs and cancellations

StepKinds == {"agent", "native", "aside", "memory", "gated", "dispatch"}

ASSUME EngineAssumption ==
  /\ Exec \subseteq Envs
  /\ MaxActive \in Nat \ {0} /\ IntakePerTick \in Nat \ {0}
  /\ MaxAdvances \in Nat \ {0} /\ MaxPasses \in Nat \ {0}
  /\ Deadline \in Nat \ {0} /\ Grace \in Nat \ {0} /\ MaxFaults \in Nat
  /\ Outputs \subseteq Seq({"msg", "sub"})
  /\ Profiles \subseteq [steps : Seq(StepKinds), one_pass : BOOLEAN, serialize : BOOLEAN,
                        retry : Nat]

VARIABLES
  profile,   \* [steps, one_pass, serialize, retry]
  fresh,     \* envelopes not yet published
  inbox,     \* workspace/bus/inbox, oldest first
  refused,   \* envelopes intake rejected and logged
  runs,      \* s->runs[], in intake order
  run,       \* the RtRun of each envelope; its state outlives the pool slot
  log,       \* "none", "inbound", "open" (run_started or later), "closed"
  heard,     \* what deliveries.jsonl holds for the origin of each run
  jobs,      \* r->jobs, newest first
  pc,        \* where the reactor thread is
  cur,       \* its loop counter there: intake budget or index into runs
  adv,       \* phases advanced for the current run in this tick
  faults     \* faults so far

engine == <<runs, run, log, heard>>
vars == <<profile, fresh, inbox, refused, engine, jobs, pc, cur, adv, faults>>

-----------------------------------------------------------------------------
(* Runs.                                                                    *)

Terminal == {"done", "failed"}

Blank == [state |-> "free", phase |-> 1, advance |-> 0, attempts |-> 0,
          pending |-> <<>>, wait |-> "none", at |-> 0, waiting |-> 0,
          told |-> FALSE, progress |-> FALSE]

(* A run that holds a slot of the pool.                                     *)
InPool(e) == \E i \in DOMAIN runs : runs[i] = e

(* A run that is in use and not over.                                       *)
Active(e) == run[e].state \notin Terminal \cup {"free"}

Steps == profile.steps

(* The step under the cursor, "end" past the last one.                      *)
StepAt(r) == IF r.phase <= Len(Steps) THEN Steps[r.phase] ELSE "end"

(* rt_run_wait_clear.                                                       *)
WaitClear(r) == [r EXCEPT !.wait = "none", !.at = 0]

(* rt_run_wait_for_agent, _action_job and _action_slot.                     *)
WaitFor(r, reason, step) ==
  [r EXCEPT !.state = IF reason = "slot" THEN "waiting_slot" ELSE "waiting_jobs",
            !.wait = reason, !.at = step]

Fault == faults < MaxFaults /\ faults' = faults + 1

(* apply_run_terminal_event: the terminal line seals the log, the state     *)
(* follows it; a failed append retires the run as failed with no line.      *)
End(e, r, state) ==
  \/ /\ run' = [run EXCEPT ![e] = [r EXCEPT !.state = state]]
     /\ log' = [log EXCEPT ![e] = "closed"]
     /\ UNCHANGED faults
  \/ /\ Fault
     /\ run' = [run EXCEPT ![e] = [r EXCEPT !.state = "failed"]]
     /\ log' = [log EXCEPT ![e] = IF @ = "inbound" THEN "open" ELSE @]

-----------------------------------------------------------------------------
(* Jobs.  child is the process, pipe its ends of the pipes the gateway      *)
(* reads, which a grandchild may hold open after the child is gone.         *)

NewJob(kind, e, step) ==
  [kind |-> kind, run |-> e, step |-> step, st |-> "running", child |-> "run",
   pipe |-> "open", age |-> 0, term |-> FALSE, late |-> FALSE]

(* rt_run_start_tracked_job.                                                *)
Tracked(r) == [r EXCEPT !.waiting = @ + 1]

(* rt_run_waiting_job_remove.                                               *)
Untracked(r) == [r EXCEPT !.waiting = @ - 1]

(* Mutant: a job that was sent SIGTERM no longer holds the slot.            *)
ActiveUnsignaled(kind) ==
  {i \in DOMAIN jobs : jobs[i].st = "running" /\ jobs[i].kind = kind /\ ~jobs[i].term}

(* What rt_jobrunner_count_active counts: a job, until it is reaped and      *)
(* drained.                                                                 *)
ActiveJobs(kind) ==
  {i \in DOMAIN jobs : jobs[i].st = "running" /\ jobs[i].kind = kind}

(* The body of rt_jobrunner_tick for one job.  age counts ticks since the   *)
(* launch, and since SIGTERM once that is sent: the deadline sends SIGTERM  *)
(* and marks the job late, the end of the grace sends SIGKILL.  The job     *)
(* leaves "running" when the child is reaped and its pipes are at EOF.      *)
Ticked(j) ==
  LET late == ~j.term /\ j.age >= Deadline
      kill == j.term /\ j.age >= Grace
      gone == j.child # "run" /\ j.pipe = "eof"
  IN  IF j.st # "running" THEN j
      ELSE IF gone
           THEN [j EXCEPT !.late = @ \/ late,
                          !.st = IF j.child = "ok" /\ ~j.late /\ ~late
                                 THEN "finished" ELSE "failed"]
           ELSE [j EXCEPT !.late = @ \/ late,
                          !.term = @ \/ late,
                          !.child = IF kill /\ @ = "run" THEN "bad" ELSE @,
                          !.age = IF late THEN 0
                                  ELSE IF kill THEN @ ELSE @ + 1]

Finished == {i \in DOMAIN jobs : jobs[i].st \in {"finished", "failed"}}

(* Mutant: the state of the run is not asked.                               *)
MatchesAnyState(j) ==
  /\ InPool(j.run)
  /\ \/ j.kind = "agent" /\ run[j.run].wait = "agent" /\ run[j.run].at = j.step
     \/ j.kind = "action" /\ (run[j.run].wait = "action" \/ run[j.run].pending # <<>>)

(* rt_scheduler_find_run_for_job: a job reaches a run that waits for it.    *)
Matches(j) ==
  /\ InPool(j.run)
  /\ run[j.run].state = "waiting_jobs"
  /\ \/ j.kind = "agent" /\ run[j.run].wait = "agent" /\ run[j.run].at = j.step
     \/ j.kind = "action" /\ (run[j.run].wait = "action" \/ run[j.run].pending # <<>>)

-----------------------------------------------------------------------------
(* The world outside, while the reactor sleeps in poll(2).                  *)

Sleeping == pc \in {"poll", "draining", "killing"}

(* A publisher links an envelope into the inbox; names grow, so the inbox   *)
(* is read in publication order.                                            *)
Publish(e) ==
  /\ Sleeping /\ e \in fresh
  /\ fresh' = fresh \ {e}
  /\ inbox' = Append(inbox, e)
  /\ UNCHANGED <<profile, refused, engine, jobs, pc, cur, adv, faults>>

(* A child ends by itself, well or badly, and its pipes may stay open.      *)
ChildExits(i, code) ==
  /\ Sleeping /\ i \in DOMAIN jobs
  /\ jobs[i].st = "running" /\ jobs[i].child = "run"
  /\ jobs' = [jobs EXCEPT ![i].child = code]
  /\ UNCHANGED <<profile, fresh, inbox, refused, engine, pc, cur, adv, faults>>

(* The last holder of the write ends of the pipes closes them, before or    *)
(* after the child exits.                                                   *)
PipeCloses(i) ==
  /\ Sleeping /\ i \in DOMAIN jobs
  /\ jobs[i].st = "running" /\ jobs[i].pipe = "open"
  /\ jobs' = [jobs EXCEPT ![i].pipe = "eof"]
  /\ UNCHANGED <<profile, fresh, inbox, refused, engine, pc, cur, adv, faults>>

(* rt_scheduler_cancel_origin, from a channel: SIGTERM to the jobs of the   *)
(* run and a run_canceled line.  The jobs stay with the job runner.         *)
Cancel(e) ==
  /\ pc = "poll" /\ Active(e) /\ faults < MaxFaults
  /\ jobs' = [i \in DOMAIN jobs |->
                IF jobs[i].run = e /\ jobs[i].st = "running" /\ ~jobs[i].term
                THEN [jobs[i] EXCEPT !.term = TRUE, !.age = 0] ELSE jobs[i]]
  /\ run' = [run EXCEPT ![e].state = "failed"]
  /\ log' = [log EXCEPT ![e] = "closed"]
  /\ faults' = faults + 1
  /\ UNCHANGED <<profile, fresh, inbox, refused, runs, heard,
                 pc, cur, adv>>

-----------------------------------------------------------------------------
(* The reactor pass: jobrunner, bus_intake and runtime tick in this order.  *)

JobTick ==
  /\ pc = "poll" /\ pc' = "claims"
  /\ jobs' = [i \in DOMAIN jobs |-> Ticked(jobs[i])]
  /\ UNCHANGED <<profile, fresh, inbox, refused, engine, cur, adv, faults>>

(* Mutant: the intake budget forgets the pool.                              *)
BudgetUncapped == IntakePerTick

(* The intake budget of rt_ports_drain_sources.                             *)
Budget ==
  IF MaxActive - Len(runs) < IntakePerTick THEN MaxActive - Len(runs) ELSE IntakePerTick

(* retry_waiting_inbound_claims for every claimed run whose first line is   *)
(* not proved.  An outbox pass that cannot settle takes no intake then.     *)
RetryClaims ==
  LET waiting == {e \in Envs : InPool(e) /\ run[e].state = "waiting_event"}
  IN  /\ pc = "claims" /\ pc' = "intake"
      /\ \E fate \in [waiting -> {"ready", "waiting_event", "failed"}] :
           /\ (\E e \in waiting : fate[e] # "ready") => faults < MaxFaults
           /\ run' = [e \in Envs |-> IF e \in waiting
                                     THEN [run[e] EXCEPT !.state = fate[e]] ELSE run[e]]
           /\ log' = [e \in Envs |->
                        IF e \notin waiting THEN log[e]
                        ELSE CASE fate[e] = "ready"  -> "inbound"
                               [] fate[e] = "failed" -> "closed"
                               [] OTHER              -> log[e]]
           /\ \/ /\ cur' = Budget
                 /\ faults' = IF \E e \in waiting : fate[e] # "ready"
                              THEN faults + 1 ELSE faults
              \/ cur' = 0 /\ Fault
      /\ UNCHANGED <<profile, fresh, inbox, refused, runs, heard,
                     jobs, adv>>

(* intake_envelope and create_run_from_envelope for an accepted envelope.   *)
(* An action_exec run starts past its profile with one request queued.      *)
Admitted(e, state) ==
  [Blank EXCEPT !.state = state,
                !.phase = IF e \in Exec THEN Len(Steps) + 1 ELSE 1,
                !.pending = IF e \in Exec THEN <<"sub">> ELSE <<>>]

(* The inbound line is written and the run may start.                       *)
Admits(e) ==
  /\ runs' = Append(runs, e)
  /\ run' = [run EXCEPT ![e] = Admitted(e, "ready")]
  /\ log' = [log EXCEPT ![e] = "inbound"]
  /\ UNCHANGED <<refused, faults>>

(* commit_inbound_event fails: the run keeps its claim and waits.           *)
ClaimsOnly(e) ==
  /\ Fault /\ e \notin Exec
  /\ runs' = Append(runs, e)
  /\ run' = [run EXCEPT ![e] = Admitted(e, "waiting_event")]
  /\ UNCHANGED <<refused, log>>

(* parse_inbound_envelope refuses it, and log_rejected_envelope says so.    *)
Rejects(e) ==
  /\ Fault
  /\ refused' = refused \cup {e}
  /\ UNCHANGED <<runs, run, log>>

Intake ==
  /\ pc = "intake" /\ cur > 0 /\ inbox # <<>>
  /\ cur' = cur - 1
  /\ inbox' = Tail(inbox)
  /\ LET e == Head(inbox) IN Admits(e) \/ ClaimsOnly(e) \/ Rejects(e)
  /\ UNCHANGED <<profile, fresh, heard, jobs, pc, adv>>

IntakeDone ==
  /\ pc = "intake" /\ (cur = 0 \/ inbox = <<>>)
  /\ pc' = "pump" /\ cur' = 0
  /\ UNCHANGED <<profile, fresh, inbox, refused, engine, jobs, adv, faults>>

-----------------------------------------------------------------------------
(* pump_finished_jobs: one finished job back to its run.                    *)

(* wake_run_after_job when the completion handler succeeded.                *)
WakeOk(r, j) ==
  WaitClear([Untracked(r) EXCEPT
               !.state = IF j.kind = "agent" THEN "running"
                         ELSE IF r.waiting > 1 THEN "waiting_jobs" ELSE "ready"])

(* wake_run_after_job when it failed: post-reply bookkeeping ends the run   *)
(* well, a non-critical step is skipped, a failed agent step restarts the   *)
(* event while attempts last, and anything else fails the run.              *)
WakeFailed(e, r, j) ==
  LET r1      == Untracked(r)
      kind    == IF j.kind = "agent" THEN Steps[j.step] ELSE "action"
      retries == j.kind = "agent" /\ r.attempts < profile.retry
      after   == IF kind = "aside"
                 THEN WaitClear([r1 EXCEPT !.state = IF r1.waiting > 0 THEN "waiting_jobs"
                                                     ELSE "running"])
                 ELSE WaitClear([r1 EXCEPT !.state = "ready", !.phase = 1,
                                           !.attempts = @ + 1])
  IN  IF kind = "memory" /\ r.told THEN End(e, r1, "done")
      ELSE IF kind = "aside" \/ retries
           THEN /\ run' = [run EXCEPT ![e] = after]
                /\ log' = [log EXCEPT ![e] = "open"]
                /\ UNCHANGED faults
           ELSE End(e, r1, "failed")

(* The queue without the request at its head, if it is still there.         *)
Answered(q) == IF q = <<>> THEN q ELSE Tail(q)

(* rt_agent_runner_complete_job: the output queues requests and may make    *)
(* progress on a task; a malformed one is repaired by stepping back one     *)
(* phase, or fails the step.  rt_action_runner_complete_job: the terminal   *)
(* of the request is recorded and the request leaves the queue.             *)
Complete(e, j) ==
  LET r == run[e]
  IN  \/ /\ j.kind = "agent" /\ j.st = "finished"
         /\ \E q \in Outputs, p \in BOOLEAN :
              run' = [run EXCEPT ![e] = WakeOk([r EXCEPT !.pending = @ \o q,
                                                         !.progress = @ \/ p], j)]
         /\ log' = [log EXCEPT ![e] = "open"] /\ UNCHANGED faults
      \/ /\ j.kind = "agent" /\ j.st = "finished" /\ Fault
         /\ run' = [run EXCEPT ![e] = WakeOk([r EXCEPT !.phase = @ - 1], j)]
         /\ UNCHANGED log
      \/ /\ j.kind = "agent"
         /\ WakeFailed(e, r, j)
      \/ /\ j.kind = "action"
         /\ run' = [run EXCEPT ![e] = WakeOk([r EXCEPT !.pending = Answered(@)], j)]
         /\ log' = [log EXCEPT ![e] = "open"] /\ UNCHANGED faults
      \/ /\ j.kind = "action" /\ faults < MaxFaults   \* its terminal is not recorded
         /\ WakeFailed(e, r, j)

(* unlink_job: the job list without job i.                                  *)
Unlinked(i) ==
  [k \in 1 .. Len(jobs) - 1 |-> IF k < i THEN jobs[k] ELSE jobs[k + 1]]

PumpJob ==
  /\ pc = "pump" /\ Finished # {}
  /\ \E i \in Finished :
       /\ \A k \in Finished : i <= k
       /\ jobs' = Unlinked(i)
       /\ IF Matches(jobs[i]) THEN Complete(jobs[i].run, jobs[i])
          ELSE UNCHANGED <<run, log, faults>>
  /\ UNCHANGED <<profile, fresh, inbox, refused, runs, heard, pc,
                 cur, adv>>

(* Mutant: nobody wakes the runs that wait for the action slot.             *)
WakeNobody ==
  /\ pc = "pump" /\ Finished = {}
  /\ pc' = "step" /\ cur' = 1 /\ adv' = 0
  /\ UNCHANGED <<profile, fresh, inbox, refused, engine, jobs, faults>>

(* wake_action_slot_waiters, once the pump is dry.                          *)
WakeSlotWaiters ==
  /\ pc = "pump" /\ Finished = {}
  /\ pc' = "step" /\ cur' = 1 /\ adv' = 0
  /\ run' = [e \in Envs |->
               IF ActiveJobs("action") = {} /\ run[e].state = "waiting_slot"
               THEN WaitClear([run[e] EXCEPT !.state = "ready"]) ELSE run[e]]
  /\ UNCHANGED <<profile, fresh, inbox, refused, runs, log, heard,
                 jobs, faults>>

-----------------------------------------------------------------------------
(* step_ready_runs.                                                         *)

(* Mutant: an older run that waits for its job does not count.              *)
SerializedBehindReady(i) ==
  /\ profile.serialize
  /\ \E k \in 1 .. i - 1 : /\ run[runs[k]].state \in {"ready", "running"}
                           /\ Ctx[runs[k]] = Ctx[runs[i]]

(* serialized_behind_older_run: an older run of the context is not over.    *)
Serialized(i) ==
  /\ profile.serialize
  /\ \E k \in 1 .. i - 1 : /\ run[runs[k]].state \notin Terminal
                           /\ Ctx[runs[k]] = Ctx[runs[i]]

Steppable(i) ==
  /\ ~Serialized(i)
  /\ run[runs[i]].state \in {"ready", "running"}
  /\ adv < MaxAdvances

NextRun ==
  /\ pc = "step" /\ cur <= Len(runs) /\ ~Steppable(cur)
  /\ cur' = cur + 1 /\ adv' = 0
  /\ UNCHANGED <<profile, fresh, inbox, refused, engine, jobs, pc, faults>>

Fresh(r) == r.phase = 1 /\ r.state = "ready"

(* begin_advance_if_needed below the cap.                                   *)
Begin(r) ==
  IF Fresh(r) THEN [r EXCEPT !.state = "running", !.advance = @ + 1,
                             !.told = FALSE, !.progress = FALSE]
  ELSE [r EXCEPT !.state = "running"]

(* The loop of step_ready_runs stays with the run, or moves on.             *)
Advanced == adv' = adv + 1 /\ UNCHANGED cur
Leave == adv' = 0 /\ cur' = cur + 1

(* A step that leaves the run alive, with r as its new record.              *)
Goes(e, r) ==
  /\ run' = [run EXCEPT ![e] = r]
  /\ log' = [log EXCEPT ![e] = "open"]

Ends(e, r, state) == End(e, r, state) /\ Leave /\ UNCHANGED <<jobs, heard>>

(* drain_pending_effect, one request per step of the model.  A message is   *)
(* delivered on the spot; a subprocess needs the one action slot.           *)
Emptied(r, implicit) ==
  IF implicit THEN r ELSE [r EXCEPT !.phase = @ + 1]

Popped(e, r, implicit) ==
  LET r1 == [r EXCEPT !.pending = Tail(@)]
  IN  IF r1.pending = <<>> THEN Goes(e, Emptied(r1, implicit)) /\ Advanced
      ELSE Goes(e, r1) /\ UNCHANGED <<adv, cur>>

Drain(e, r, implicit) ==
  \/ /\ r.pending = <<>> /\ Goes(e, Emptied(r, implicit)) /\ Advanced
     /\ UNCHANGED <<jobs, heard, faults>>
  \/ /\ r.pending # <<>> /\ Head(r.pending) = "msg"
     /\ Popped(e, [r EXCEPT !.told = TRUE], implicit)
     /\ heard' = [heard EXCEPT ![e] = @ \cup {"reply"}]
     /\ UNCHANGED <<jobs, faults>>
  \/ /\ r.pending # <<>> /\ Head(r.pending) = "sub" /\ ActiveJobs("action") # {}
     /\ Goes(e, WaitFor(r, "slot", 0)) /\ Leave
     /\ UNCHANGED <<jobs, heard, faults>>
  \/ /\ r.pending # <<>> /\ Head(r.pending) = "sub" /\ ActiveJobs("action") = {}
     /\ \/ /\ jobs' = <<NewJob("action", e, 0)>> \o jobs
           /\ Goes(e, WaitFor(
                Tracked([r EXCEPT !.phase = IF implicit \/ profile.one_pass \/ e \in Exec
                                            THEN @ ELSE 1]), "action", 0))
           /\ Leave /\ UNCHANGED faults
        \/ /\ Fault                       \* action_start_failed, recorded
           /\ Popped(e, r, implicit) /\ UNCHANGED jobs
        \/ /\ faults < MaxFaults          \* action_started is not recorded
           /\ End(e, r, "failed") /\ Leave /\ UNCHANGED jobs
     /\ UNCHANGED heard

(* Mutant: the wait names the step the cursor has moved on to.              *)
LaunchAgentWrongStep(e, r) ==
  /\ jobs' = <<NewJob("agent", e, r.phase)>> \o jobs
  /\ Goes(e, WaitFor(Tracked([r EXCEPT !.phase = @ + 1]), "agent",
                     IF r.phase < Len(Steps) THEN r.phase + 1 ELSE r.phase))
  /\ Leave /\ UNCHANGED <<heard, faults>>

(* rt_agent_runner_start_step for an agent that is a child process: the     *)
(* cursor moves on first, then the run waits for the job.                   *)
LaunchAgent(e, r) ==
  /\ jobs' = <<NewJob("agent", e, r.phase)>> \o jobs
  /\ Goes(e, WaitFor(Tracked([r EXCEPT !.phase = @ + 1]), "agent", r.phase))
  /\ Leave /\ UNCHANGED <<heard, faults>>

(* A native agent runs in the reactor: its output is applied at once.       *)
NativeStep(e, r) ==
  /\ \E q \in Outputs, p \in BOOLEAN :
       Goes(e, [r EXCEPT !.phase = @ + 1, !.pending = @ \o q, !.progress = @ \/ p])
  /\ Advanced /\ UNCHANGED <<jobs, heard, faults>>

(* An agent step that cannot start, or a work gate that cannot be decided.  *)
LaunchFails(e, r) ==
  /\ faults < MaxFaults
  /\ \/ /\ StepAt(r) = "aside" /\ Fault
        /\ Goes(e, [r EXCEPT !.phase = @ + 1]) /\ Advanced
        /\ UNCHANGED <<jobs, heard>>
     \/ /\ StepAt(r) = "memory" /\ r.told /\ Ends(e, r, "done")
     \/ /\ StepAt(r) # "aside" /\ ~(StepAt(r) = "memory" /\ r.told)
        /\ Ends(e, r, "failed")

(* step_gate_skip_reason: memory.after runs after a reply; a work gate asks *)
(* the tasks of the context.                                                *)
Gates(r) ==
  CASE StepAt(r) = "memory" -> {r.told}
    [] StepAt(r) = "gated"  -> BOOLEAN
    [] OTHER                -> {TRUE}

(* finish_advance: at the end of the profile the run ends, or starts over   *)
(* when the pass made progress and its context is actionable.               *)
FinishAdvance(e, r) ==
  \/ Ends(e, r, "done")
  \/ /\ ~profile.one_pass /\ e \notin Exec /\ r.progress
     /\ Goes(e, [r EXCEPT !.phase = 1, !.state = "ready"]) /\ Advanced
     /\ UNCHANGED <<jobs, heard, faults>>

(* rt_run_step_ready.                                                       *)
Perform(e, r) ==
  CASE r.pending # <<>> /\ StepAt(r) # "dispatch" -> Drain(e, r, TRUE)
    [] r.pending = <<>> /\ StepAt(r) = "end"      -> FinishAdvance(e, r)
    [] StepAt(r) = "dispatch"                     -> Drain(e, r, FALSE)
    [] OTHER ->
         \E open \in Gates(r) :
           IF ~open THEN /\ Goes(e, [r EXCEPT !.phase = @ + 1]) /\ Advanced
                         /\ UNCHANGED <<jobs, heard, faults>>
           ELSE \/ StepAt(r) = "native" /\ NativeStep(e, r)
                \/ StepAt(r) # "native" /\ LaunchAgent(e, r)
                \/ LaunchFails(e, r)

StepRun ==
  /\ pc = "step" /\ cur <= Len(runs) /\ Steppable(cur)
  /\ \E e \in Envs :
       /\ e = runs[cur]
       /\ \/ /\ Fresh(run[e]) /\ run[e].advance >= MaxPasses
             /\ Ends(e, run[e], "failed")
          \/ /\ ~(Fresh(run[e]) /\ run[e].advance >= MaxPasses)
             /\ Perform(e, Begin(run[e]))
          \/ /\ faults < MaxFaults           \* snapshot_failed
             /\ Ends(e, run[e], "failed")
  /\ UNCHANGED <<profile, fresh, inbox, refused, runs, pc>>

(* The compaction of s->runs[]: the slots of the runs that are not over, in  *)
(* their order.                                                             *)
Compact(over) ==
  \E n \in 0 .. Len(runs) : \E kept \in [1 .. n -> DOMAIN runs] :
    /\ \A i, k \in 1 .. n : i < k => kept[i] < kept[k]
    /\ \A i \in DOMAIN runs : runs[i] \in over \/ \E k \in 1 .. n : kept[k] = i
    /\ \A k \in 1 .. n : runs[kept[k]] \notin over
    /\ runs' = [k \in 1 .. n |-> runs[kept[k]]]

(* retire_terminal_runs: a failed run tells its origin and the slots are    *)
(* freed.  The archive of completed tasks it may write is task state.       *)
Retire ==
  LET over == {e \in Envs : InPool(e) /\ run[e].state \in Terminal}
  IN  /\ pc = "step" /\ cur > Len(runs)
      /\ pc' = "poll" /\ cur' = 0 /\ adv' = 0
      /\ Compact(over)
      /\ run' = [e \in Envs |-> IF e \in over THEN [Blank EXCEPT !.state = run[e].state]
                                ELSE run[e]]
      /\ heard' = [e \in Envs |-> IF e \in over /\ run[e].state = "failed"
                                  THEN heard[e] \cup {"failure"} ELSE heard[e]]
      /\ UNCHANGED <<profile, fresh, inbox, refused, log, jobs, faults>>

-----------------------------------------------------------------------------
(* The graceful stop: the loop ends after a pass, the runtime module stops  *)
(* the jobs and cancels the runs.                                           *)

ShutdownTerm ==
  /\ pc = "poll" /\ pc' = "draining" /\ cur' = Grace
  /\ jobs' = [i \in DOMAIN jobs |->
                IF jobs[i].st = "running" THEN [jobs[i] EXCEPT !.term = TRUE, !.age = 0]
                ELSE jobs[i]]
  /\ UNCHANGED <<profile, fresh, inbox, refused, engine, adv, faults>>

Running == {i \in DOMAIN jobs : jobs[i].st = "running"}

(* One round of the wait for the jobs to end, within the grace.             *)
ShutdownWait ==
  /\ pc = "draining" /\ Running # {} /\ cur > 0
  /\ cur' = cur - 1
  /\ jobs' = [i \in DOMAIN jobs |-> Ticked(jobs[i])]
  /\ UNCHANGED <<profile, fresh, inbox, refused, engine, pc, adv, faults>>

(* SIGKILL to the jobs still up, and a last round to reap them.             *)
ShutdownKill ==
  /\ pc = "draining" /\ (Running = {} \/ cur = 0)
  /\ pc' = "killing"
  /\ jobs' = [i \in DOMAIN jobs |->
                IF jobs[i].st = "running" /\ jobs[i].child = "run"
                THEN [jobs[i] EXCEPT !.child = "bad"] ELSE jobs[i]]
  /\ UNCHANGED <<profile, fresh, inbox, refused, engine, cur, adv, faults>>

(* Mutant: only the runs that wait for a job are canceled.                  *)
ShutdownForgets ==
  /\ pc = "killing" /\ pc' = "stopped"
  /\ jobs' = [i \in DOMAIN jobs |-> Ticked(jobs[i])]
  /\ run' = [e \in Envs |-> IF run[e].state = "waiting_jobs"
                            THEN [run[e] EXCEPT !.state = "failed"] ELSE run[e]]
  /\ log' = [e \in Envs |-> IF Active(e) THEN "closed" ELSE log[e]]
  /\ runs' = <<>>
  /\ UNCHANGED <<profile, fresh, inbox, refused, heard, cur, adv, faults>>

(* The last round.  What has finished is released unread, and every run     *)
(* that is not over is canceled.                                            *)
ShutdownEnd ==
  /\ pc = "killing" /\ pc' = "stopped"
  /\ jobs' = [i \in DOMAIN jobs |-> Ticked(jobs[i])]
  /\ run' = [e \in Envs |-> IF Active(e) THEN [run[e] EXCEPT !.state = "failed"] ELSE run[e]]
  /\ log' = [e \in Envs |-> IF Active(e) THEN "closed" ELSE log[e]]
  /\ runs' = <<>>
  /\ UNCHANGED <<profile, fresh, inbox, refused, heard, cur, adv, faults>>

Stopped == pc = "stopped" /\ UNCHANGED vars

-----------------------------------------------------------------------------
Init ==
  /\ profile \in Profiles
  /\ fresh = Envs /\ inbox = <<>> /\ refused = {}
  /\ runs = <<>> /\ run = [e \in Envs |-> Blank]
  /\ log = [e \in Envs |-> "none"] /\ heard = [e \in Envs |-> {}]
  /\ jobs = <<>>
  /\ pc = "poll" /\ cur = 0 /\ adv = 0 /\ faults = 0

World ==
  \/ \E e \in Envs : Publish(e) \/ Cancel(e)
  \/ \E i \in DOMAIN jobs : PipeCloses(i) \/ ChildExits(i, "ok") \/ ChildExits(i, "bad")

Pass ==
  \/ JobTick \/ RetryClaims \/ Intake \/ IntakeDone
  \/ PumpJob \/ WakeSlotWaiters \/ NextRun \/ StepRun \/ Retire

Shutdown == ShutdownWait \/ ShutdownKill \/ ShutdownEnd

Next == World \/ Pass \/ ShutdownTerm \/ Shutdown \/ Stopped

Spec == Init /\ [][Next]_vars

(* The reactor thread never stops between two pass boundaries: poll(2) has  *)
(* a timeout and no callback blocks.                                        *)
FairSpec == Spec /\ WF_vars(Pass) /\ WF_vars(Shutdown)

-----------------------------------------------------------------------------
(* Properties.                                                              *)

RunType ==
  [state : {"free", "ready", "running", "waiting_jobs", "waiting_event", "waiting_slot",
            "done", "failed"},
   phase : 1 .. Len(Steps) + 1, advance : 0 .. MaxPasses, attempts : 0 .. profile.retry,
   pending : Seq({"msg", "sub"}), wait : {"none", "agent", "action", "slot"},
   at : 0 .. Len(Steps), waiting : 0 .. 1, told : BOOLEAN, progress : BOOLEAN]

(* Every variable has its type: in particular a run never has more than one *)
(* job in flight, its passes stay within the cap, its retries within the    *)
(* profile's attempts, and the pool never holds more runs than it has slots *)
(* (rt_scheduler_alloc_run, begin_advance_if_needed, wake_run_after_job).   *)
TypeOK ==
  /\ profile \in Profiles /\ fresh \subseteq Envs /\ refused \subseteq Envs
  /\ inbox \in Seq(Envs)
  /\ runs \in Seq(Envs) /\ Len(runs) <= MaxActive
  /\ run \in [Envs -> RunType]
  /\ log \in [Envs -> {"none", "inbound", "open", "closed"}]
  /\ heard \in [Envs -> SUBSET {"reply", "failure"}]
  /\ \A i \in DOMAIN jobs : jobs[i].run \in Envs /\ jobs[i].st \in {"running", "finished", "failed"}
  /\ pc \in {"poll", "claims", "intake", "pump", "step", "draining", "killing",
             "stopped"}
  /\ faults \in 0 .. MaxFaults

(* One action at a time across the whole gateway: no two action children    *)
(* are alive together, though slot holders are canceled, time out, or leave *)
(* a pipe open (rt_jobrunner_count_active at launch).                       *)
OneActionChild ==
  \A i, k \in DOMAIN jobs :
    (/\ jobs[i].kind = "action" /\ jobs[i].child = "run"
     /\ jobs[k].kind = "action" /\ jobs[k].child = "run") => i = k

(* A run that waits for a job has exactly one job whose completion will     *)
(* find it, and a job nobody will be found for belongs to a run that is     *)
(* over: no run waits for nothing, no live run loses a result               *)
(* (rt_scheduler_find_run_for_job against the wait helpers of run.c).       *)
WaitsMatchJobs ==
  pc # "stopped" =>
    /\ \A e \in Envs : InPool(e) /\ run[e].state = "waiting_jobs" =>
         \E i \in DOMAIN jobs : \A k \in DOMAIN jobs :
           (jobs[k].run = e /\ Matches(jobs[k])) <=> k = i
    /\ \A i \in DOMAIN jobs : Matches(jobs[i]) \/ ~Active(jobs[i].run)

(* With serialize_contexts, a run of a context does nothing and has no job  *)
(* while an older run of that context is still active, whatever retirement  *)
(* and compaction do to the order of s->runs[].                             *)
ContextOrder ==
  profile.serialize =>
    \A i, k \in DOMAIN runs :
      (i < k /\ Ctx[runs[i]] = Ctx[runs[k]] /\ Active(runs[i])) =>
        /\ log[runs[k]] # "open"
        /\ \A n \in DOMAIN jobs : jobs[n].run # runs[k]

(* The terminal line of a run is its last: after run_done, run_failed or    *)
(* run_canceled nothing reopens the log, changes the outcome or launches a  *)
(* job for the run, late results of its children included.                  *)
TerminalIsLast ==
  [][\A e \in Envs : log[e] = "closed" =>
       /\ log'[e] = "closed" /\ run'[e].state = run[e].state
       /\ \A i \in DOMAIN jobs' : jobs'[i].run = e => \E k \in DOMAIN jobs : jobs[k].run = e]_vars

Held == \E i \in DOMAIN jobs : jobs[i].child # "run" /\ jobs[i].pipe = "open"

Settled(e) ==
  \/ e \in refused
  \/ ~InPool(e) /\ run[e].state = "done"
  \/ ~InPool(e) /\ run[e].state = "failed" /\ "failure" \in heard[e]

(* Every published envelope is refused, or becomes a run that ends, and a   *)
(* run that fails tells its origin, unless the gateway is stopped: the pool *)
(* frees slots, the action slot is handed on, deadlines and SIGKILL end the *)
(* jobs and the pass cap ends the loops.  It needs the pipes of exited      *)
(* children to close: a grandchild that holds one keeps the job running.    *)
EnvelopesSettle ==
  []<>~Held => \A e \in Envs : (e \notin fresh) ~> (Settled(e) \/ pc = "stopped")

(* A stopped gateway leaves no child behind and no run without an outcome   *)
(* (rt_scheduler_shutdown).                                                 *)
StopLeavesNothing ==
  pc = "stopped" =>
    /\ \A i \in DOMAIN jobs : jobs[i].child # "run"
    /\ \A e \in Envs : run[e].state \in Terminal \cup {"free"}

(* What runtime_kernel.h says of RT_MAX_PROFILE_PASSES: it counts full      *)
(* passes of the profile, so a pass is counted only when the run goes back  *)
(* to the first step with nothing left of the pass before.                  *)
PassesAreFull ==
  [][\A e \in Envs : run'[e].advance > run[e].advance => run[e].pending = <<>>]_vars
=============================================================================
