---------------------------- MODULE ActionLedger ----------------------------
(***************************************************************************)
(* The action ledger of one run: from an agent's action_request to its     *)
(* terminal event, with the effects on the outside in between, and the     *)
(* replay of the run's event log after a kill.                             *)
(*                                                                         *)
(* The profile is: an agent step (phase 0), the action_runner step (phase  *)
(* 1), end of pass (phase 2).  A request id is the event id of its         *)
(* action_request line, so the pending queue, which is filled in log       *)
(* order, is ordered by request id.  A call is an effect signature: agent, *)
(* action, arguments and binding.  (action_runner.c, action_events.c,      *)
(* action_subprocess.c, action_runtime.c, event_log.c, run.c, recovery.c)  *)
(***************************************************************************)
EXTENDS Integers, Sequences, FiniteSets

CONSTANTS Calls,            \* effect signatures
          Messages,         \* the calls of the message action
          Outside,          \* the other calls whose action is outside_world
          OnePass,          \* profile option one_pass
          RetryAttempts,    \* profile option retry_attempts
          RepairBudget,     \* decision_repair_attempts of the agent
          MaxPending,       \* RT_MAX_PENDING_ACTIONS
          MaxCompleted,     \* RT_MAX_COMPLETED_ACTIONS
          MaxPasses,        \* RT_MAX_PROFILE_PASSES
          MaxBatch,         \* bound: requests in one agent output
          MaxRequests,      \* bound: requests of the run
          MaxRids,          \* bound: event ids given to requests
          MaxCrashes,       \* bound: process kills
          MaxFaults,        \* bound: failing calls
          FaultPoints       \* which calls may fail

ASSUME LedgerAssumption ==
  /\ Messages \subseteq Calls
  /\ Outside \subseteq Calls \ Messages
  /\ OnePass \in BOOLEAN
  /\ RetryAttempts \in Nat
  /\ RepairBudget \in Nat
  /\ MaxPending \in Nat
  /\ MaxCompleted \in Nat
  /\ MaxPasses \in Nat
  /\ MaxBatch \in Nat
  /\ MaxRequests \in Nat
  /\ MaxRids \in Nat
  /\ MaxCrashes \in Nat
  /\ MaxFaults \in Nat

Rids == 1..MaxRids
NoRid == 0
Terminals == {"succeeded", "failed", "rejected"}
Verdicts == {"run_done", "run_failed", "run_canceled"}
Entries == [id: Nat,
            type: {"request", "started", "error"} \cup Terminals \cup Verdicts,
            rid: Nat]

VARIABLES
  \* on disk
  log,        \* the run's events.jsonl
  call,       \* the call carried by the action_request of each rid
  ledger,     \* how many lines of deliveries.jsonl name each rid
  saved,      \* phase, advance and status in runstate.json
  repairs,    \* attempt in the next .repair.json marker
  \* outside the gateway
  forks,      \* how many children were started for each rid
  \* in memory
  pend,       \* the pending queue
  done,       \* completed_action_ids
  memo,       \* completed_action_sigs with the rid that completed them
  next,       \* ctx.next_event
  state, phase, advance, attempts, delivered,
  \* control
  pc, cur, todo, noting, pos, upto, verdict,
  \* history and bounds
  forgot,     \* calls whose outcome the cap of the memory dropped
  lost,       \* requests in the log that the run did not take up
  crashes, faults

disk == <<log, call, ledger, saved, repairs>>
queue == <<pend, done, memo>>
cursor == <<state, phase, advance, attempts, delivered>>
control == <<pc, cur, todo, noting, pos, upto, verdict>>
vars == <<disk, forks, queue, next, cursor, control, forgot, lost, crashes, faults>>

Init ==
  /\ log = <<>>
  /\ call = [r \in Rids |-> "none"]
  /\ ledger = [r \in Rids |-> 0]
  /\ saved = [phase |-> 0, advance |-> 0, over |-> FALSE]
  /\ repairs = 0
  /\ forks = [r \in Rids |-> 0]
  /\ pend = [r \in Rids |-> "none"]
  /\ done = {}
  /\ memo = [c \in Calls |-> NoRid]
  /\ next = 1
  /\ state = "ready" /\ phase = 0 /\ advance = 0 /\ attempts = 0
  /\ delivered = FALSE
  /\ pc = "step" /\ cur = NoRid /\ todo = <<>> /\ noting = <<>>
  /\ pos = 1 /\ upto = 0 /\ verdict = "none"
  /\ forgot = {} /\ lost = {} /\ crashes = 0 /\ faults = 0

-----------------------------------------------------------------------------
(* The queue and its memory *)

Fault(point) ==
  /\ point \in FaultPoints
  /\ faults < MaxFaults
  /\ faults' = faults + 1

Requested == {r \in Rids : call[r] # "none"}
Pending == {r \in Rids : pend[r] # "none"}
Queued == {r \in Rids : pend[r] = "queued"}
Least(S) == CHOOSE r \in S : \A q \in S : r <= q

\* rt_action_terminal_add: silently full at the cap
DoneWith(r) ==
  IF r \in done \/ Cardinality(done) < MaxCompleted THEN done \cup {r} ELSE done

Remembered == {c \in Calls : memo[c] # NoRid}

\* rt_action_completed_sig_add: first outcome wins, silently full at the cap
MemoWith(r) ==
  IF memo[call[r]] # NoRid \/ Cardinality(Remembered) >= MaxCompleted
  THEN memo ELSE [memo EXCEPT ![call[r]] = r]

\* the cap makes the run forget the outcome of r's call
Forgets(r) ==
  /\ pend[r] # "none" /\ memo[call[r]] = NoRid
  /\ Cardinality(Remembered) >= MaxCompleted

\* (a variant with a fault: the request stays in the queue)
NoteTerminalKeeping(r) ==
  /\ done' = DoneWith(r)
  /\ memo' = IF pend[r] # "none" THEN MemoWith(r) ELSE memo
  /\ forgot' = IF Forgets(r) THEN forgot \cup {call[r]} ELSE forgot
  /\ UNCHANGED pend

\* rt_action_runner_note_terminal
NoteTerminal(r) ==
  /\ done' = DoneWith(r)
  /\ memo' = IF pend[r] # "none" THEN MemoWith(r) ELSE memo
  /\ pend' = [pend EXCEPT ![r] = "none"]
  /\ forgot' = IF Forgets(r) THEN forgot \cup {call[r]} ELSE forgot

Line(id, type, r) == [id |-> id, type |-> type, rid |-> r]

\* append_event_unchecked: the id is consumed whether or not the line is
\* written
Write(id, type, r) ==
  /\ log' = Append(log, Line(id, type, r))
  /\ next' = id + 1

WriteFails(id, point) ==
  /\ Fault(point)
  /\ next' = id + 1
  /\ UNCHANGED log

\* rt_run_persist_state; set_state ignores its failure
Persist(p, a) ==
  \/ saved' = [saved EXCEPT !.phase = p, !.advance = a] /\ UNCHANGED faults
  \/ Fault("persist") /\ UNCHANGED saved

\* the last logged outcome of r, if memo_read_outcome_by_rid finds one
Outcomes(r) == {i \in 1..Len(log) : /\ log[i].rid = r
                                    /\ log[i].type \in {"succeeded", "failed"}}
Recorded(r) == log[CHOOSE i \in Outcomes(r) : \A j \in Outcomes(r) : j <= i].type

\* rt_action_runner_note_request: what becomes of request r
VerdictOf(r) ==
  CASE pend[r] # "none" -> "keep"
    [] r \in done -> "rejected"
    [] \E q \in Pending : call[q] = call[r] -> "rejected"
    [] memo[call[r]] # NoRid ->
         IF Outcomes(memo[call[r]]) # {} THEN "memo" ELSE "rejected"
    [] Cardinality(Pending) >= MaxPending -> "overflow"
    [] OTHER -> "enqueue"

\* the effects of note_request, with event id `id'; `failed' says that the
\* terminal of a repeated call could not be appended
NoteRequest(r, id, failed) ==
  LET v == VerdictOf(r) IN
  \/ /\ v = "overflow"
     /\ ~failed
     /\ \/ Write(id, "error", NoRid) /\ UNCHANGED faults
        \/ WriteFails(id, "append")
     /\ lost' = lost \cup {r}
     /\ UNCHANGED <<queue, delivered, forgot>>
  \/ /\ v \in {"keep", "enqueue"}
     /\ ~failed
     /\ pend' = [pend EXCEPT ![r] = IF v = "keep" THEN @ ELSE "queued"]
     /\ next' = id
     /\ UNCHANGED <<log, done, memo, delivered, forgot, lost, faults>>
  \/ /\ v \in {"rejected", "memo"}
     /\ ~failed
     /\ LET t == IF v = "memo" THEN Recorded(memo[call[r]]) ELSE "rejected" IN
          /\ Write(id, t, r)
          /\ delivered' = (delivered \/ (t = "succeeded" /\ call[r] \in Messages))
     /\ NoteTerminal(r)
     /\ UNCHANGED <<lost, faults>>
  \/ /\ v \in {"rejected", "memo"}
     /\ failed
     /\ WriteFails(id, "append")
     /\ lost' = lost \cup {r}
     /\ delivered' = (delivered \/ /\ v = "memo"
                                   /\ Recorded(memo[call[r]]) = "succeeded"
                                   /\ call[r] \in Messages)
     /\ UNCHANGED <<queue, forgot>>

-----------------------------------------------------------------------------
(* One step of the run *)

NeedsPass == phase = 0 /\ state = "ready"

\* rt_run_fail, rt_run_finish, rt_run_cancel: the terminal event comes next
Ending(v) == pc' = "end" /\ verdict' = v

\* begin_advance_if_needed at phase zero
BeginPass ==
  /\ pc = "step" /\ NeedsPass
  /\ \/ /\ advance >= MaxPasses
        /\ Ending("run_failed")
        /\ UNCHANGED <<saved, advance, delivered, state, faults>>
     \/ /\ advance < MaxPasses
        /\ advance' = advance + 1
        /\ delivered' = FALSE
        /\ state' = "running"
        /\ Persist(phase, advance + 1)
        /\ UNCHANGED <<pc, verdict>>
  /\ UNCHANGED <<log, call, ledger, repairs, forks, queue, next, phase,
                 attempts, cur, todo, noting, pos, upto, forgot, lost, crashes>>

\* the agent step: its job is started, the cursor moves past it
StartAgent ==
  /\ pc = "step" /\ ~NeedsPass
  /\ phase = 0 /\ Pending = {}
  /\ \/ /\ pc' = "agent" /\ verdict' = verdict
        /\ phase' = 1
        /\ state' = "waiting"
        /\ Persist(1, advance)
     \/ /\ Fault("agent")
        /\ Ending("run_failed")
        /\ UNCHANGED <<phase, state, saved>>
  /\ UNCHANGED <<log, call, ledger, repairs, forks, queue, next, advance,
                 attempts, delivered, cur, todo, noting, pos, upto, forgot, lost,
                 crashes>>

Batches == UNION {[1..n -> Calls] : n \in 0..MaxBatch}

\* the agent's output passed validation; its requests are appended next
AgentAnswers ==
  /\ pc = "agent"
  /\ \E b \in Batches :
       /\ Cardinality(Requested) + Len(b) <= MaxRequests
       /\ next + Len(b) <= MaxRids + 1
       /\ todo' = b
       /\ pc' = IF b = <<>> THEN "note" ELSE "append"
  /\ noting' = <<>>
  /\ UNCHANGED <<disk, forks, queue, next, cursor, cur, pos, upto, verdict,
                 forgot, lost, crashes, faults>>

\* (a variant with a fault: repairs are not counted)
RepairUncounted ==
  /\ phase' = 0
  /\ state' = "running"
  /\ saved' = [saved EXCEPT !.phase = 0]
  /\ pc' = "step"
  /\ UNCHANGED <<repairs, attempts, verdict>>

\* reject_or_repair_decision: the agent is asked again in the same pass
Repair ==
  /\ repairs < RepairBudget
  /\ repairs' = repairs + 1
  /\ phase' = 0
  /\ state' = "running"
  /\ saved' = [saved EXCEPT !.phase = 0]
  /\ pc' = "step"
  /\ UNCHANGED <<attempts, verdict>>

\* reject_or_repair_decision and wake_run_after_job: the job, or the commit of
\* its output, failed
AgentStepFails(malformed) ==
  \/ malformed /\ Repair
  \/ /\ ~(malformed /\ repairs < RepairBudget)
     /\ attempts < RetryAttempts
     /\ attempts' = attempts + 1
     /\ repairs' = 0
     /\ phase' = 0
     /\ state' = "ready"
     /\ saved' = [saved EXCEPT !.phase = 0]
     /\ pc' = "step"
     /\ UNCHANGED verdict
  \/ /\ ~(malformed /\ repairs < RepairBudget)
     /\ attempts >= RetryAttempts
     /\ Ending("run_failed")
     /\ UNCHANGED <<repairs, phase, state, saved, attempts>>

\* the child failed, timed out, or its output was rejected as a whole
AgentFails ==
  /\ pc = "agent"
  /\ \E malformed \in BOOLEAN : AgentStepFails(malformed)
  /\ UNCHANGED <<log, call, ledger, forks, queue, next, advance, delivered,
                 cur, todo, noting, pos, upto, forgot, lost, crashes, faults>>

\* rt_append_events_from_output, second pass
AppendRequest ==
  /\ pc = "append"
  /\ Write(next, "request", next)
  /\ call' = [call EXCEPT ![next] = Head(todo)]
  /\ noting' = Append(noting, next)
  /\ todo' = Tail(todo)
  /\ pc' = IF Len(todo) = 1 THEN "note" ELSE "append"
  /\ UNCHANGED <<ledger, saved, repairs, forks, queue, cursor, cur, pos, upto,
                 verdict, forgot, lost, crashes, faults>>

\* an append fails: the lines already appended stay, and are not noted
AppendRequestFails ==
  /\ pc = "append"
  /\ WriteFails(next, "append")
  /\ AgentStepFails(TRUE)
  /\ todo' = <<>> /\ noting' = <<>>
  /\ lost' = lost \cup {noting[i] : i \in 1..Len(noting)}
  /\ UNCHANGED <<call, ledger, forks, queue, advance, delivered, cur, pos,
                 upto, forgot, crashes>>

\* rt_run_apply_output_events: one request; a failure is ignored
NoteOutput ==
  /\ pc = "note" /\ noting # <<>>
  /\ \E failed \in BOOLEAN : NoteRequest(Head(noting), next, failed)
  /\ noting' = Tail(noting)
  /\ UNCHANGED <<call, ledger, saved, repairs, forks, state, phase, advance,
                 attempts, pc, cur, todo, pos, upto, verdict, crashes>>

\* wake_run_after_job
AgentDone ==
  /\ pc = "note" /\ noting = <<>>
  /\ state' = "running"
  /\ repairs' = 0
  /\ pc' = "step"
  /\ UNCHANGED <<log, call, ledger, saved, forks, queue, next, phase, advance,
                 attempts, delivered, cur, todo, noting, pos, upto, verdict,
                 forgot, lost, crashes, faults>>

-----------------------------------------------------------------------------
(* Launching and ending actions *)

\* drain_pending_effect takes the first request that is not started
Launching(r) ==
  /\ pc = "step" /\ ~NeedsPass
  /\ Queued # {} /\ r = Least(Queued)

\* emit_terminal / emit_rejected of r: the run fails when the line does not
\* reach the log, and goes on in state `s' when it does; `cost' bounds how
\* often an input makes the action end this way
EndAction(r, type, s, cost) ==
  \/ /\ Write(next, type, r)
     /\ NoteTerminal(r)
     /\ state' = s
     /\ pc' = "step"
     /\ cur' = NoRid
     /\ cost
     /\ UNCHANGED verdict
  \/ /\ WriteFails(next, "append")
     /\ Ending("run_failed")
     /\ cur' = NoRid
     /\ UNCHANGED <<queue, state, forgot>>

EndsOnly == <<call, ledger, saved, repairs, forks, phase, advance, attempts,
              delivered, todo, noting, pos, upto, lost, crashes>>

\* validate_pending_action rejects (the arguments, or a work revision that is
\* no longer active), or the call's artefacts or executable are missing before
\* action_started
RefuseAction(r) ==
  /\ Launching(r)
  /\ \/ EndAction(r, "rejected", "running", Fault("input"))
     \/ call[r] \notin Messages /\ EndAction(r, "failed", "running", Fault("input"))
  /\ UNCHANGED EndsOnly

\* rt_action_emit_started: the synchronous claim before any effect
StartAction(r) ==
  /\ Launching(r)
  /\ \/ /\ Write(next, "started", r)
        /\ pend' = [pend EXCEPT ![r] = "started"]
        /\ pc' = (IF call[r] \in Messages THEN "deliver" ELSE "fork")
        /\ cur' = r /\ verdict' = verdict
        /\ UNCHANGED faults
     \/ /\ \/ WriteFails(next, "sync")
           \/ Fault("sync") /\ Write(next, "started", r)
        /\ Ending("run_failed")
        /\ UNCHANGED <<pend, cur>>
  /\ state' = "running"
  /\ UNCHANGED <<call, ledger, saved, repairs, forks, done, memo, phase,
                 advance, attempts, delivered, todo, noting, pos, upto, forgot, lost,
                 crashes>>

\* the rest of rt_action_subprocess_launch, and the wait for the child; at the
\* explicit step of a looping profile the cursor rewinds
ForkChild ==
  /\ pc = "fork"
  /\ forks' = [forks EXCEPT ![cur] = @ + 1]
  /\ phase' = IF phase = 1 /\ ~OnePass THEN 0 ELSE phase
  /\ Persist(phase', advance)
  /\ state' = "waiting"
  /\ pc' = "job"
  /\ UNCHANGED <<log, call, ledger, repairs, queue, next, advance, attempts,
                 delivered, cur, todo, noting, pos, upto, verdict, forgot, lost,
                 crashes>>

\* allocation, configuration, fork or the intrinsic function failed
ForkFails ==
  /\ pc \in {"fork", "deliver"}
  /\ EndAction(cur, "failed", "running", Fault("input"))
  /\ UNCHANGED EndsOnly

\* rt_action_runner_complete_job and wake_run_after_job
JobEnds ==
  /\ pc = "job"
  /\ \E type \in {"succeeded", "failed"} : EndAction(cur, type, "ready", UNCHANGED faults)
  /\ UNCHANGED EndsOnly

\* emit_terminal of a message: the delivery line precedes the terminal; its
\* failure is ignored
Deliver ==
  /\ pc = "deliver"
  /\ \/ ledger' = [ledger EXCEPT ![cur] = @ + 1] /\ UNCHANGED faults
     \/ Fault("deliver") /\ UNCHANGED ledger
  /\ delivered' = TRUE
  /\ pc' = "commit"
  /\ UNCHANGED <<log, call, saved, repairs, forks, queue, next, state, phase,
                 advance, attempts, cur, todo, noting, pos, upto, verdict,
                 forgot, lost, crashes>>

CommitMessage ==
  /\ pc = "commit"
  /\ EndAction(cur, "succeeded", "running", UNCHANGED faults)
  /\ UNCHANGED EndsOnly

\* (a variant with a fault: the cursor moves twice)
AdvancePhaseTwice ==
  /\ pc = "step" /\ ~NeedsPass
  /\ phase = 1 /\ Queued = {}
  /\ phase' = 3
  /\ state' = "running"
  /\ Persist(3, advance)
  /\ UNCHANGED <<log, call, ledger, repairs, forks, queue, next, advance,
                 attempts, delivered, control, forgot, lost, crashes>>

\* the explicit action_runner step with nothing left to launch
AdvancePhase ==
  /\ pc = "step" /\ ~NeedsPass
  /\ phase = 1 /\ Queued = {}
  /\ phase' = 2
  /\ state' = "running"
  /\ Persist(2, advance)
  /\ UNCHANGED <<log, call, ledger, repairs, forks, queue, next, advance,
                 attempts, delivered, control, forgot, lost, crashes>>

\* finish_advance
FinishAdvance ==
  /\ pc = "step"
  /\ phase = 2 /\ Pending = {}
  /\ \/ /\ Ending("run_done")
        /\ UNCHANGED <<phase, state, saved, faults>>
     \/ /\ ~OnePass
        /\ phase' = 0 /\ state' = "ready"
        /\ Persist(0, advance)
        /\ UNCHANGED <<pc, verdict>>
  /\ UNCHANGED <<log, call, ledger, repairs, forks, queue, next, advance,
                 attempts, delivered, cur, todo, noting, pos, upto, forgot, lost,
                 crashes>>

\* rt_scheduler_cancel_origin: the child is killed, its result dropped
Cancel ==
  /\ pc \in {"step", "agent", "job"}
  /\ Fault("cancel")
  /\ Ending("run_canceled")
  /\ cur' = NoRid
  /\ UNCHANGED <<disk, forks, queue, next, cursor, todo, noting, pos, upto,
                 forgot, lost, crashes>>

\* apply_run_terminal_event
EndRun ==
  /\ pc = "end"
  /\ \/ Write(next, verdict, NoRid) /\ UNCHANGED faults
     \/ WriteFails(next, "sync")
     \/ Fault("sync") /\ Write(next, verdict, NoRid)
  /\ pc' = "endsave"
  /\ UNCHANGED <<call, ledger, saved, repairs, forks, queue, cursor, cur, todo,
                 noting, pos, upto, verdict, forgot, lost, crashes>>

SaveEnd ==
  /\ pc = "endsave"
  /\ \/ saved' = [saved EXCEPT !.over = TRUE] /\ UNCHANGED faults
     \/ Fault("persist") /\ UNCHANGED saved
  /\ pc' = "over"
  /\ UNCHANGED <<log, call, ledger, repairs, forks, queue, next, cursor, cur,
                 todo, noting, pos, upto, verdict, forgot, lost, crashes>>

-----------------------------------------------------------------------------
(* Kill and restart *)

EmptyMemory ==
  /\ pend' = [r \in Rids |-> "none"]
  /\ done' = {}
  /\ memo' = [c \in Calls |-> NoRid]
  /\ state' = "ready" /\ phase' = 0 /\ advance' = 0 /\ attempts' = 0
  /\ delivered' = FALSE
  /\ cur' = NoRid /\ todo' = <<>> /\ noting' = <<>>
  /\ pos' = 1 /\ upto' = 0 /\ verdict' = "none"

Crash ==
  /\ pc # "down" /\ crashes < MaxCrashes
  /\ crashes' = crashes + 1
  /\ pc' = "down"
  /\ EmptyMemory /\ UNCHANGED next
  /\ UNCHANGED <<disk, forks, forgot, lost, faults>>

\* startup stops with an error; the next start begins again
Refuse ==
  /\ pc' = "down"
  /\ EmptyMemory

\* collect_candidates, and the beginning of restore_runstate: the log is read
\* as it is now
Boot ==
  /\ pc = "down"
  /\ IF saved.over THEN pc' = "over" /\ UNCHANGED upto
     ELSE pc' = "replay" /\ upto' = Len(log)
  /\ next' = 1
  /\ UNCHANGED <<disk, forks, queue, cursor, cur, todo, noting, pos,
                 verdict, forgot, lost, crashes, faults>>

\* replay_run_log: the counter follows the ids read
Replayed == LET id == log[pos].id IN IF id >= next THEN id + 1 ELSE next

ReplayRequest ==
  /\ pc = "replay" /\ pos <= upto
  /\ log[pos].type = "request"
  /\ \/ /\ NoteRequest(log[pos].rid, Replayed, FALSE)
        /\ pos' = pos + 1
        /\ UNCHANGED <<state, phase, advance, attempts, pc, cur, todo, noting,
                       upto, verdict>>
     \/ /\ VerdictOf(log[pos].rid) \in {"rejected", "memo"}
        /\ WriteFails(Replayed, "append")
        /\ Refuse
        /\ UNCHANGED <<forgot, lost>>
  /\ UNCHANGED <<call, ledger, saved, repairs, forks, crashes>>

ReplayStarted ==
  /\ pc = "replay" /\ pos <= upto
  /\ log[pos].type = "started"
  /\ LET r == log[pos].rid IN
       pend' = [pend EXCEPT ![r] = IF @ = "none" THEN "none" ELSE "started"]
  /\ next' = Replayed
  /\ pos' = pos + 1
  /\ UNCHANGED <<disk, forks, done, memo, cursor, pc, cur, todo, noting, upto,
                 verdict, forgot, lost, crashes, faults>>

\* (a variant with a fault: a rejection is not taken for a terminal)
ReplayTerminalUnrejected ==
  /\ pc = "replay" /\ pos <= upto
  /\ log[pos].type \in Terminals
  /\ IF log[pos].type = "rejected" THEN UNCHANGED <<queue, forgot>>
                                   ELSE NoteTerminal(log[pos].rid)
  /\ delivered' = (delivered \/ /\ log[pos].type = "succeeded"
                                /\ call[log[pos].rid] \in Messages)
  /\ next' = Replayed
  /\ pos' = pos + 1
  /\ UNCHANGED <<disk, forks, state, phase, advance, attempts, pc, cur, todo,
                 noting, upto, verdict, lost, crashes, faults>>

ReplayTerminal ==
  /\ pc = "replay" /\ pos <= upto
  /\ log[pos].type \in Terminals
  /\ NoteTerminal(log[pos].rid)
  /\ delivered' = (delivered \/ /\ log[pos].type = "succeeded"
                                /\ call[log[pos].rid] \in Messages)
  /\ next' = Replayed
  /\ pos' = pos + 1
  /\ UNCHANGED <<disk, forks, state, phase, advance, attempts, pc, cur, todo,
                 noting, upto, verdict, lost, crashes, faults>>

\* the run's end, or a line that says nothing of actions
ReplayOther ==
  /\ pc = "replay" /\ pos <= upto
  /\ log[pos].type \in Verdicts \cup {"error"}
  /\ verdict' = IF log[pos].type \in Verdicts THEN log[pos].type ELSE verdict
  /\ next' = Replayed
  /\ pos' = pos + 1
  /\ UNCHANGED <<disk, forks, queue, cursor, pc, cur, todo, noting, upto,
                 forgot, lost, crashes, faults>>

\* the log is read: a terminal run is only recorded as such
ReplayDone ==
  /\ pc = "replay" /\ pos > upto
  /\ \/ /\ verdict = "none"
        /\ pc' = "reconcile"
        /\ UNCHANGED <<saved, next, queue, cursor, cur, todo, noting, pos,
                       upto, verdict, faults>>
     \/ /\ verdict # "none"
        /\ saved' = [saved EXCEPT !.over = TRUE]
        /\ pc' = "over"
        /\ UNCHANGED <<next, queue, cursor, cur, todo, noting, pos, upto,
                       verdict, faults>>
     \/ /\ verdict # "none" /\ Fault("persist")
        /\ Refuse
        /\ UNCHANGED <<saved, next>>
  /\ UNCHANGED <<log, call, ledger, repairs, forks, forgot, lost, crashes>>

StartedSet == {r \in Rids : pend[r] = "started"}

\* (a variant with a fault: the ledger is not consulted)
DispositionBlind(r) == IF call[r] \in Outside THEN "failed" ELSE "requeue"

\* rt_action_runner_recover_started: what becomes of a started request
Disposition(r) ==
  CASE call[r] \in Messages -> IF ledger[r] > 0 THEN "succeeded" ELSE "requeue"
    [] call[r] \in Outside -> "failed"
    [] OTHER -> "requeue"

RecoverStarted ==
  /\ pc = "reconcile" /\ StartedSet # {}
  /\ LET r == Least(StartedSet)
         d == Disposition(r) IN
     \/ /\ d = "requeue"
        /\ pend' = [pend EXCEPT ![r] = "queued"]
        /\ UNCHANGED <<log, next, done, memo, cursor, pc, cur, todo, noting,
                       pos, upto, verdict, forgot, faults>>
     \/ /\ d # "requeue"
        /\ Write(next, d, r)
        /\ NoteTerminal(r)
        /\ delivered' = (delivered \/ d = "succeeded")
        /\ UNCHANGED <<state, phase, advance, attempts, pc, cur, todo, noting,
                       pos, upto, verdict, faults>>
     \/ /\ d # "requeue" \/ call[r] \in Messages
        /\ WriteFails(next, "append")
        /\ Refuse
        /\ UNCHANGED forgot
  /\ UNCHANGED <<call, ledger, saved, repairs, forks, lost, crashes>>

\* the end of restore_runstate: after a delivery the run goes on at the saved
\* cursor, otherwise the pass is run again
Resume ==
  /\ pc = "reconcile" /\ StartedSet = {}
  /\ \/ /\ \/ /\ delivered
              /\ state' = "running"
              /\ phase' = saved.phase /\ advance' = saved.advance
           \/ /\ ~delivered
              /\ state' = "ready" /\ phase' = 0
              /\ advance' = IF saved.advance > 0 THEN saved.advance - 1 ELSE 0
        /\ saved' = [saved EXCEPT !.phase = phase', !.advance = advance']
        /\ pc' = "step"
        /\ UNCHANGED <<queue, next, attempts, delivered, cur, todo, noting, pos,
                       upto, verdict, faults>>
     \/ /\ Fault("persist")
        /\ Refuse
        /\ UNCHANGED <<saved, next>>
  /\ UNCHANGED <<log, call, ledger, repairs, forks, forgot, lost, crashes>>

-----------------------------------------------------------------------------
Deciding == BeginPass \/ StartAgent \/ AgentAnswers \/ AgentFails
            \/ AppendRequest \/ AppendRequestFails \/ NoteOutput \/ AgentDone
Acting == \/ \E r \in Rids : RefuseAction(r) \/ StartAction(r)
          \/ ForkChild \/ ForkFails \/ JobEnds \/ Deliver \/ CommitMessage
          \/ AdvancePhase
Ends == FinishAdvance \/ EndRun \/ SaveEnd
Restarting == Boot \/ ReplayRequest \/ ReplayStarted \/ ReplayTerminal
              \/ ReplayOther \/ ReplayDone \/ RecoverStarted \/ Resume

Next == Deciding \/ Acting \/ Ends \/ Cancel \/ Crash \/ Restarting

Spec == Init /\ [][Next]_vars

\* The reactor ticks until the run is over, a child exits or is killed at its
\* deadline, and a stopped gateway is started again.
FairSpec == Spec /\ WF_vars(Deciding \/ Acting \/ Ends \/ Restarting)

-----------------------------------------------------------------------------
(* Properties *)

\* The variables hold values of their types; a run never has more than its
\* caps in the queue and in the memory.
TypeOK ==
  /\ log \in Seq(Entries)
  /\ call \in [Rids -> Calls \cup {"none"}]
  /\ ledger \in [Rids -> Nat]
  /\ saved \in [phase: 0..2, advance: Nat, over: BOOLEAN]
  /\ repairs \in Nat
  /\ forks \in [Rids -> Nat]
  /\ pend \in [Rids -> {"none", "queued", "started"}]
  /\ done \subseteq Rids
  /\ memo \in [Calls -> Rids \cup {NoRid}]
  /\ next \in Nat \ {0}
  /\ state \in {"ready", "running", "waiting"}
  /\ phase \in 0..2
  /\ advance \in Nat
  /\ attempts \in Nat
  /\ delivered \in BOOLEAN
  /\ pc \in {"down", "replay", "reconcile", "step", "agent", "append", "note",
             "deliver", "commit", "fork", "job", "end", "endsave", "over"}
  /\ cur \in Rids \cup {NoRid}
  /\ todo \in Seq(Calls)
  /\ noting \in Seq(Rids)
  /\ pos \in Nat \ {0}
  /\ upto \in Nat
  /\ verdict \in Verdicts \cup {"none"}
  /\ forgot \subseteq Calls
  /\ lost \subseteq Rids
  /\ crashes \in Nat
  /\ faults \in Nat

\* One request, one effect: whatever is killed or fails, no request id has two
\* lines in deliveries.jsonl, and no outside-world action is forked twice for
\* one request id (recovery.c and recover_started redo only local actions).
OncePerRequest ==
  \A r \in Requested : ledger[r] <= 1 /\ (call[r] \in Outside => forks[r] <= 1)

\* A call of which the run kept no memory: the cap of 32 outcomes was reached,
\* or one of its requests is in the log and was never taken up.
Unremembered == forgot \cup {call[r] : r \in lost}

\* One call, one effect: within a run equivalent calls are delivered or forked
\* at most once, also over retries, repairs and restarts (the memoisation of
\* note_request), unless the run kept no memory of the call.
OncePerCall ==
  \A q, r \in Requested :
    (q # r /\ call[q] = call[r] /\ call[r] \notin Unremembered) =>
      /\ ledger[q] = 0 \/ ledger[r] = 0
      /\ call[r] \in Outside => (forks[q] = 0 \/ forks[r] = 0)

\* Nothing is done twice, request by request and call by call: what the gates
\* of rt_action_runner and the memoisation of note_request are for.
ActsOnce == OncePerRequest /\ OncePerCall

\* The log never tells two outcomes of one request, although the replay of a
\* repeated call appends its terminal again, unless the run kept no memory of
\* the call.
OutcomesAgree ==
  \A i, j \in 1..Len(log) :
    (/\ log[i].type \in Terminals /\ log[j].type \in Terminals
     /\ log[i].rid = log[j].rid
     /\ call[log[i].rid] \notin Unremembered) => log[i].type = log[j].type

Ended(r) == \E i \in 1..Len(log) : log[i].rid = r /\ log[i].type \in Terminals

\* A run that reports run_done has told the outcome of every request it
\* logged, except those dropped at the cap of the queue, cut off by a failing
\* append, or refused as duplicates in a line that could not be written.
DoneMeansTold ==
  (\E i \in 1..Len(log) : log[i].type = "run_done") =>
    \A r \in Requested \ lost : Ended(r)

\* The log tells the truth about the requests of a run: never two outcomes of
\* one, and before run_done one of each.
TruthIsTold == OutcomesAgree /\ DoneMeansTold

\* A run at its step machine never holds a started request: the drain loop
\* would skip it and the run would stay where it is for ever.
NothingStranded == pc = "step" => StartedSet = {}

\* Every run comes to its end: the pass cap bounds the loop, whatever the
\* agents ask for and wherever the gateway is killed.
RunEnds == <>[](pc = "over")

=============================================================================
