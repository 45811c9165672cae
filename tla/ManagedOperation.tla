-------------------------- MODULE ManagedOperation --------------------------
(***************************************************************************)
(* Managed operations: how one long-running action gets exactly one        *)
(* operation_result, whoever ends it first: the action itself, its         *)
(* detached worker, an abort, or the deadline.                             *)
(*                                                                         *)
(* The gate is the operation store: a result is appended to a run's event  *)
(* log and the reducer then flips the record to finished.  A worker's or   *)
(* the deadline's claim travels over the bus, is admitted only while the   *)
(* record is running, and becomes the first event of its own claim run.    *)
(* (operation_driver.c, operation_state.c, ports.c, recovery.c,            *)
(* action_runner.c, janitor_module.c)                                      *)
(*                                                                         *)
(* The gateway is one thread, killed between any two file-system effects;  *)
(* workers are processes of their own and outlive it.                      *)
(***************************************************************************)
EXTENDS Integers, FiniteSets

CONSTANTS Ops,          \* managed calls, by stable request id
          Detached,     \* those that hand their work to a detached worker
          Outside,      \* those whose action declares outside_world
          Bound,        \* those bound to a work revision
          KeepFinished, \* appliance.operations.keep_finished
          MaxItems,     \* OPERATION_MAX_ITEMS
          MaxClaims,    \* bound: envelope ids
          MaxWorkerClaims, \* bound: claims of workers and aborts
          MaxBirths,    \* bound: records ever inserted
          MaxCrashes, MaxShutdowns, MaxFaults, \* bounds
          FaultPoints   \* which file-system calls may fail

ASSUME OperationAssumption ==
  /\ "nobody" \notin Ops
  /\ Detached \subseteq Ops /\ Outside \subseteq Ops /\ Bound \subseteq Ops
  /\ KeepFinished \in Nat \ {0} /\ MaxItems \in Nat \ {0}
  /\ MaxClaims \in Nat /\ MaxWorkerClaims \in Nat /\ MaxBirths \in Nat
  /\ MaxCrashes \in Nat /\ MaxShutdowns \in Nat /\ MaxFaults \in Nat

Claims == 1..MaxClaims
Nobody == "nobody"
Tokens == 0..MaxBirths   \* a capability, numbered by its record; 0: none
NoClaim == [op |-> Nobody, cause |-> "none", tok |-> 0]

VARIABLES
  \* the operation store (operations.json)
  store,     \* status of each record
  birth,     \* insertion order of the records
  births,
  token,     \* completion_token of each record
  handle,    \* the record holds the worker's own handle
  timer,     \* claim_envelope_id: the deadline's reserved envelope
  \* the event logs
  acts,      \* what the producing run's log says of the action
  results,   \* operation_result events committed, over all runs
  first,     \* first event of each claim run
  \* the bus and the claim runs
  env, sent, inbox, processed, crun,
  \* the outside
  worker,    \* <<operation, token>> of every detached worker
  \* memory
  job, mem, todo,
  \* control: where the thread is, what it works on, where it goes back to
  pc, cur, claim, out, back,
  \* history
  lapse,     \* why the gate was open although a result was on its way
  closed,    \* records closed without a result
  \* bounds
  crashes, shutdowns, faults

storeVars == <<store, birth, births, token, handle, timer>>
logVars == <<acts, results, first>>
busVars == <<env, sent, inbox, processed, crun>>
memory == <<job, mem, todo>>
control == <<pc, cur, claim, out, back>>
history == <<lapse, closed>>
stops == <<crashes, shutdowns>>
bounds == <<crashes, shutdowns, faults>>
vars == <<storeVars, logVars, busVars, worker, memory, control, history, bounds>>

Init ==
  /\ store = [o \in Ops |-> "none"] /\ birth = [o \in Ops |-> 0] /\ births = 0
  /\ token = [o \in Ops |-> 0] /\ handle = [o \in Ops |-> FALSE]
  /\ timer = [o \in Ops |-> 0]
  /\ acts = [o \in Ops |-> "requested"] /\ results = [o \in Ops |-> 0]
  /\ first = [c \in Claims |-> "none"]
  /\ env = [c \in Claims |-> NoClaim] /\ sent = 0
  /\ inbox = {} /\ processed = {} /\ crun = [c \in Claims |-> "none"]
  /\ worker = {}
  /\ job = [o \in Ops |-> "queued"] /\ mem = [c \in Claims |-> "none"]
  /\ todo = {}
  /\ pc = "up" /\ cur = Nobody /\ claim = 0 /\ out = "none" /\ back = "up"
  /\ lapse = [o \in Ops |-> {}] /\ closed = {}
  /\ crashes = 0 /\ shutdowns = 0 /\ faults = 0

\* A failing call: `point' names it.  After "append" nothing is written,
\* after "sync" the whole line is and the call still reports an error.
Fault(point) ==
  /\ point \in FaultPoints /\ faults < MaxFaults /\ faults' = faults + 1

Idle == cur' = Nobody /\ claim' = 0 /\ out' = "none"
Return == pc' = back /\ Idle /\ UNCHANGED back
Goto(where) == pc' = where /\ UNCHANGED <<cur, claim, out, back>>
Fail == pc' = "terminal" /\ out' = "failed" /\ UNCHANGED <<cur, claim, back>>
Call(where, o, outcome, returnTo) ==
  pc' = where /\ cur' = o /\ out' = outcome /\ back' = returnTo /\ UNCHANGED claim
CallFor(where, c, returnTo) ==
  pc' = where /\ claim' = c /\ back' = returnTo /\ UNCHANGED <<cur, out>>

-----------------------------------------------------------------------------
(* The store *)

Finished(s) == {o \in Ops : s[o] = "finished"}

OldestFinished(o, s) ==
  o \in Finished(s) /\ \A p \in Finished(s) : birth[o] <= birth[p]

\* write_store of the records s without those of `gone'
Write(s, gone) ==
  /\ store' = [o \in Ops |-> IF o \in gone THEN "none" ELSE s[o]]
  /\ token' = [o \in Ops |-> IF o \notin gone /\ s[o] = "running"
                             THEN token[o] ELSE 0]
  /\ handle' = [o \in Ops |-> handle[o] /\ o \notin gone]
  /\ timer' = [o \in Ops |-> IF o \in gone THEN 0 ELSE timer[o]]
  /\ lapse' = [o \in Ops |-> IF o \in gone THEN lapse[o] \cup {"purged"}
                             ELSE lapse[o]]

\* purge_finished_over_cap: the oldest finished records go
OverCap(s, gone) ==
  IF Cardinality(Finished(s)) > KeepFinished
  THEN \E o \in Ops : OldestFinished(o, s) /\ gone = {o}
  ELSE gone = {}

\* the reducer of operation_result; a finished record is left as it is
Finish(o) ==
  IF store[o] = "running"
  THEN /\ \E gone \in SUBSET Ops :
            LET s == [store EXCEPT ![o] = "finished"]
            IN  OverCap(s, gone) /\ Write(s, gone)
       /\ UNCHANGED <<birth, births>>
  ELSE UNCHANGED <<storeVars, lapse>>

\* rt_operation_close_without_result
CloseWithoutResult(o) ==
  /\ Finish(o)
  /\ closed' = IF store[o] = "running" THEN closed \cup {o} ELSE closed

\* the reducer of operation_started: a full table recycles a finished record
\* or refuses
Insert(o) ==
  /\ births < MaxBirths
  /\ births' = births + 1 /\ birth' = [birth EXCEPT ![o] = births + 1]
  /\ \E gone, over \in SUBSET Ops :
       LET present == {p \in Ops : store[p] # "none"}
           s == [store EXCEPT ![o] = "running"]
       IN  /\ IF Cardinality(present) >= MaxItems
              THEN \E p \in Ops : OldestFinished(p, store) /\ gone = {p}
              ELSE gone = {}
           /\ OverCap([p \in Ops |-> IF p \in gone THEN "none" ELSE s[p]], over)
           /\ Write(s, gone \cup over)

Full == /\ Cardinality({p \in Ops : store[p] # "none"}) >= MaxItems
        /\ Finished(store) = {}

-----------------------------------------------------------------------------
(* The producing run (operation_driver.c, action_events.c) *)

\* emit_started; a failing append fails the run
StartAction(o) ==
  /\ pc = "up" /\ job[o] = "queued"
  /\ \/ /\ acts' = [acts EXCEPT ![o] = "started"]
        /\ Call("alloc", o, "none", "up") /\ UNCHANGED <<job, faults>>
     \/ /\ Fault("append")
        /\ acts' = [acts EXCEPT ![o] = "closed"]
        /\ job' = [job EXCEPT ![o] = "done"]
        /\ UNCHANGED control
  /\ UNCHANGED <<storeVars, results, first, busVars, worker, mem, todo, history, stops>>

\* a request refused by validation never starts
RejectAction(o) ==
  /\ pc = "up" /\ job[o] = "queued"
  /\ Call("terminal", o, "failed", "up")
  /\ UNCHANGED <<storeVars, logVars, busVars, worker, memory, history, bounds>>

\* rt_operation_allocate_for_call, first half: an existing record is reused
Allocate ==
  /\ pc = "alloc"
  /\ \/ /\ store[cur] = "finished" \/ (store[cur] = "running" /\ token[cur] # 0)
        /\ Goto("launch") /\ UNCHANGED <<storeVars, history, faults>>
     \/ /\ store[cur] = "running" /\ token[cur] = 0
        /\ Goto("bind") /\ UNCHANGED <<storeVars, history, faults>>
     \/ /\ store[cur] = "none" /\ ~Full
        /\ Insert(cur) /\ Goto("bind") /\ UNCHANGED <<closed, faults>>
     \/ /\ store[cur] = "none"
        /\ \/ Full /\ UNCHANGED faults
           \/ Fault("store")
        /\ Fail
        /\ UNCHANGED <<storeVars, history>>
  /\ UNCHANGED <<logVars, busVars, worker, memory, stops>>

\* second half: rt_operation_bind_secret.  The driver allocates too, for an
\* action that failed before it had a record.
BindSecret ==
  /\ pc = "bind"
  /\ \/ /\ token' = [token EXCEPT ![cur] = birth[cur]]
        /\ Goto(IF out = "failed" THEN "drive" ELSE "launch") /\ UNCHANGED faults
     \/ /\ Fault("store") /\ UNCHANGED token
        /\ IF out = "failed" THEN Return
           ELSE Fail
  /\ UNCHANGED <<store, birth, births, handle, timer, logVars, busVars, worker,
                 memory, history, stops>>

\* the child starts, a detached one forks its worker with the capability; or
\* the process cannot be started
Launch ==
  /\ pc = "launch"
  /\ \/ /\ job' = [job EXCEPT ![cur] = "running"]
        /\ worker' = IF cur \in Detached /\ token[cur] # 0
                     THEN worker \cup {<<cur, token[cur]>>} ELSE worker
        /\ Return
     \/ Fail /\ UNCHANGED <<job, worker>>
  /\ UNCHANGED <<storeVars, logVars, busVars, mem, todo, history, bounds>>

Outcomes(o) == IF o \in Detached THEN {"running", "failed"}
               ELSE {"finished", "failed"}

\* rt_action_runner_complete_job
CompleteJob(o) ==
  /\ pc = "up" /\ job[o] = "running"
  /\ \E outcome \in Outcomes(o) : Call("terminal", o, outcome, "up")
  /\ UNCHANGED <<storeVars, logVars, busVars, worker, memory, history, bounds>>

\* rt_action_emit_terminal: the terminal event, then the driver.  A bound
\* recovery blocker is written without the driver.
AppendTerminal ==
  /\ pc = "terminal"
  /\ \/ /\ acts' = [acts EXCEPT ![cur] = "closed"]
        /\ job' = [job EXCEPT ![cur] = "done"]
        /\ IF out = "blocked" THEN Return ELSE Goto("drive")
        /\ UNCHANGED faults
     \/ /\ Fault("append")
        /\ IF back = "recover"
           THEN Goto("refused") /\ UNCHANGED <<acts, job>>
           ELSE /\ acts' = [acts EXCEPT ![cur] = "closed"]
                /\ job' = [job EXCEPT ![cur] = "done"] /\ Return
  /\ UNCHANGED <<storeVars, results, first, busVars, worker, mem, todo, history, stops>>

\* rt_operation_driver_on_terminal
Drive ==
  /\ pc = "drive"
  /\ \/ /\ \/ store[cur] = "finished"
           \/ store[cur] = "none" /\ (out # "failed" \/ cur \in Bound)
        /\ Return /\ UNCHANGED <<storeVars, history, faults>>
     \/ /\ out = "failed" /\ cur \in Bound /\ store[cur] = "running"
        /\ \/ CloseWithoutResult(cur) /\ UNCHANGED faults
           \/ Fault("store") /\ UNCHANGED <<storeVars, history>>
        /\ Return
     \/ /\ out = "failed" /\ cur \notin Bound /\ store[cur] = "none"
        /\ \/ /\ ~Full /\ Insert(cur) /\ Goto("bind")
              /\ UNCHANGED <<closed, faults>>
           \/ /\ (Full /\ UNCHANGED faults) \/ Fault("store")
              /\ Return /\ UNCHANGED <<storeVars, history>>
     \/ /\ out = "running" /\ store[cur] = "running"
        /\ \/ handle' = [handle EXCEPT ![cur] = TRUE] /\ UNCHANGED faults
           \/ Fault("store") /\ UNCHANGED handle
        /\ Return /\ UNCHANGED <<store, birth, births, token, timer, history>>
     \/ /\ store[cur] = "running"
        /\ (out = "finished") \/ (out = "failed" /\ cur \notin Bound)
        /\ Goto("result") /\ UNCHANGED <<storeVars, history, faults>>
  /\ UNCHANGED <<logVars, busVars, worker, memory, stops>>

\* A faulty variant: the store is flipped before the result is written.
AppendResultAfterFlip ==
  /\ pc = "result"
  /\ IF store[cur] = "running"
     THEN Finish(cur) /\ UNCHANGED <<results, control>>
     ELSE /\ results' = [results EXCEPT ![cur] = @ + 1]
          /\ Return /\ UNCHANGED <<storeVars, lapse>>
  /\ UNCHANGED <<acts, first, busVars, worker, memory, closed, bounds>>

\* terminalize_in_run: the outbox record (which may fail), then the result
AppendResult ==
  /\ pc = "result"
  /\ \/ /\ results' = [results EXCEPT ![cur] = @ + 1]
        /\ Goto("flip") /\ UNCHANGED <<lapse, faults>>
     \/ Fault("append") /\ Return /\ UNCHANGED <<results, lapse>>
     \/ /\ Fault("sync") /\ Return
        /\ results' = [results EXCEPT ![cur] = @ + 1]
        /\ lapse' = [lapse EXCEPT ![cur] = @ \cup {"reducer"}]
  /\ UNCHANGED <<storeVars, acts, first, busVars, worker, memory, closed, stops>>

\* the reducer inside rt_append_event; its failure is only reported
Flip ==
  /\ pc = "flip"
  /\ \/ Finish(cur) /\ UNCHANGED faults
     \/ /\ Fault("store") /\ UNCHANGED storeVars
        /\ lapse' = [lapse EXCEPT ![cur] = @ \cup {"reducer"}]
  /\ Return
  /\ UNCHANGED <<logVars, busVars, worker, memory, closed, stops>>

-----------------------------------------------------------------------------
(* Claims: workers, aborts and deadlines publish, in any process *)

Published(c) == c \in inbox \cup processed
WorkerClaims == {c \in Claims : env[c].cause = "worker"}

Publish(c, o, cause, tok) ==
  /\ env' = [env EXCEPT ![c] = [op |-> o, cause |-> cause, tok |-> tok]]
  /\ inbox' = inbox \cup {c}
  /\ UNCHANGED <<processed, crun>>

\* rt_operation_publish_worker_claim, from a detached worker
WorkerClaim(w) ==
  /\ w \in worker /\ Cardinality(WorkerClaims) < MaxWorkerClaims
  /\ sent < MaxClaims /\ sent' = sent + 1
  /\ Publish(sent + 1, w[1], "worker", w[2])
  /\ UNCHANGED <<storeVars, logVars, worker, memory, control, history, bounds>>

\* rt_operation_submit_abort_claim, from the gateway
AbortClaim(o) ==
  /\ pc = "up" /\ Cardinality(WorkerClaims) < MaxWorkerClaims
  /\ store[o] = "running" /\ handle[o] /\ token[o] # 0
  /\ sent < MaxClaims /\ sent' = sent + 1
  /\ Publish(sent + 1, o, "worker", token[o])
  /\ UNCHANGED <<storeVars, logVars, worker, memory, control, history, bounds>>

\* publish_timeout_claim: reserve an id once and bind it to the record
PumpReserve(o) ==
  /\ pc = "up" /\ store[o] = "running" /\ timer[o] = 0
  /\ sent < MaxClaims /\ sent' = sent + 1
  /\ \/ /\ timer' = [timer EXCEPT ![o] = sent + 1]
        /\ Call("pump", o, "none", "up") /\ UNCHANGED faults
     \/ Fault("store") /\ UNCHANGED <<timer, control>>
  /\ UNCHANGED <<store, birth, births, token, handle, logVars, env, inbox,
                 processed, crun, worker, memory, history, stops>>

\* A faulty variant: a bound id is taken for a published one.
PumpAgainNever(o) == FALSE /\ pc = "up" /\ store[o] = "running" /\ UNCHANGED vars

\* the deadline is due again and its claim is not on the bus
PumpAgain(o) ==
  /\ pc = "up" /\ store[o] = "running" /\ timer[o] # 0 /\ ~Published(timer[o])
  /\ Call("pump", o, "none", "up")
  /\ UNCHANGED <<storeVars, logVars, busVars, worker, memory, history, bounds>>

PumpPublish ==
  /\ pc = "pump"
  /\ \/ Publish(timer[cur], cur, "timeout", token[cur]) /\ UNCHANGED <<sent, faults>>
     \/ Fault("publish") /\ UNCHANGED busVars
  /\ Return
  /\ UNCHANGED <<storeVars, logVars, worker, memory, history, stops>>

\* A faulty variant: a finished record still admits.
AdmissibleAlways(c) == store[env[c].op] # "none"

\* completion_claim_disposition = NULL
Admissible(c) ==
  LET o == env[c].op
  IN  /\ store[o] = "running"
      /\ \/ env[c].tok = token[o] /\ token[o] # 0
         \/ env[c].cause = "timeout" /\ token[o] = 0

-----------------------------------------------------------------------------
(* Intake (ports.c): waiting claim runs are retried first, then a batch *)

BeginIntake ==
  /\ pc = "up"
  /\ inbox # {} \/ \E c \in Claims : mem[c] = "waiting"
  /\ todo' = {c \in Claims : mem[c] = "waiting"}
  /\ Goto("claims")
  /\ UNCHANGED <<storeVars, logVars, busVars, worker, job, mem, history, bounds>>

\* retry_waiting_inbound_claims: the record must still be there
RetryClaim(c) ==
  /\ pc = "claims" /\ c \in todo /\ todo' = todo \ {c}
  /\ IF mem[c] = "waiting" /\ c \in processed /\ store[env[c].op] # "none"
     THEN CallFor("commit", c, "claims") ELSE UNCHANGED control
  /\ UNCHANGED <<storeVars, logVars, busVars, worker, job, mem, history, bounds>>

EndRetries ==
  /\ pc = "claims" /\ todo = {} /\ Goto("batch")
  /\ UNCHANGED <<storeVars, logVars, busVars, worker, memory, history, bounds>>

\* bus_drain_inbox renames the oldest envelope before intake sees it
Take ==
  /\ pc = "batch" /\ inbox # {}
  /\ \E c \in inbox :
       /\ \A d \in inbox : c <= d
       /\ inbox' = inbox \ {c} /\ processed' = processed \cup {c}
       /\ CallFor("admit", c, "batch")
  /\ UNCHANGED <<storeVars, logVars, env, sent, crun, worker, memory, history, bounds>>

EndBatch ==
  /\ pc = "batch" /\ pc' = "up" /\ back' = "up" /\ UNCHANGED <<cur, claim, out>>
  /\ UNCHANGED <<storeVars, logVars, busVars, worker, memory, history, bounds>>

\* create_run_from_envelope: reject, or persist the claim run
Admit ==
  /\ pc = "admit"
  /\ \/ ~Admissible(claim) /\ Return /\ UNCHANGED <<crun, mem, first, faults>>
     \/ /\ Admissible(claim) /\ Fault("persist")
        /\ Return /\ UNCHANGED <<crun, mem, first>>
     \/ /\ Admissible(claim)
        /\ crun' = [crun EXCEPT ![claim] = "live"]
        /\ mem' = [mem EXCEPT ![claim] = "waiting"]
        /\ first' = [first EXCEPT ![claim] = "none"]
        /\ Goto("commit") /\ UNCHANGED faults
  /\ UNCHANGED <<storeVars, acts, results, env, sent, inbox, processed, worker, job, todo,
                 history, stops>>

\* commit_inbound_event: the claim run's first event is the operation_result
CommitClaim ==
  /\ pc = "commit"
  /\ LET o == env[claim].op
         Committed == /\ results' = [results EXCEPT ![o] = @ + 1]
                      /\ first' = [first EXCEPT ![claim] =
                                     IF handle[o] THEN "named" ELSE "bare"]
     IN  \/ Committed /\ Goto("cflip") /\ UNCHANGED <<mem, lapse, faults>>
         \/ /\ Fault("sync") /\ Committed
            /\ mem' = [mem EXCEPT ![claim] = "ready"]
            /\ lapse' = [lapse EXCEPT ![o] = @ \cup {"reducer"}] /\ Return
         \/ /\ Fault("append") /\ UNCHANGED <<results, first, mem>>
            /\ lapse' = [lapse EXCEPT ![o] = @ \cup {"deferred"}]
            /\ IF back = "recover" THEN Goto("refused") ELSE Return
  /\ UNCHANGED <<storeVars, acts, busVars, worker, job, todo, closed, stops>>

FlipClaim ==
  /\ pc = "cflip"
  /\ \/ Finish(env[claim].op) /\ UNCHANGED faults
     \/ /\ Fault("store") /\ UNCHANGED storeVars
        /\ lapse' = [lapse EXCEPT ![env[claim].op] = @ \cup {"reducer"}]
  /\ mem' = [mem EXCEPT ![claim] = "ready"] /\ Return
  /\ UNCHANGED <<logVars, busVars, worker, job, todo, closed, stops>>

-----------------------------------------------------------------------------
(* Ends of runs, retention, crashes and restarts *)

\* the claim run completes
EndRun(c) ==
  /\ pc = "up" /\ mem[c] = "ready"
  /\ mem' = [mem EXCEPT ![c] = "none"] /\ crun' = [crun EXCEPT ![c] = "over"]
  /\ UNCHANGED <<storeVars, logVars, env, sent, inbox, processed, worker, job, todo,
                 control, history, bounds>>

\* rt_scheduler_cancel_origin reaches a claim run that still waits for its
\* first event; the envelope stays claimed by a terminal run
CancelRun(c) ==
  /\ pc = "up" /\ mem[c] = "waiting"
  /\ shutdowns < MaxShutdowns /\ shutdowns' = shutdowns + 1
  /\ mem' = [mem EXCEPT ![c] = "none"] /\ crun' = [crun EXCEPT ![c] = "over"]
  /\ UNCHANGED <<storeVars, logVars, env, sent, inbox, processed, worker, job, todo,
                 control, history, crashes, faults>>

\* task_runs_prune removes the directory of a finished run
PruneRun(c) ==
  /\ pc = "up" /\ crun[c] = "over" /\ crun' = [crun EXCEPT ![c] = "none"]
  /\ UNCHANGED <<storeVars, logVars, env, sent, inbox, processed, worker, memory,
                 control, history, bounds>>

\* task_bus_processed_prune keeps a claim whose record is running or unknown
PruneEnvelope(c) ==
  /\ pc = "up" /\ c \in processed /\ store[env[c].op] = "finished"
  /\ processed' = processed \ {c}
  /\ UNCHANGED <<storeVars, logVars, env, sent, inbox, crun, worker, memory,
                 control, history, bounds>>

\* rt_ports_reconcile_orphaned_claims
Requeue(c) ==
  /\ pc = "up" /\ c \in processed /\ Admissible(c) /\ crun[c] = "none"
  /\ processed' = processed \ {c} /\ inbox' = inbox \cup {c}
  /\ UNCHANGED <<storeVars, logVars, env, sent, crun, worker, memory,
                 control, history, bounds>>

\* the operation whose result is written but not yet in the store, and the
\* one whose admitted claim is not yet written
InFlight == CASE pc = "flip" -> {<<cur, "reducer">>}
              [] pc = "cflip" -> {<<env[claim].op, "reducer">>}
              [] pc = "commit" -> {<<env[claim].op, "deferred">>}
              [] OTHER -> {}

Crash ==
  /\ pc \notin {"down", "refused"} /\ crashes < MaxCrashes /\ crashes' = crashes + 1
  /\ job' = [o \in Ops |-> IF acts[o] = "closed" THEN "done" ELSE "lost"]
  /\ mem' = [c \in Claims |-> IF crun[c] = "live" THEN "lost" ELSE "none"]
  /\ todo' = {}
  /\ pc' = "down" /\ back' = "recover" /\ Idle
  /\ lapse' = [o \in Ops |-> lapse[o] \cup {k \in {"reducer", "deferred"} :
                                              <<o, k>> \in InFlight}]
  /\ UNCHANGED <<storeVars, logVars, busVars, worker, closed, shutdowns, faults>>

\* rt_scheduler_shutdown cancels every active run
Shutdown ==
  /\ pc = "up" /\ shutdowns < MaxShutdowns /\ shutdowns' = shutdowns + 1
  /\ acts' = [o \in Ops |-> "closed"] /\ job' = [o \in Ops |-> "done"]
  /\ crun' = [c \in Claims |-> IF mem[c] # "none" THEN "over" ELSE crun[c]]
  /\ mem' = [c \in Claims |-> "none"] /\ todo' = {}
  /\ pc' = "down" /\ back' = "recover" /\ Idle
  /\ UNCHANGED <<storeVars, results, first, env, sent, inbox, processed, worker,
                 history, crashes, faults>>

Boot ==
  /\ pc = "down" /\ Goto("recover")
  /\ UNCHANGED <<storeVars, logVars, busVars, worker, memory, history, bounds>>

\* rt_action_runner_recover_started: an outside-world action is not repeated,
\* its record is closed and a terminal follows; any other is queued again
RecoverAction(o) ==
  /\ pc = "recover" /\ job[o] = "lost"
  /\ IF acts[o] = "started" /\ o \in Outside
     THEN /\ \/ CloseWithoutResult(o) /\ UNCHANGED faults
             \/ Fault("store") /\ UNCHANGED <<storeVars, history>>
          /\ \E outcome \in {"failed"} \cup (IF o \in Bound THEN {"blocked"} ELSE {}) :
               Call("terminal", o, outcome, "recover")
          /\ UNCHANGED job
     ELSE /\ job' = [job EXCEPT ![o] = "queued"]
          /\ UNCHANGED <<storeVars, history, faults, control>>
  /\ UNCHANGED <<logVars, busVars, worker, mem, todo, stops>>

\* restore_runstate of a claim run, after the older producing runs: it needs
\* its envelope, its record and, if there is one, the exact first event
RecoverClaim(c) ==
  /\ pc = "recover" /\ mem[c] = "lost" /\ job[env[c].op] # "lost"
  /\ LET o == env[c].op
         restored == /\ c \in processed /\ store[o] # "none"
                     /\ first[c] \in {"none", IF handle[o] THEN "named" ELSE "bare"}
     IN  \/ /\ ~restored /\ Goto("refused") /\ UNCHANGED mem
         \/ /\ restored /\ first[c] = "none"
            /\ mem' = [mem EXCEPT ![c] = "waiting"]
            /\ CallFor("commit", c, "recover")
         \/ /\ restored /\ first[c] # "none"
            /\ mem' = [mem EXCEPT ![c] = "ready"] /\ UNCHANGED control
  /\ UNCHANGED <<storeVars, logVars, busVars, worker, job, todo, history, bounds>>

EndRecovery ==
  /\ pc = "recover"
  /\ \A o \in Ops : job[o] # "lost" /\ \A c \in Claims : mem[c] # "lost"
  /\ pc' = "up" /\ back' = "up" /\ UNCHANGED <<cur, claim, out>>
  /\ UNCHANGED <<storeVars, logVars, busVars, worker, memory, history, bounds>>

-----------------------------------------------------------------------------
Producing ==
  \/ \E o \in Ops : StartAction(o) \/ RejectAction(o) \/ CompleteJob(o)
  \/ Allocate \/ BindSecret \/ Launch \/ AppendTerminal \/ Drive
  \/ AppendResult \/ Flip

Claiming ==
  \/ \E w \in worker : WorkerClaim(w)
  \/ \E o \in Ops : AbortClaim(o) \/ PumpReserve(o) \/ PumpAgain(o)
  \/ PumpPublish

Intake ==
  \/ BeginIntake \/ EndRetries \/ Take \/ EndBatch \/ Admit \/ CommitClaim \/ FlipClaim
  \/ \E c \in Claims : RetryClaim(c)

Retention ==
  \E c \in Claims :
    EndRun(c) \/ CancelRun(c) \/ PruneRun(c) \/ PruneEnvelope(c) \/ Requeue(c)

Restarting ==
  \/ Crash \/ Shutdown \/ Boot \/ EndRecovery
  \/ \E o \in Ops : RecoverAction(o)
  \/ \E c \in Claims : RecoverClaim(c)

Next == Producing \/ Claiming \/ Intake \/ Retention \/ Restarting

Spec == Init /\ [][Next]_vars

-----------------------------------------------------------------------------
(* Properties *)

\* Every variable holds a value the code can put there.
TypeOK ==
  /\ store \in [Ops -> {"none", "running", "finished"}]
  /\ birth \in [Ops -> 0..MaxBirths] /\ births \in 0..MaxBirths
  /\ token \in [Ops -> Tokens] /\ handle \in [Ops -> BOOLEAN]
  /\ timer \in [Ops -> 0..MaxClaims]
  /\ acts \in [Ops -> {"requested", "started", "closed"}]
  /\ results \in [Ops -> Nat] /\ first \in [Claims -> {"none", "bare", "named"}]
  /\ env \in [Claims -> [op : Ops \cup {Nobody},
                         cause : {"none", "worker", "timeout"}, tok : Tokens]]
  /\ sent \in 0..MaxClaims /\ inbox \subseteq Claims /\ processed \subseteq Claims
  /\ crun \in [Claims -> {"none", "live", "over"}]
  /\ worker \subseteq Ops \X Tokens
  /\ job \in [Ops -> {"queued", "running", "done", "lost"}]
  /\ mem \in [Claims -> {"none", "waiting", "ready", "lost"}]
  /\ todo \subseteq Claims
  /\ pc \in {"up", "alloc", "bind", "launch", "terminal", "drive", "result",
             "flip", "pump", "claims", "batch", "admit", "commit", "cflip",
             "down", "recover", "refused"}
  /\ cur \in Ops \cup {Nobody} /\ claim \in 0..MaxClaims
  /\ out \in {"none", "running", "finished", "failed", "blocked"}
  /\ back \in {"up", "claims", "batch", "recover"}
  /\ lapse \in [Ops -> SUBSET {"reducer", "deferred", "purged"}]
  /\ closed \subseteq Ops
  /\ crashes \in Nat /\ shutdowns \in Nat /\ faults \in Nat

Truths(o) == results[o] + (IF o \in closed THEN 1 ELSE 0)

\* One operation has one terminal truth, its operation_result or the event
\* that closed it without one, however its action, workers, aborts and
\* deadline race.  The exceptions are exactly the three windows in which the
\* gate is open although a truth exists or is on its way: the store missed
\* the result, an admitted claim has yet to be written, or the finished
\* record was dropped.  (terminalize_in_run, completion_claim_disposition)
OneTerminalTruth == \A o \in Ops : lapse[o] = {} => Truths(o) <= 1

\* A record never finishes silently: a result was written, or the event that
\* owns the outcome closed it.  (rt_operation_apply_event)
FinishedIsTold == \A o \in Ops : store[o] = "finished" => Truths(o) >= 1

\* Retention and recycling never drop a record that still runs: one that
\* disappears has its terminal truth.  (purge_finished_over_cap,
\* rt_operation_apply_event)
OnlyToldDropped ==
  \A o \in Ops : store[o] # "none" /\ store'[o] = "none" => Truths(o)' > 0
RunningKept == [][OnlyToldDropped]_vars

\* The inductive invariant behind the two.  Of an operation without a lapse,
\* either nothing is told and the gate is open, or one truth is told and the
\* gate is shut, or the thread stands between the log and the store.
Telling(o) ==
  \/ pc = "flip" /\ cur = o
  \/ pc = "cflip" /\ env[claim].op = o

GateInv ==
  \A o \in Ops : lapse[o] = {} =>
    \/ Truths(o) = 0 /\ store[o] # "finished" /\ ~Telling(o)
    \/ Truths(o) = 1 /\ store[o] = "finished" /\ ~Telling(o)
    \/ Truths(o) = 1 /\ store[o] = "running" /\ Telling(o)

\* What the thread works on exists, and a claim is written only while the
\* record runs or after a lapse.
ThreadInv ==
  /\ pc \in {"alloc", "bind", "launch", "terminal", "drive", "result", "flip",
             "pump"} => cur \in Ops
  /\ pc \in {"bind", "result"} => store[cur] = "running"
  /\ pc = "flip" => results[cur] > 0
  /\ pc = "cflip" => results[env[claim].op] > 0
  /\ pc = "pump" => timer[cur] # 0
  /\ pc \in {"admit", "commit", "cflip"} =>
       claim \in Claims /\ env[claim].op \in Ops
  /\ pc \in {"commit", "cflip"} => crun[claim] = "live"
  /\ pc = "commit" =>
       \/ store[env[claim].op] = "running"
       \/ "deferred" \in lapse[env[claim].op]

\* A claim run without its first event is the one being written, or deferred.
ClaimInv ==
  /\ \A c \in Claims :
       /\ c > sent => env[c] = NoClaim /\ crun[c] = "none"
       /\ c \in inbox \cup processed \/ crun[c] = "live" => env[c].op \in Ops
       /\ mem[c] # "none" => crun[c] = "live"
       /\ mem[c] = "waiting" => first[c] = "none" \/ (pc = "cflip" /\ claim = c)
       /\ crun[c] = "live" /\ first[c] = "none" =>
            (pc = "commit" /\ claim = c) \/ "deferred" \in lapse[env[c].op]
  /\ \A o \in Ops :
       /\ timer[o] <= sent
       /\ timer[o] # 0 => env[timer[o]].op \in {Nobody, o}
  /\ \A o, p \in Ops : timer[o] = timer[p] /\ timer[o] # 0 => o = p

\* Together they are inductive: at the gate of every operation, and between
\* its log line and its record, the truth told is exactly the one accepted.
IInv == TypeOK /\ GateInv /\ FinishedIsTold /\ ThreadInv /\ ClaimInv

\* A claim "produces exactly one operation_result when terminal"
\* (docs/concepts/task-feature.md): refuted by a run of its own.
ExactlyOneResult == \A o \in Ops : results[o] <= 1

\* The deadline's claim can no longer be admitted, although the record runs:
\* it was written before the record had its token, or a cancelled run holds it.
TimerSpoiled(o) ==
  /\ timer[o] # 0 /\ Published(timer[o])
  /\ \/ token[o] # 0 /\ env[timer[o]].tok # token[o]
     \/ crun[timer[o]] = "over"

\* Every operation leaves the running state, through crashes, failing calls,
\* cancelled claims and workers that never report, unless its result is
\* already in a log or its deadline's claim was spoiled.  (rt_operation_pump,
\* rt_ports_reconcile_orphaned_claims, retry_waiting_inbound_claims)
OperationsEndOrAreTold ==
  \A o \in Ops : store[o] = "running" ~>
     (store[o] # "running" \/ "reducer" \in lapse[o] \/ TimerSpoiled(o) \/ pc = "refused")

\* The steps the thread takes by itself once it has begun something.
Continue ==
  \/ Allocate \/ BindSecret \/ Launch \/ AppendTerminal \/ Drive \/ AppendResult
  \/ Flip \/ PumpPublish \/ EndRetries \/ Take \/ EndBatch \/ Admit \/ CommitClaim
  \/ FlipClaim \/ Boot \/ EndRecovery
  \/ \E o \in Ops : RecoverAction(o)
  \/ \E c \in Claims : RetryClaim(c) \/ RecoverClaim(c)

\* The reactor gives every module its tick again and again, deadlines pass,
\* and a batch takes at least one envelope.
Fairness ==
  /\ WF_vars(Continue) /\ SF_vars(BeginIntake) /\ SF_vars(Take)
  /\ \A o \in Ops : SF_vars(PumpReserve(o)) /\ SF_vars(PumpAgain(o))
  /\ \A c \in Claims : SF_vars(Requeue(c))

FairSpec == Spec /\ Fairness

=============================================================================
