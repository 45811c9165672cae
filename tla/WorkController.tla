--------------------------- MODULE WorkController ---------------------------
(***************************************************************************)
(* One durable work task and the controller that carries it out, from      *)
(* runtime/task_state.c (the task store), runtime/work_state.c (the        *)
(* work-step ledger), runtime/action_runtime_work.c (the work,             *)
(* work_complete and work_blocked actions), runtime/task_projection.c (the *)
(* work_consequence gate) and runtime/agent_runner.c (the budget gate).    *)
(*                                                                         *)
(* An external request creates or revises the task.  Every revision, and   *)
(* every result of an action selected for it, is a consequence that wakes  *)
(* the controller for one selection.  An external revision starts a        *)
(* lineage with a fresh budget; a revision the controller itself selects   *)
(* inherits the counters of its parent.  A committed event goes to the run *)
(* log, then to the task reducer, then to the ledger reducer, each store   *)
(* being written on its own; the ledger is rebuilt from the logs at start, *)
(* the task store is not.                                                  *)
(*                                                                         *)
(* Runs of one conversation context are serialised, so there is one        *)
(* current run.  The publication outbox (module PublicationOutbox) turns   *)
(* each committed result into one wake, which is added here with the       *)
(* event.  Event identities are positions in the log.                      *)
(***************************************************************************)
EXTENDS Integers, Sequences, FiniteSets, SequencesExt

CONSTANTS StepLimit,      \* RT_WORK_SEMANTIC_STEP_LIMIT
          RepairLimit,    \* RT_WORK_REPAIR_ATTEMPT_LIMIT
          MaxRepairs,     \* the agent's work_policy.max_repair_attempts
          StepMax,        \* WORK_STEP_MAX_ITEMS
          RevMax,         \* WORK_REVISION_MAX_ITEMS
          Acts,           \* the kinds of action a controller may select
          MaxPasses,      \* passes of the floop in one run
          MaxAsks,        \* bound: external requests
          MaxCrashes,     \* bound: crashes
          MaxFails        \* bound: failed controller turns

VARIABLES log,        \* committed work events, in order
          task,       \* the task store's record of the work task
          ledger,     \* work_steps.json: revisions and steps
          wakes,      \* published consequences no run has taken
          run,        \* the current run of the context
          ops,        \* managed operations running for a selection
          runs, asks, crashes, fails,
          told,       \* outcomes the manager was given
          answered,   \* the revisions a recovered work action answered with
          stranded    \* requests whose recovered launch failed

vars == <<log, task, ledger, wakes, run, ops, runs, asks, crashes, fails,
          told, answered, stranded>>

None == 0

\* Requests of a run: 0 is the manager's, k > 0 the controller's in pass k.
NoReq == <<0, 0>>

NoWake == [kind |-> "none", rev |-> 0, req |-> NoReq, act |-> "none", src |-> None]

NoRun == [phase |-> "idle", wake |-> NoWake, pass |-> 0, rev |-> 0,
          trig |-> None, act |-> "none"]

Cuts == {"none", "task", "ledger"}

Event(type, rev, req, act, trig, parent) ==
    [type |-> type, run |-> runs, rev |-> rev, req |-> req, act |-> act,
     trig |-> trig, parent |-> parent]

(***************************************************************************)
(* The task reducer.  A terminal event applies only to its exact revision; *)
(* an accepted work mutation always increments the revision and reopens.   *)
(***************************************************************************)
TaskApply(t, e) ==
    CASE e.type = "task_created" -> [st |-> "open", rev |-> 1]
      [] e.type = "task_updated" -> [st |-> "open", rev |-> t.rev + 1]
      [] e.type = "work_completed" /\ e.rev = t.rev -> [t EXCEPT !.st = "completed"]
      [] e.type = "work_blocked" /\ e.rev = t.rev -> [t EXCEPT !.st = "blocked"]
      [] OTHER -> t

\* rt_task_work_binding_json with blocked tasks excluded.
Bound(t, rev) == t.st = "open" /\ t.rev = rev

(***************************************************************************)
(* The ledger reducer, apply_to_store.  A reducer step answers with the    *)
(* store as it left it and whether it accepted the event: a rejected       *)
(* event may have changed the store in memory, which only the rebuild goes *)
(* on to write.                                                            *)
(***************************************************************************)
Accept(s) == [ok |-> TRUE, s |-> s]

Reject(s) == [ok |-> FALSE, s |-> s]

RevisionIndex(s, rev) == SelectInSeq(s.revs, LAMBDA r : r.rev = rev)

StepIndex(s, rev, req) == SelectInSeq(s.steps, LAMBDA x : x.rev = rev /\ x.req = req)

StepResultIndex(s, rev, src) ==
    SelectInSeq(s.steps, LAMBDA x : x.rev = rev /\ x.src = src)

NewRevision(rev) == [rev |-> rev, parent |-> 0, root |-> rev, semantic |-> 0,
                     repairs |-> 0, req |-> NoReq, act |-> "none", trig |-> None, sel |-> None]

NewStep(rev, req, act, trig, sel) ==
    [rev |-> rev, req |-> req, act |-> act, trig |-> trig, sel |-> sel,
     started |-> None, kind |-> "none", src |-> None, term |-> "none", tsrc |-> None]

\* Room is made by dropping the oldest entry that is of no live revision.
Room(q, max, live) ==
    IF Len(q) < max THEN q
    ELSE LET i == SelectInSeq(q, LAMBDA x : x.rev \notin live)
         IN  IF i = 0 THEN q ELSE RemoveAt(q, i)

\* The revisions and the steps with one more: too long when there is no room.
AddRevision(s, t, r) == Append(Room(s.revs, RevMax, {t.rev}), r)

AddStep(s, t, x) == Append(Room(s.steps, StepMax, {v \in {t.rev} : Bound(t, v)}), x)

RevisionAdded(s, revs) ==
    IF Len(revs) > RevMax THEN Reject(s) ELSE Accept([s EXCEPT !.revs = revs])

(***************************************************************************)
(* A controller revision inherits the counters of its parent and carries   *)
(* the selection that caused it; any other revision starts from zero.      *)
(***************************************************************************)

Inherited(e, p, ps) ==
    [NewRevision(e.rev) EXCEPT !.parent = e.parent, !.root = p.root,
       !.semantic = p.semantic, !.repairs = p.repairs, !.req = e.req,
       !.act = "work", !.trig = e.trig, !.sel = ps.sel]

ApplyRevision(s, e, t) ==
    LET i == RevisionIndex(s, e.rev)
        p == RevisionIndex(s, e.parent)
        ps == StepIndex(s, e.parent, e.req)
    IN  IF i # 0
          THEN LET r == s.revs[i]
               IN  IF IF e.parent # 0
                        THEN r.parent = e.parent /\ r.req = e.req /\ r.act = "work" /\ r.trig = e.trig
                        ELSE r.parent = 0 /\ r.root = e.rev
                     THEN Accept(s) ELSE Reject(s)
        ELSE IF e.parent = 0 THEN RevisionAdded(s, AddRevision(s, t, NewRevision(e.rev)))
        ELSE IF p = 0 \/ ps = 0 THEN Reject(s)
        ELSE IF s.revs[p].req # e.req \/ s.revs[p].act # "work" \/ s.revs[p].trig # e.trig
          THEN Reject(s)
        ELSE LET revs == AddRevision(s, t, Inherited(e, s.revs[p], s.steps[ps]))
                 steps == AddStep(s, t, NewStep(e.rev, e.req, "work", e.trig, s.steps[ps].sel))
             IN  IF Len(revs) > RevMax \/ Len(steps) > StepMax
                   THEN Reject(RevisionAdded(s, revs).s)
                 ELSE Accept([s EXCEPT !.revs = revs, !.steps = steps])

Repairable(x) == x.kind \in {"action_failed", "action_rejected"}

(***************************************************************************)
(* A selection: at most once per request, charged to its revision, and to  *)
(* the repair budget when it answers a failure.  The repair is charged     *)
(* before the step limit is looked at.                                     *)
(***************************************************************************)

Charged(s, e, id, ri) ==
    [s EXCEPT !.revs[ri].semantic = @ + 1, !.revs[ri].req = e.req,
              !.revs[ri].act = e.act, !.revs[ri].trig = e.trig, !.revs[ri].sel = id]

ApplySelection(s, e, id, t) ==
    LET x == StepIndex(s, e.rev, e.req)
        known == RevisionIndex(s, e.rev) # 0
        revs == IF known THEN s.revs ELSE AddRevision(s, t, NewRevision(e.rev))
        ri == IF known THEN RevisionIndex(s, e.rev) ELSE Len(revs)
        src == StepResultIndex(s, e.rev, e.trig)
        repair == src # 0 /\ Repairable(s.steps[src])
        a == [s EXCEPT !.revs = revs]
        b == IF repair THEN [a EXCEPT !.revs[ri].repairs = @ + 1] ELSE a
        steps == AddStep(s, t, NewStep(e.rev, e.req, e.act, e.trig, id))
    IN  IF x # 0
          THEN IF s.steps[x].sel = id /\ s.steps[x].act = e.act /\ s.steps[x].trig = e.trig
                 THEN Accept(s) ELSE Reject(s)
        ELSE IF Len(revs) > RevMax THEN Reject(s)
        ELSE IF repair /\ revs[ri].repairs >= RepairLimit THEN Reject(a)
        ELSE IF revs[ri].semantic >= StepLimit \/ Len(steps) > StepMax THEN Reject(b)
        ELSE Accept(Charged([b EXCEPT !.steps = steps], e, id, ri))

\* A result or a terminal fills its slot of the step once.
ApplyResult(s, e, id, t) ==
    LET x == StepIndex(s, e.rev, e.req)
        late == AddStep(s, t, [NewStep(e.rev, e.req, e.act, None, None)
                                 EXCEPT !.kind = e.type, !.src = id])
    IN  IF x = 0
          THEN IF e.type # "operation_result" THEN Reject(s)
               ELSE IF t.rev # e.rev /\ Len(late) <= StepMax
                 THEN Accept([s EXCEPT !.steps = late])
               ELSE Accept(s)
        ELSE IF s.steps[x].sel # None /\ s.steps[x].trig # e.trig THEN Reject(s)
        ELSE IF e.type \in {"work_completed", "work_blocked"}
          THEN IF s.steps[x].tsrc # None
                 THEN IF s.steps[x].tsrc = id THEN Accept(s) ELSE Reject(s)
               ELSE Accept([s EXCEPT !.steps[x].term = e.type, !.steps[x].tsrc = id,
                              !.steps[x].kind = IF @ = "none" THEN e.type ELSE @,
                              !.steps[x].src = IF @ = None THEN id ELSE @])
        ELSE IF s.steps[x].src # None
          THEN IF s.steps[x].src = id THEN Accept(s) ELSE Reject(s)
        ELSE Accept([s EXCEPT !.steps[x].kind = e.type, !.steps[x].src = id])

\* A step is started once: a second claim under another event is refused.
ApplyStarted(s, e, id) ==
    LET x == StepIndex(s, e.rev, e.req)
    IN  IF x = 0 \/ s.steps[x].started \notin {None, id} THEN Reject(s)
        ELSE IF s.steps[x].sel # None /\ s.steps[x].trig # e.trig THEN Reject(s)
        ELSE Accept([s EXCEPT !.steps[x].started = id])

Apply(s, e, id, t) ==
    CASE e.type \in {"task_created", "task_updated"} -> ApplyRevision(s, e, t)
      [] e.type = "action_request" -> ApplySelection(s, e, id, t)
      [] e.type = "action_started" -> ApplyStarted(s, e, id)
      [] OTHER -> ApplyResult(s, e, id, t)

(***************************************************************************)
(* rt_work_state_rebuild_from_logs: every committed event is replayed over *)
(* the store as it was found; a rejected event is skipped.                 *)
(***************************************************************************)
Rebuilt(s, l, t) ==
    FoldLeft(LAMBDA acc, i : Apply(acc, l[i], i, t).s, s, [i \in 1..Len(l) |-> i])

(***************************************************************************)
(* rt_append_event: the log line, the task reducer, the ledger reducer.    *)
(* The process may stop after the line ("task") or after the task store    *)
(* was written ("ledger"); the next start rebuilds the ledger.             *)
(***************************************************************************)
TaskAfter(e, cut) == IF cut = "task" THEN task ELSE TaskApply(task, e)

CommitAs(event, cut, ok) ==
    \E e \in {event} : \E t \in {TaskAfter(e, cut)} :
      /\ log' = Append(log, e)
      /\ task' = t
      /\ IF cut # "none" THEN ok /\ \E l \in {Append(log, e)} : ledger' = Rebuilt(ledger, l, t)
         ELSE \E r \in {Apply(ledger, e, Len(log) + 1, t)} :
                r.ok = ok /\ ledger' = IF ok THEN r.s ELSE ledger
      /\ crashes' = IF cut = "none" THEN crashes ELSE crashes + 1

Commit(e, cut) == \E ok \in BOOLEAN : CommitAs(e, cut, ok)

MayCut(cut) == cut = "none" \/ crashes < MaxCrashes

Published(kind, e) ==
    wakes \cup {[kind |-> kind, rev |-> e.rev, req |-> e.req, act |-> e.act, src |-> Len(log) + 1]}

\* rt_action_committed_effect: an event of this run with the request's id.
CommittedEffect(types, req) ==
    \E i \in 1..Len(log) : log[i].type \in types /\ log[i].run = runs /\ log[i].req = req

(***************************************************************************)
(* The work_consequence gate.  In a run a result woke, the consequence is  *)
(* that result, matched to its selection, for the revision it was selected *)
(* for or for the one revision that selection created.  In any other run   *)
(* it is the latest revision the run recorded.                             *)
(***************************************************************************)
ResultMatches(w) ==
    LET x == StepIndex(ledger, w.rev, w.req)
    IN  /\ x # 0
        /\ ledger.steps[x].sel # None
        /\ ledger.steps[x].act = w.act
        /\ ledger.steps[x].src = w.src
        /\ w.kind = "operation_result" <=> ledger.steps[x].kind = "operation_result"

EffectiveRev(w) ==
    LET x == ledger.steps[StepIndex(ledger, w.rev, w.req)]
        c == SelectInSeq(ledger.revs, LAMBDA r : /\ r.parent = w.rev /\ r.req = w.req
                                                 /\ r.trig = x.trig /\ r.sel = x.sel)
    IN  IF w.act = "work" /\ c # 0 THEN ledger.revs[c].rev ELSE w.rev

Recorded == SelectLastInSeq(log, LAMBDA e : e.run = runs /\ e.type \in {"task_created", "task_updated"})

Consumed(rev, trig) ==
    \E i \in 1..Len(log) : /\ log[i].run = runs /\ log[i].type = "action_request"
                           /\ log[i].rev = rev /\ log[i].trig = trig

Consequence ==
    IF run.wake.kind # "none"
      THEN IF ResultMatches(run.wake) THEN <<EffectiveRev(run.wake), run.wake.src>> ELSE <<0, None>>
    ELSE IF Recorded = 0 THEN <<0, None>> ELSE <<log[Recorded].rev, Recorded>>

Selectable == /\ Consequence[1] # 0
              /\ Bound(task, Consequence[1])
              /\ ~ Consumed(Consequence[1], Consequence[2])

(***************************************************************************)
(* The budget gate of the controller's step.                               *)
(***************************************************************************)
Budget(rev) == ledger.revs[RevisionIndex(ledger, rev)]

\* The limit is one step late.
StepsNearlyExhausted(rev) == Budget(rev).semantic > StepLimit

StepsExhausted(rev) == Budget(rev).semantic >= StepLimit

RepairSource(rev) ==
    IF run.wake.kind # "none" THEN StepIndex(ledger, run.wake.rev, run.wake.req)
    ELSE StepIndex(ledger, rev, Budget(rev).req)

RepairsExhausted(rev) ==
    /\ RepairSource(rev) # 0
    /\ Repairable(ledger.steps[RepairSource(rev)])
    /\ Budget(rev).repairs >= MaxRepairs

Ended == [run EXCEPT !.phase = "idle", !.wake = NoWake, !.pass = 0, !.rev = 0,
                     !.trig = None, !.act = "none"]

\* After an action the floop makes another pass, or the run is over.
NextPass == IF run.pass < MaxPasses
            THEN [run EXCEPT !.phase = "gate", !.pass = @ + 1, !.rev = 0, !.trig = None, !.act = "none"]
            ELSE Ended

Req == <<runs, run.pass>>

-----------------------------------------------------------------------------
Init == /\ log = <<>>
        /\ task = [st |-> "none", rev |-> 0]
        /\ ledger = [revs |-> <<>>, steps |-> <<>>]
        /\ wakes = {}
        /\ run = NoRun
        /\ ops = {}
        /\ runs = 0 /\ asks = 0 /\ crashes = 0 /\ fails = 0
        /\ told = <<>>
        /\ answered = {} /\ stranded = {}

\* An external request: a run whose manager decided to call work.
Ask == /\ run.phase = "idle" /\ asks < MaxAsks
       /\ task.st \in {"none", "open", "blocked"}
       /\ asks' = asks + 1 /\ runs' = runs + 1
       /\ run' = [NoRun EXCEPT !.phase = "admit", !.pass = 1]
       /\ UNCHANGED <<log, task, ledger, wakes, ops, crashes, fails, told, answered, stranded>>

(***************************************************************************)
(* fc_work for the manager: a replay finds its own committed event and     *)
(* answers from it; otherwise the unique revisable task is revised, or a   *)
(* task is created.                                                        *)
(***************************************************************************)
Admission == IF task.rev = 0 THEN Event("task_created", 1, <<runs, 0>>, "work", None, 0)
             ELSE Event("task_updated", task.rev + 1, <<runs, 0>>, "work", None, 0)

AdmitAgain == /\ CommittedEffect({"task_created", "task_updated"}, <<runs, 0>>)
              /\ answered' = answered \cup {log[Recorded].rev}
              /\ run' = [run EXCEPT !.phase = "gate"]
              /\ UNCHANGED <<log, task, ledger, wakes, ops, runs, asks, crashes, fails, told, stranded>>

AdmitFirst(cut) ==
    /\ ~ CommittedEffect({"task_created", "task_updated"}, <<runs, 0>>)
    /\ MayCut(cut)
    /\ Commit(Admission, cut)
    /\ run' = IF cut # "none" THEN run ELSE [run EXCEPT !.phase = "gate"]
    /\ UNCHANGED <<wakes, ops, runs, asks, fails, told, answered, stranded>>

Admit == run.phase = "admit" /\ (AdmitAgain \/ \E cut \in Cuts : AdmitFirst(cut))

\* A published consequence starts the next run of the context.
Wake == /\ run.phase = "idle"
        /\ \E w \in wakes :
             /\ w.kind # "work_outcome"
             /\ wakes' = wakes \ {w}
             /\ run' = [NoRun EXCEPT !.phase = "gate", !.pass = 1, !.wake = w]
        /\ runs' = runs + 1
        /\ UNCHANGED <<log, task, ledger, ops, asks, crashes, fails, told, answered, stranded>>

(***************************************************************************)
(* A terminal outcome reaches the manager through the gate of              *)
(* rt_work_state_outcome_matches: its step must still carry it and no      *)
(* newer revision may be visible.                                          *)
(***************************************************************************)

OutcomeMatches(w) ==
    LET x == StepIndex(ledger, w.rev, w.req)
    IN  /\ task.rev = w.rev
        /\ x # 0 /\ ledger.steps[x].sel # None
        /\ ledger.steps[x].tsrc = w.src /\ ledger.steps[x].act = w.act

Tell == /\ run.phase = "idle"
        /\ \E w \in wakes :
             /\ w.kind = "work_outcome"
             /\ wakes' = wakes \ {w}
             /\ told' = IF OutcomeMatches(w) THEN Append(told, [id |-> w.src, rev |-> task.rev]) ELSE told
        /\ runs' = runs + 1
        /\ UNCHANGED <<log, task, ledger, run, ops, asks, crashes, fails, answered, stranded>>

(***************************************************************************)
(* rt_agent_runner_start_step: nothing to select skips the step, an        *)
(* exhausted budget blocks the work under the identity of the latest       *)
(* selection, anything else starts the controller's model call.            *)
(***************************************************************************)
Exhausted(rev) == StepsExhausted(rev) \/ RepairsExhausted(rev)

GateSkips == ~ Selectable /\ run' = Ended
             /\ UNCHANGED <<log, task, ledger, wakes, crashes>>

GateBlocks(cut) ==
    /\ Selectable /\ Exhausted(Consequence[1]) /\ MayCut(cut)
    /\ LET b == Budget(Consequence[1])
           e == Event("work_blocked", Consequence[1], b.req, b.act, b.trig, 0)
       IN  Commit(e, cut) /\ wakes' = Published("work_outcome", e)
    /\ run' = IF cut = "none" THEN Ended ELSE run

GateOpens ==
    /\ Selectable /\ ~ Exhausted(Consequence[1])
    /\ run' = [run EXCEPT !.phase = "deciding", !.rev = Consequence[1], !.trig = Consequence[2]]
    /\ UNCHANGED <<log, task, ledger, wakes, crashes>>

Gate == /\ run.phase = "gate"
        /\ GateSkips \/ GateOpens \/ \E cut \in Cuts : GateBlocks(cut)
        /\ UNCHANGED <<ops, runs, asks, fails, told, answered, stranded>>

(***************************************************************************)
(* The model answered with one call.  Binding and consequence are read     *)
(* again before the selection is committed.                                *)
(***************************************************************************)
StillSelected == Selectable /\ Consequence[1] = run.rev

DecideStale == ~ StillSelected /\ run' = Ended /\ fails' = fails
               /\ UNCHANGED <<log, task, ledger, crashes>>

DecideFails == fails < MaxFails /\ fails' = fails + 1 /\ run' = Ended
               /\ UNCHANGED <<log, task, ledger, crashes>>

DecideSelects(act, cut) ==
    /\ StillSelected /\ MayCut(cut)
    /\ LET e == Event("action_request", run.rev, Req, act, run.trig, 0)
       IN  \E ok \in BOOLEAN :
             /\ CommitAs(e, cut, ok)
             /\ run' = IF ok THEN [run EXCEPT !.phase = "dispatch", !.act = act] ELSE Ended
    /\ fails' = fails

Decide == /\ run.phase = "deciding"
          /\ DecideStale \/ DecideFails \/ \E act \in Acts, cut \in Cuts : DecideSelects(act, cut)
          /\ UNCHANGED <<wakes, ops, runs, asks, told, answered, stranded>>

(***************************************************************************)
(* validate_pending_action refuses a binding that is no longer current, or *)
(* a call for reasons of its own; else action_started is durable before    *)
(* an effect.  When that claim is not accepted the launch fails, and the   *)
(* run with it.                                                            *)
(***************************************************************************)
Start == /\ run.phase = "dispatch" /\ Bound(task, run.rev)
         /\ LET e == Event("action_started", run.rev, Req, run.act, run.trig, 0)
            IN  \E ok \in BOOLEAN :
                  /\ CommitAs(e, "none", ok)
                  /\ run' = IF ok THEN [run EXCEPT !.phase = "acting"] ELSE Ended
                  /\ stranded' = IF ok THEN stranded ELSE stranded \cup {Req}
         /\ UNCHANGED <<wakes, ops, runs, asks, fails, told, answered>>

Finish(type) ==
    LET e == Event(type, run.rev, Req, run.act, run.trig, 0)
    IN  \E cut \in Cuts :
          /\ MayCut(cut) /\ cut # "task"
          /\ Commit(e, cut)
          /\ wakes' = Published("work_step_result", e)
          /\ run' = NextPass

Refuse == /\ run.phase = "dispatch"
          /\ Finish("action_rejected")
          /\ UNCHANGED <<ops, runs, asks, fails, told, answered, stranded>>

ActPlain == /\ run.act \in {"local", "outside"}
            /\ Finish("action_succeeded") \/ Finish("action_failed")
            /\ UNCHANGED <<ops, answered>>

\* A managed operation answers later; its start is not a result.
ActWorker == /\ run.act = "worker"
             /\ ops' = ops \cup {[rev |-> run.rev, req |-> Req, trig |-> run.trig, run |-> runs]}
             /\ run' = NextPass
             /\ UNCHANGED <<log, task, ledger, wakes, crashes, answered>>

(***************************************************************************)
(* fc_work for the controller: its own committed revision is answered      *)
(* again, a bound revision is recorded as the child of the selection's     *)
(* revision, and a task that is no longer active is refused.               *)
(***************************************************************************)
RevisedAlready == CommittedEffect({"task_updated"}, Req)

ActRevises(cut) ==
    /\ run.act = "work" /\ ~ RevisedAlready /\ MayCut(cut)
    /\ task.st \in {"open", "blocked"}
    /\ Commit(Event("task_updated", task.rev + 1, Req, "work",
                    IF run.rev = task.rev THEN run.trig ELSE None,
                    IF run.rev = task.rev THEN run.rev ELSE 0), cut)
    /\ run' = IF cut = "none" THEN run ELSE [run EXCEPT !.phase = "dispatch"]
    /\ UNCHANGED <<wakes, ops, answered>>

ActRevised == /\ run.act = "work" /\ RevisedAlready
              /\ Finish("action_succeeded")
              /\ UNCHANGED <<ops, answered>>

ActRefused == /\ run.act = "work" /\ ~ RevisedAlready /\ task.st \notin {"open", "blocked"}
              /\ Finish("action_failed")
              /\ UNCHANGED <<ops, answered>>

(***************************************************************************)
(* terminalize_bound_work: the outcome of the bound revision, committed    *)
(* once: a recovery that finds it takes it for the request's end.  A stale *)
(* binding fails the action instead.                                       *)
(***************************************************************************)
Terminal == IF run.act = "complete" THEN "work_completed" ELSE "work_blocked"

StillBound == Bound(task, run.rev)

ActTerminates(cut) ==
    /\ run.act \in {"complete", "block"} /\ MayCut(cut)
    /\ StillBound
    /\ LET e == Event(Terminal, run.rev, Req, run.act, run.trig, 0)
       IN  Commit(e, cut) /\ wakes' = Published("work_outcome", e)
    /\ run' = NextPass
    /\ UNCHANGED <<ops, answered>>

ActStale == /\ run.act \in {"complete", "block"}
            /\ ~ StillBound
            /\ Finish("action_failed")
            /\ UNCHANGED <<ops, answered>>

Act == /\ run.phase = "acting"
       /\ \/ ActPlain \/ ActWorker \/ ActRevised \/ ActRefused \/ ActStale
          \/ \E cut \in Cuts : ActRevises(cut) \/ ActTerminates(cut)
       /\ UNCHANGED <<runs, asks, fails, told, stranded>>

\* The driver records the one operation_result, in a run of its own.
OperationEnds ==
    /\ run.phase = "idle"
    /\ \E o \in ops :
         /\ ops' = ops \ {o}
         /\ LET e == Event("operation_result", o.rev, o.req, "worker", o.trig, 0)
            IN  Commit(e, "none") /\ wakes' = Published("operation_result", e)
    /\ UNCHANGED <<run, runs, asks, fails, told, answered, stranded>>

\* rt_task_cancel_operator writes the task store and no event.
CancelOperator == /\ task.st = "open"
                  /\ task' = [task EXCEPT !.st = "canceled"]
                  /\ UNCHANGED <<log, ledger, wakes, run, ops, runs, asks, crashes, fails, told, answered, stranded>>

(***************************************************************************)
(* A crash between events.  Recovery rebuilds the ledger and takes the run *)
(* up from its log: an admission and a started local action are replayed,  *)
(* an unstarted request is dispatched, a lost model call is made again,    *)
(* and a started outside-world action is ambiguous: it blocks its work, or *)
(* fails when the work has moved on.                                       *)
(***************************************************************************)
Ambiguous == run.phase = "acting" /\ run.act \in {"outside", "worker"}

Recover ==
    \/ /\ Ambiguous
       /\ LET b == Bound(task, run.rev)
              e == Event(IF b THEN "work_blocked" ELSE "action_failed", run.rev, Req, run.act, run.trig, 0)
          IN  /\ log' = Append(log, e)
              /\ task' = TaskApply(task, e)
              /\ ledger' = Apply(Rebuilt(ledger, log, task), e, Len(log) + 1, TaskApply(task, e)).s
              /\ wakes' = Published(IF b THEN "work_outcome" ELSE "work_step_result", e)
       /\ run' = NextPass
    \/ /\ ~ Ambiguous
       /\ ledger' = Rebuilt(ledger, log, task)
       /\ run' = CASE run.phase = "deciding" -> [run EXCEPT !.phase = "gate"]
                   [] run.phase = "acting" -> [run EXCEPT !.phase = "dispatch"]
                   [] OTHER -> run
       /\ UNCHANGED <<log, task, wakes>>

Crash == /\ crashes < MaxCrashes
         /\ crashes' = crashes + 1
         /\ Recover
         /\ UNCHANGED <<ops, runs, asks, fails, told, answered, stranded>>

Next == Ask \/ Admit \/ Wake \/ Tell \/ Gate \/ Decide \/ Start \/ Refuse \/ Act
        \/ OperationEnds \/ CancelOperator \/ Crash

Spec == Init /\ [][Next]_vars

-----------------------------------------------------------------------------
TaskStates == {"none", "open", "blocked", "completed", "canceled"}

\* The type of the state.
TypeOK == /\ task.st \in TaskStates /\ task.rev \in 0..Len(log)
          /\ Len(ledger.revs) <= RevMax /\ Len(ledger.steps) <= StepMax
          /\ run.phase \in {"idle", "admit", "gate", "deciding", "dispatch", "acting"}
          /\ \A w \in wakes : w.src \in 1..Len(log)
          /\ asks \in 0..MaxAsks /\ crashes \in 0..MaxCrashes /\ fails \in 0..MaxFails

Selections(from, to) ==
    {i \in 1..Len(log) : log[i].type = "action_request" /\ log[i].rev \in from..to}

Repairs(i) == LET t == log[i].trig
              IN  log[t].rev = log[i].rev /\ log[t].type \in {"action_failed", "action_rejected"}

Revisions == {i \in 1..Len(log) : log[i].type \in {"task_created", "task_updated"}}

\* The last revision up to rev that, when first recorded, had no parent.
Root(rev) ==
    LET first(k) == CHOOSE i \in Revisions : /\ log[i].rev = k
                                            /\ \A j \in Revisions : log[j].rev = k => i <= j
        external == {k \in {log[i].rev : i \in Revisions} : k <= rev /\ log[first(k)].parent = 0}
    IN  CHOOSE k \in external : \A l \in external : l <= k

Lineage == {ledger.revs[i] : i \in 1..Len(ledger.revs)}

(***************************************************************************)
(* The budget the gate reads for the open revision of the task is the count *)
(* of selections ever committed in its lineage, the inherited revisions    *)
(* included, whatever crashed and was rebuilt in between, and it never     *)
(* exceeds RT_WORK_SEMANTIC_STEP_LIMIT: a controller cannot buy itself a   *)
(* budget by revising its own task, and a restart neither charges a        *)
(* selection twice nor forgets one.                                        *)
(***************************************************************************)
BudgetIsExact ==
    \A r \in Lineage : Bound(task, r.rev) =>
        /\ r.semantic = Cardinality(Selections(Root(r.rev), r.rev))
        /\ r.semantic <= StepLimit

(***************************************************************************)
(* At most work_policy.max_repair_attempts selections of a lineage answer  *)
(* an action of their revision that failed or was rejected.                *)
(***************************************************************************)
RepairsBounded ==
    \A r \in Lineage :
        Cardinality({i \in Selections(Root(r.rev), r.rev) : Repairs(i)}) <= MaxRepairs

(***************************************************************************)
(* A consequence is spent by one selection: no two committed selections    *)
(* name the same trigger, over all passes, runs and recoveries.            *)
(***************************************************************************)
OneSelectionPerConsequence ==
    \A i, j \in Selections(0, Len(log)) : log[i].trig = log[j].trig => i = j

(***************************************************************************)
(* The manager is told of a revision's end at most once, and only while    *)
(* that revision is still the current one.                                 *)
(***************************************************************************)
OutcomeToldOnce ==
    /\ \A i, j \in 1..Len(told) : told[i].rev = told[j].rev => i = j
    /\ \A i \in 1..Len(told) : log[told[i].id].rev = told[i].rev

(***************************************************************************)
(* Nothing is selected for a revision once its outcome is committed.       *)
(***************************************************************************)
TerminalIsLast ==
    \A i \in Selections(0, Len(log)), j \in 1..Len(log) :
        log[j].type \in {"work_completed", "work_blocked"} /\ log[j].rev = log[i].rev => i < j

(***************************************************************************)
(* The ledger is a projection: replaying the log over an empty store gives *)
(* the current revision the same lineage, counters and latest selection as *)
(* the store that was maintained live.                                     *)
(***************************************************************************)
Replayed == Rebuilt([revs |-> <<>>, steps |-> <<>>], log, task).revs

ReplayAgrees ==
    \A r \in Lineage : Bound(task, r.rev) =>
        \E i \in 1..Len(Replayed) : Replayed[i] = r

(***************************************************************************)
(* A replayed work action answers with the task and revision that exist.   *)
(***************************************************************************)
RecoveredWorkExists == \A rev \in answered : task.rev >= rev

(***************************************************************************)
(* A local action that had started when the gateway stopped is replayed    *)
(* under its stable request id: its launch is not refused.                 *)
(***************************************************************************)
LocalReplayRuns == stranded = {}

\* No crash came between an event and the write of the task store.
TaskCurrent == task = FoldLeft(TaskApply, [st |-> "none", rev |-> 0], log)

(***************************************************************************)
(* Open work is never left with nothing to move it: no run, no published   *)
(* consequence and no running operation, unless the controller's turn      *)
(* failed, a recovered launch was refused, or a crash cost the task store  *)
(* an event.                                                               *)
(***************************************************************************)
OpenWorkIsMoved ==
    task.st = "open" /\ TaskCurrent /\ run.phase = "idle" /\ wakes = {} /\ ops = {}
    => fails > 0 \/ stranded # {}
=============================================================================
