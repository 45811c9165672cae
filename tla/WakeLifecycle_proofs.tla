------------------------ MODULE WakeLifecycle_proofs ------------------------
(***************************************************************************)
(* For every set of sources, every bound and every choice of failing       *)
(* calls: the outbox implements WakeLifecycle, a source event reserves one *)
(* bus identity, and a refused start has one of four reasons.              *)
(*                                                                         *)
(* The steps of the outbox are first sorted by what they do to records,    *)
(* source logs and runs; what a wake's stage and its identity depend on is *)
(* then looked at once per sort, not once per action.                      *)
(***************************************************************************)
EXTENDS PublicationOutbox_proofs

USE DEF Events, Wakes, Runs, NoRun, Kinds

-----------------------------------------------------------------------------
(* The inductive invariant, on top of IInv                                 *)

\* Records leave when their run is durably over, and their events stay.
GoneServed == \A w \in Wakes \ outbox : spec[w] # NoSpec => Served(w)
GoneLogged ==
  \A w \in Wakes \ outbox : spec[w] # NoSpec =>
     spec[w].src \in srcOver \/ log[spec[w].src][spec[w].ev] # "none"

\* Nothing is appended to a source that is over.
LostInv ==
  /\ \A s \in Sources : step[s] = "lost" => s \notin srcOver
  /\ pc \in {"append", "failsource", "block"} => cur \notin srcOver

\* Without a failing call a log has no hole at its head.
HeadInv ==
  faults = 0 =>
    /\ \A s \in Sources : \A e \in Events : log[s][e] # "none" => log[s][1] # "none"
    /\ pc # "down" =>
         \A s \in Sources \ srcOver : nextEvent[s] = 1 \/ log[s][1] # "none"

\* A pass goes bad, and a start is refused, for a reason that stays.
RefuseInv ==
  /\ pc = "pass" /\ bad => faults > 0 \/ ReservationClash \/ CanceledBeforeFirst
  /\ RefusalExplained

WInv == GoneServed /\ GoneLogged /\ OneWakePerSource /\ LostInv /\ HeadInv /\ RefuseInv

-----------------------------------------------------------------------------
(* The sorts of steps                                                      *)

\* An event of a source that is not over, or a failed attempt at one.
Appends ==
  \E s \in Sources \ srcOver, what \in EventKinds \ {"none"}, written \in BOOLEAN :
    /\ Append(s, what, written)
    /\ \/ written /\ faults' = faults
       \/ faults' = faults + 1
    /\ srcOver' = srcOver \/ srcOver' = srcOver \cup {s}
    /\ UNCHANGED <<spec, outbox, bound, claim, status, first>>

\* A record under a new identity.
Reserves ==
  \E s \in Sources \ srcOver, what \in Kinds :
    /\ nextEvent[s] \in Events
    /\ PrepareNew(s, what)
    /\ UNCHANGED <<log, srcOver, nextEvent, bound, claim, status, first>>

\* A record whose run is durably over goes.
Unlinks ==
  \E w \in outbox :
    /\ Served(w) /\ SourceState(w) = "exact"
    /\ outbox' = outbox \ {w}
    /\ UNCHANGED <<log, srcOver, nextEvent, spec, bound, claim, status, first, faults>>

\* A run takes a wake.
Claims ==
  \E r \in Runs, w \in Wakes :
    /\ status[r] = "none" /\ Unclaimed(w) /\ WakeIsValid(w)
    /\ claim' = [claim EXCEPT ![r] = w]
    /\ status' = [status EXCEPT ![r] = "waiting"]
    /\ UNCHANGED <<log, srcOver, nextEvent, spec, outbox, bound, first, faults>>

\* A record names its run.
Binds ==
  \E r \in Runs, w \in Wakes :
    /\ bound' = [bound EXCEPT ![w] = r]
    /\ UNCHANGED <<log, srcOver, nextEvent, spec, outbox, claim, status, first, faults>>

\* A run goes on, ends, or is pruned.
Moves ==
  \E r \in Runs, v \in {"active", "terminal", "pruned"} :
    /\ \/ v = "active" /\ status[r] \in {"waiting", "active"}
       \/ v = "terminal" /\ status[r] \in {"waiting", "active", "terminal"}
       \/ v = "pruned" /\ status[r] = "terminal"
    /\ status' = [status EXCEPT ![r] = v]
    /\ first' = first \/ (v = "active" /\ first' = [first EXCEPT ![r] = "exact"])
    /\ faults' \in {faults, faults + 1}
    /\ UNCHANGED <<log, srcOver, nextEvent, spec, outbox, bound, claim>>

\* Nothing a record, a source or a run depends on changes, except that a
\* source may be found to be over.
Rests ==
  /\ srcOver \subseteq srcOver'
  /\ faults' \in {faults, faults + 1}
  /\ UNCHANGED <<log, nextEvent, spec, outbox, bound, claim, status, first>>

Works == Appends \/ Reserves \/ Unlinks \/ Claims \/ Binds \/ Moves \/ Rests

Effect ==
  \/ Works /\ pc # "down"
  \/ Rests /\ pc' = pc
  \/ \E s \in Sources : PruneSource(s)
  \/ Crash \/ Shutdown \/ Boot

-----------------------------------------------------------------------------
(* The actions, sorted                                                     *)

\* emit_started, and the ends of a producing run.
LEMMA AppendEffect ==
  ASSUME IInv, NEW s \in Sources, s \notin srcOver,
         LaunchAction(s) \/ (cur = s /\ (AppendSource \/ AppendBlocked)) \/ EndSource(s)
  PROVE  Appends
<1>1. CASE LaunchAction(s)
  <2>1. UNCHANGED <<srcOver, spec, outbox, bound, claim, status, first>>
    BY <1>1, ZenonT(40) DEF LaunchAction
  <2>2. AppendOk(s, "started") \/ AppendFailed(s, "started")
    BY <1>1, ZenonT(40) DEF LaunchAction
  <2> QED BY <2>1, <2>2, ZenonT(40) DEF Appends, AppendOk, AppendFailed, Fault, EventKinds
<1>2. CASE cur = s /\ (AppendSource \/ AppendBlocked)
  <2>1. UNCHANGED <<srcOver, spec, outbox, bound, claim, status, first>>
    BY <1>2, ZenonT(40) DEF AppendSource, AppendBlocked
  <2>2. \E what \in Kinds : AppendOk(s, what) \/ AppendFailed(s, what)
    BY <1>2, ZenonT(40) DEF AppendSource, AppendBlocked
  <2> QED BY <2>1, <2>2, ZenonT(40) DEF Appends, AppendOk, AppendFailed, Fault, EventKinds
<1>3. CASE EndSource(s)
  BY <1>3, ZenonT(40) DEF EndSource, Appends, EventKinds, bounds
<1> QED BY <1>1, <1>2, <1>3

\* rt_publication_outbox_prepare: a new record, or none.
LEMMA PrepareEffect ==
  ASSUME NEW s \in Sources, s \notin srcOver, NEW what \in Kinds, NEW ok, NEW no,
         Prepare(s, what, ok, no)
  PROVE  Reserves \/ Rests
<1>1. UNCHANGED <<log, srcOver, nextEvent, claim, status, first>> /\ nextEvent[s] \in Events
  BY ZenonT(40) DEF Prepare, memory
<1>2. CASE PrepareNew(s, what)
  BY <1>1, <1>2, ZenonT(40) DEF Reserves, PrepareNew
<1>3. CASE ~ PrepareNew(s, what)
  <2>1. UNCHANGED <<spec, outbox, bound>> /\ faults' \in {faults, faults + 1}
    BY <1>3, ZenonT(40) DEF Prepare, PrepareReuse, PrepareRefused, Fault
  <2> QED BY <1>1, <2>1, ZenonT(40) DEF Rests
<1> QED BY <1>2, <1>3

\* reconcile_pass: a record is dropped or stays.
LEMMA PassEffect ==
  ASSUME IInv, ReconcileRecord
  PROVE  Unlinks \/ Rests
<1>1. PICK w \in todo : /\ PassFrame(w)
                        /\ \/ RecordConflict(w) \/ RecordKept(w)
                           \/ RecordUnlinked(w) \/ RecordPublished(w)
  BY ZenonT(40) DEF ReconcileRecord
<1>2. UNCHANGED <<log, srcOver, nextEvent, spec, bound, claim, status, first>>
  BY <1>1, ZenonT(40) DEF PassFrame, memory, RecordConflict, RecordKept, RecordUnlinked,
     RecordPublished, PassKeeps
<1>3. faults' \in {faults, faults + 1}
  BY <1>1, ZenonT(40) DEF RecordConflict, RecordKept, RecordUnlinked, RecordPublished,
     PassKeeps, Fault
<1>4. CASE outbox' = outbox
  BY <1>2, <1>3, <1>4, ZenonT(40) DEF Rests
<1>5. CASE outbox' # outbox
  <2>1. /\ ClaimState(w) = "terminal" /\ outbox' = outbox \ {w} /\ faults' = faults
        /\ w \in outbox
    BY <1>1, <1>5, ZenonT(40) DEF RecordConflict, RecordKept, RecordUnlinked, RecordPublished,
       PassKeeps, Fault
  <2>2. Served(w)
    BY <2>1, TerminalIsServed, ZenonT(40) DEF Served, IInv
  <2>3. SourceState(w) = "exact"
    BY <2>1, <2>2, ZenonT(40) DEF Served, IInv, DiskInv, ClaimedIsExact, Unclaimed
  <2> QED BY <1>2, <2>1, <2>2, <2>3, ZenonT(40) DEF Unlinks
<1> QED BY <1>4, <1>5

\* create_run_from_envelope and rt_publication_outbox_claim.
LEMMA AdmitEffect ==
  ASSUME IInv, PersistClaim \/ BindClaim
  PROVE  Claims \/ Binds \/ Rests
<1>1. CASE PersistClaim
  <2>1. UNCHANGED <<log, srcOver, spec, outbox, bound, first, nextEvent>>
    BY <1>1, ZenonT(40) DEF PersistClaim
  <2>2. cur \in Wakes /\ Unclaimed(cur) /\ WakeIsValid(cur)
    BY <1>1, ZenonT(40) DEF PersistClaim, IInv, ControlInv
  <2>3. CASE Fault("persist") /\ UNCHANGED <<claim, status>>
    BY <2>1, <2>3, ZenonT(40) DEF Rests, Fault
  <2>4. CASE \E r \in Runs : /\ Oldest(r, {x \in Runs : status[x] = "none"})
                             /\ claim' = [claim EXCEPT ![r] = cur]
                             /\ status' = [status EXCEPT ![r] = "waiting"]
                             /\ faults' = faults
    BY <2>1, <2>2, <2>4, ZenonT(40) DEF Claims, Oldest
  <2> QED BY <1>1, <2>3, <2>4, ZenonT(40) DEF PersistClaim
<1>2. CASE BindClaim
  <2>1. UNCHANGED <<log, srcOver, spec, outbox, claim, status, first, nextEvent>>
    BY <1>2, ZenonT(40) DEF BindClaim
  <2>2. run \in Runs /\ cur \in Wakes
    BY <1>2, ZenonT(40) DEF BindClaim, IInv, ControlInv
  <2>3. CASE bound' = [bound EXCEPT ![cur] = run] /\ faults' = faults
    BY <2>1, <2>2, <2>3, ZenonT(40) DEF Binds
  <2>4. CASE UNCHANGED bound /\ faults' \in {faults, faults + 1}
    BY <2>1, <2>4, ZenonT(40) DEF Rests
  <2> QED BY <1>2, <2>3, <2>4, ZenonT(40) DEF BindClaim, Fault
<1> QED BY <1>1, <1>2

\* What the scheduler does to a run of its own.
LEMMA RunEffect ==
  ASSUME IInv, NEW r \in Runs,
         \/ r = run /\ (CommitInbound \/ PersistTerminal)
         \/ PruneRun(r) \/ RecoverRun(r)
  PROVE  Moves \/ Rests
<1>1. UNCHANGED <<log, srcOver, nextEvent, spec, outbox, bound, claim>>
      /\ faults' \in {faults, faults + 1}
  BY ZenonT(40) DEF CommitInbound, PersistTerminal, PruneRun, RecoverRun, memory, bounds, Fault
<1>2. CASE UNCHANGED <<status, first>>
  BY <1>1, <1>2, ZenonT(40) DEF Rests
<1>3. CASE InboundCommitted(r) /\ ~ PruneRun(r)
  <2>1. status[r] \in {"waiting", "active"}
    <3>1. CASE r = run /\ CommitInbound
      BY <3>1, ZenonT(40) DEF CommitInbound, IInv, ControlInv, DiskInv, MemInv
    <3>2. CASE r = run /\ PersistTerminal
      <4>1. mem[r] = "over" /\ mem' = mem
        BY <3>2, ZenonT(40) DEF PersistTerminal, memory, IInv, ControlInv
      <4>2. mem'[r] = "ready"
        BY <1>3, ZenonT(40) DEF InboundCommitted, IInv, TypeOK
      <4> QED BY <4>1, <4>2, ZenonT(40)
    <3>3. CASE RecoverRun(r)
      BY <3>3, ZenonT(40) DEF RecoverRun, IInv, DiskInv, MemInv
    <3> QED BY <1>3, <3>1, <3>2, <3>3, ZenonT(40)
  <2> QED BY <1>1, <1>3, <2>1, ZenonT(40) DEF Moves, InboundCommitted
<1>4. CASE status' = [status EXCEPT ![r] = "terminal"] /\ UNCHANGED first
  <2>1. status[r] \in {"waiting", "active", "terminal"}
    BY ZenonT(40) DEF CommitInbound, PersistTerminal, RecoverRun, PruneRun, IInv, ControlInv,
       DiskInv, MemInv
  <2> QED BY <1>1, <1>4, <2>1, ZenonT(40) DEF Moves
<1>5. CASE PruneRun(r)
  BY <1>1, <1>5, ZenonT(40) DEF Moves, PruneRun
<1> QED BY <1>2, <1>3, <1>4, <1>5, ZenonT(40) DEF CommitInbound, PersistTerminal, PruneRun, RecoverRun

\* rt_scheduler_retire_terminal_runs and retry_waiting_inbound_claims
LEMMA TickEffect ==
  ASSUME IInv, RetryClaim \/ \E r \in Runs : RetireRun(r)
  PROVE  Moves \/ Unlinks \/ Rests
<1>1. CASE RetryClaim
  <2>1. PICK r \in todo : \/ InboundCommitted(r) /\ UNCHANGED faults
                          \/ Fault("append") /\ UNCHANGED <<first, status, mem>>
    BY <1>1, ZenonT(40) DEF RetryClaim
  <2>2. r \in Runs /\ status[r] \in {"waiting", "active"}
    BY <1>1, <2>1, ZenonT(40) DEF RetryClaim, IInv, ControlInv, DiskInv, MemInv
  <2>3. UNCHANGED <<log, srcOver, nextEvent, spec, outbox, bound, claim>>
    BY <1>1, ZenonT(40) DEF RetryClaim
  <2> QED BY <2>1, <2>2, <2>3, ZenonT(40) DEF Moves, Rests, InboundCommitted, Fault
<1>2. ASSUME NEW r \in Runs, RetireRun(r) PROVE Unlinks \/ Rests
  <2>1. UNCHANGED <<log, srcOver, nextEvent, spec, bound, claim, status, first>>
        /\ faults' \in {faults, faults + 1}
    BY <1>2, ZenonT(40) DEF RetireRun, Fault
  <2>2. CASE outbox' = outbox
    BY <2>1, <2>2, ZenonT(40) DEF Rests
  <2>3. CASE outbox' # outbox
    <3>1. /\ claim[r] \in outbox /\ outbox' = outbox \ {claim[r]} /\ faults' = faults
          /\ status[r] = "terminal"
      BY <1>2, <2>3, ZenonT(40) DEF RetireRun, Releasable, ClaimStateOfRun
    <3>2. SourceState(claim[r]) = "exact"
      BY <3>1, ZenonT(40) DEF IInv, DiskInv, ClaimedIsExact, Unclaimed
    <3> QED BY <2>1, <3>1, <3>2, ZenonT(40) DEF Unlinks, Served
  <2> QED BY <2>2, <2>3
<1> QED BY <1>1, <1>2

\* Every step is of one of the sorts.
LEMMA EveryEffect ==
  ASSUME IInv, LostInv, [Next]_vars
  PROVE  Effect
<1>1. ASSUME NEW s \in Sources, Produce(s) PROVE Works /\ pc # "down"
  <2>1. pc # "down" /\ s \notin srcOver
    BY <1>1, ZenonT(40) DEF Produce, LaunchAction, CompleteAction, FinishSource
  <2> QED BY <1>1, <2>1, AppendEffect, PrepareEffect, ZenonT(40)
          DEF Produce, CompleteAction, FinishSource, Works
<1>2. CASE AppendSource \/ FailSource \/ AppendBlocked
  <2>1. cur \in Sources /\ cur \notin srcOver /\ pc # "down"
    BY <1>2, ZenonT(40) DEF AppendSource, FailSource, AppendBlocked, IInv, ControlInv, LostInv
  <2> QED BY <1>2, <2>1, AppendEffect, ZenonT(40) DEF FailSource, Works, Effect
<1>3. CASE ReconcileRecord \/ RetryClaim \/ PersistClaim \/ BindClaim \/ \E r \in Runs : RetireRun(r)
  <2>1. pc # "down"
    BY <1>3, ZenonT(40) DEF ReconcileRecord, RetryClaim, PersistClaim, BindClaim, RetireRun
  <2> QED BY <1>3, <2>1, PassEffect, AdmitEffect, TickEffect, ZenonT(40) DEF Works, Effect
<1>4. CASE EndPass \/ ClaimsRetried \/ TakeEnvelope \/ EndIntake \/ ValidateWake \/ Recovered \/ BeginIntake
  <2>1. pc # "down"
    BY <1>4, ZenonT(40) DEF EndPass, ClaimsRetried, TakeEnvelope, EndIntake, ValidateWake, Recovered,
       BeginIntake
  <2>2. Rests
    BY <1>4, ZenonT(40) DEF EndPass, ClaimsRetried, TakeEnvelope, EndIntake, ValidateWake, Recovered,
       BeginIntake, Rests, disk, memory, bounds, Fault
  <2> QED BY <2>1, <2>2, ZenonT(40) DEF Works, Effect
<1>5. CASE CommitInbound \/ PersistTerminal
  <2>1. run \in Runs /\ pc # "down"
    BY <1>5, ZenonT(40) DEF CommitInbound, PersistTerminal, IInv, ControlInv
  <2> QED BY <1>5, <2>1, RunEffect, ZenonT(40) DEF Works, Effect
<1>6. ASSUME NEW r \in Runs, RecoverRun(r) \/ PruneRun(r) \/ EndRun(r) PROVE Works /\ pc # "down"
  <2>1. pc # "down"
    BY <1>6, ZenonT(40) DEF RecoverRun, PruneRun, EndRun
  <2>2. CASE EndRun(r)
    BY <2>1, <2>2, ZenonT(40) DEF EndRun, Works, Rests, bounds
  <2> QED BY <1>6, <2>1, <2>2, RunEffect, ZenonT(40) DEF Works
<1>7. ASSUME NEW s \in Sources, RecoverSource(s) \/ BlockSource(s) PROVE Works /\ pc # "down"
  <2>1. pc # "down" /\ s \notin srcOver
    BY <1>7, ZenonT(40) DEF RecoverSource, BlockSource, LostInv
  <2>2. CASE RecoverSource(s)
    BY <2>1, <2>2, ZenonT(40) DEF RecoverSource, Works, Rests, bounds
  <2> QED BY <1>7, <2>1, <2>2, PrepareEffect, ZenonT(40) DEF BlockSource, Works
<1>8. ASSUME NEW w \in Wakes, PruneEnvelope(w) PROVE Works /\ pc # "down"
  BY <1>8, ZenonT(40) DEF PruneEnvelope, Works, Rests, memory, bounds
<1>9. CASE Quiescent \/ UNCHANGED vars
  <2>1. UNCHANGED <<log, nextEvent, spec, outbox, bound, claim, status, first, srcOver, faults, pc>>
    BY <1>9, ZenonT(40) DEF Quiescent, vars, disk, memory, control, bounds
  <2> QED BY <2>1, ZenonT(40) DEF Rests, Effect
<1>10. CASE Continue
  BY <1>10, <1>2, <1>3, <1>4, <1>5, <1>6, <1>7, ZenonT(40) DEF Continue, Effect
<1>11. CASE Prune
  BY <1>11, <1>6, <1>8, ZenonT(40) DEF Prune, Effect
<1> QED BY <1>1, <1>3, <1>4, <1>6, <1>9, <1>10, <1>11, ZenonT(40) DEF Next, Effect

-----------------------------------------------------------------------------
(* What no step undoes                                                     *)

\* A committed event stays, unless its whole log is pruned.
LEMMA LogStays ==
  ASSUME IInv, Effect, NEW s \in Sources, NEW e \in Events, log[s][e] # "none"
  PROVE  log'[s][e] = log[s][e] \/ PruneSource(s)
<1>1. CASE Appends
  <2>1. PICK t \in Sources, what \in EventKinds \ {"none"}, written \in BOOLEAN : Append(t, what, written)
    BY <1>1, ZenonT(40) DEF Appends
  <2>2. s = t => e # nextEvent[t]
    BY <2>1, SMT DEF IInv, DiskInv, LogInv, TypeOK
  <2> QED BY <2>1, <2>2, ZenonT(40) DEF Append, IInv, TypeOK
<1>2. CASE Shutdown
  <2>1. s \in LiveSources => e # nextEvent[s]
    BY SMT DEF IInv, DiskInv, LogInv, TypeOK, LiveSources
  <2>2. log[s] \in [Events -> EventKinds]
    BY ZenonT(40) DEF IInv, TypeOK, EventKinds
  <2> QED BY <1>2, <2>1, <2>2, ZenonT(40) DEF Shutdown
<1>3. CASE \E t \in Sources : PruneSource(t)
  BY <1>3, ZenonT(40) DEF PruneSource, IInv, TypeOK
<1>4. CASE Crash \/ Boot
  BY <1>4, ZenonT(40) DEF Crash, Boot, disk
<1> QED BY <1>1, <1>2, <1>3, <1>4, ZenonT(40)
        DEF Effect, Works, Reserves, Unlinks, Claims, Binds, Moves, Rests

\* Records keep their source, and only prepare writes a new one.
LEMMA SpecStays ==
  ASSUME IInv, Effect, NEW w \in Wakes
  PROVE  /\ spec[w] # NoSpec => spec'[w] = spec[w]
         /\ spec[w] = NoSpec /\ spec'[w] # NoSpec =>
              Reserves /\ w = counter + 1 /\ w \in outbox'
<1>1. CASE Reserves
  <2>1. PICK s \in Sources, what \in Kinds : PrepareNew(s, what)
    BY <1>1, ZenonT(40) DEF Reserves
  <2>2. spec[counter + 1] = NoSpec \/ counter + 1 \notin Wakes
    BY SMT DEF IInv, TypeOK, DiskInv, SpecInv
  <2>3. \A x \in Wakes : x # counter + 1 => spec'[x] = spec[x]
    BY <2>1, ZenonT(40) DEF PrepareNew, IInv, TypeOK
  <2> QED BY <1>1, <2>1, <2>2, <2>3, ZenonT(40) DEF PrepareNew
<1>2. CASE ~ Reserves
  <2>1. spec' = spec
    BY <1>2, ZenonT(40) DEF Effect, Works, Appends, Unlinks, Claims, Binds, Moves, Rests, Crash, Boot,
       Shutdown, PruneSource, disk
  <2> QED BY <2>1, ZenonT(40)
<1> QED BY <1>1, <1>2

\* Only a record whose run is durably over goes.
LEMMA RecordStays ==
  ASSUME Effect, NEW w \in outbox, w \notin outbox'
  PROVE  Served(w) /\ SourceState(w) = "exact"
BY ZenonT(40) DEF Effect, Works, Appends, Reserves, PrepareNew, Unlinks, Claims, Binds, Moves, Rests,
   Crash, Boot, Shutdown, PruneSource, disk

\* A run keeps its wake, and its state only goes forward.
LEMMA RunStays ==
  ASSUME IInv, Effect, NEW r \in Runs, status[r] # "none"
  PROVE  /\ claim'[r] = claim[r]
         /\ status[r] \in {"terminal", "pruned"} => status'[r] \in {"terminal", "pruned"}
         /\ status'[r] # "none"
<1>1. CASE Claims
  BY <1>1, ZenonT(40) DEF Claims, IInv, TypeOK
<1>2. CASE Moves
  BY <1>2, ZenonT(40) DEF Moves, IInv, TypeOK
<1>3. CASE Shutdown
  BY <1>3, ZenonT(40) DEF Shutdown
<1> QED BY <1>1, <1>2, <1>3, ZenonT(40) DEF Effect, Works, Appends, Reserves, Unlinks, Binds, Rests,
        Crash, Boot, PruneSource, disk

\* Served wakes stay served.
LEMMA ServedStays ==
  ASSUME IInv, Effect, NEW w \in Wakes, Served(w)
  PROVE  Served(w)'
BY RunStays, ZenonT(40) DEF Served

\* A source that is over stays over.
LEMMA OverStays ==
  ASSUME Effect
  PROVE  srcOver \subseteq srcOver'
<1>1. CASE Appends \/ Shutdown
  BY <1>1, ZenonT(40) DEF Appends, Shutdown
<1> QED BY <1>1, ZenonT(40) DEF Effect, Works, Reserves, Unlinks, Claims, Binds, Moves, Rests,
        Crash, Boot, PruneSource, disk

\* The source of a record
LEMMA SpecTyped ==
  ASSUME IInv, NEW w \in Wakes, spec[w] # NoSpec
  PROVE  /\ spec[w] \in SpecType /\ spec[w].src \in Sources /\ spec[w].ev \in Events
         /\ spec[w].what \in Kinds
<1>1. spec[w] \in SpecType
  BY ZenonT(40) DEF IInv, TypeOK
<1> QED BY <1>1, ZenonT(40) DEF SpecType

-----------------------------------------------------------------------------
(* One identity per source event                                           *)

LEMMA Gone_Inv ==
  ASSUME IInv, GoneServed, GoneLogged, Effect
  PROVE  GoneServed' /\ GoneLogged'
<1> SUFFICES ASSUME NEW w \in Wakes, w \notin outbox', spec'[w] # NoSpec
             PROVE  /\ Served(w)'
                    /\ \/ spec'[w].src \in srcOver'
                       \/ log'[spec'[w].src][spec'[w].ev] # "none"
  BY ZenonT(40) DEF GoneServed, GoneLogged
<1>1. spec[w] # NoSpec /\ spec'[w] = spec[w]
  BY SpecStays, ZenonT(40)
<1>2. Served(w)
  BY <1>1, RecordStays, ZenonT(40) DEF GoneServed
<1>3. spec[w].src \in srcOver \/ log[spec[w].src][spec[w].ev] # "none"
  BY <1>1, RecordStays, ZenonT(40) DEF GoneLogged, SourceState
<1>4. spec[w].src \in Sources /\ spec[w].ev \in Events
  BY <1>1, SpecTyped, ZenonT(40)
<1>5. spec[w].src \in srcOver' \/ log'[spec[w].src][spec[w].ev] # "none"
  BY <1>3, <1>4, LogStays, OverStays, ZenonT(40) DEF PruneSource
<1> QED BY <1>1, <1>2, <1>5, ServedStays, ZenonT(40)

LEMMA OneWake_Inv ==
  ASSUME IInv, GoneLogged, OneWakePerSource, Effect
  PROVE  OneWakePerSource'
<1>1. CASE Reserves
  <2>1. PICK s \in Sources \ srcOver, what \in Kinds : PrepareNew(s, what) /\ nextEvent[s] \in Events
    BY <1>1, ZenonT(40) DEF Reserves
  <2> DEFINE n == counter + 1
  <2>2. n \in Wakes /\ counter \in Nat
    BY <2>1, OutboxAssumption, SMT DEF PrepareNew, IInv, TypeOK
  <2>3. spec' = [spec EXCEPT ![n] = [src |-> s, ev |-> nextEvent[s], what |-> what]]
    BY <2>1, ZenonT(40) DEF PrepareNew
  <2>4. spec'[n].src = s /\ spec'[n].ev = nextEvent[s]
        /\ \A x \in Wakes : x # n => spec'[x] = spec[x]
    BY <2>2, <2>3, ZenonT(40) DEF IInv, TypeOK
  <2>5. log[s][nextEvent[s]] = "none"
    BY <2>1, SMT DEF IInv, DiskInv, LogInv, TypeOK
  <2>6. ASSUME NEW x \in Wakes, x # n, spec[x].src = s, spec[x].ev = nextEvent[s]
        PROVE  FALSE
    <3>1. spec[x] # NoSpec
      BY <2>1, <2>6, SMT DEF NoSpec
    <3>2. x \in outbox
      BY <2>1, <2>5, <2>6, <3>1, ZenonT(40) DEF GoneLogged
    <3> QED BY <2>1, <2>6, <3>2, ZenonT(40) DEF PrepareNew, PreparedFor
  <2> HIDE DEF n
  <2> SUFFICES ASSUME NEW w1 \in Wakes, NEW w2 \in Wakes, spec'[w1] # NoSpec,
                      spec'[w1].src = spec'[w2].src, spec'[w1].ev = spec'[w2].ev, w1 # w2
               PROVE  FALSE
    BY ZenonT(40) DEF OneWakePerSource
  <2>7. CASE w1 # n /\ w2 # n
    BY <2>4, <2>7, ZenonT(40) DEF OneWakePerSource
  <2>8. CASE w1 = n
    BY <2>4, <2>6, <2>8, ZenonT(40)
  <2>9. CASE w2 = n
    BY <2>4, <2>6, <2>9, ZenonT(40)
  <2> QED BY <2>7, <2>8, <2>9
<1>2. CASE ~ Reserves
  <2>1. spec' = spec
    BY <1>2, ZenonT(40) DEF Effect, Works, Appends, Unlinks, Claims, Binds, Moves, Rests, Crash, Boot,
       Shutdown, PruneSource, disk
  <2> QED BY <2>1, ZenonT(40) DEF OneWakePerSource
<1> QED BY <1>1, <1>2

-----------------------------------------------------------------------------
(* Nothing is appended to a source that is over                            *)

LEMMA Lost_Inv ==
  ASSUME IInv, LostInv, [Next]_vars
  PROVE  LostInv'
<1> DEFINE Quiet == UNCHANGED <<srcOver, step>> /\ pc' \notin {"append", "failsource", "block"}
<1>0. Quiet => LostInv'
  BY ZenonT(40) DEF LostInv
<1>1. ASSUME NEW s \in Sources, CompleteAction(s) \/ BlockSource(s) \/ LaunchAction(s) PROVE LostInv'
  <2>1. s \notin srcOver /\ UNCHANGED srcOver /\ (cur' = s \/ pc' = "up")
    BY <1>1, ZenonT(40) DEF CompleteAction, BlockSource, LaunchAction, Prepare, LostInv
  <2>2. \A t \in Sources : step'[t] = "lost" => step[t] = "lost"
    BY <1>1, ZenonT(40) DEF CompleteAction, BlockSource, LaunchAction, Prepare, memory, IInv, TypeOK
  <2> QED BY <2>1, <2>2, ZenonT(40) DEF LostInv
<1>2. ASSUME NEW s \in Sources, EndSource(s), pc' = "up" PROVE LostInv'
  BY <1>2, ZenonT(40) DEF EndSource, LostInv, IInv, TypeOK
<1>3. CASE AppendSource \/ AppendBlocked
  <2>1. cur \in Sources /\ cur \notin srcOver /\ UNCHANGED <<srcOver, cur>>
    BY <1>3, ZenonT(40) DEF AppendSource, AppendBlocked, IInv, ControlInv, LostInv
  <2>2. \A t \in Sources : step'[t] = "lost" => step[t] = "lost"
    BY <1>3, ZenonT(40) DEF AppendSource, AppendBlocked, IInv, TypeOK
  <2> QED BY <2>1, <2>2, ZenonT(40) DEF LostInv
<1>4. CASE FailSource
  BY <1>2, <1>4, ZenonT(40) DEF FailSource, IInv, ControlInv
<1>5. ASSUME NEW s \in Sources, FinishSource(s) PROVE LostInv'
  BY <1>2, <1>5, ZenonT(40) DEF FinishSource
<1>6. ASSUME NEW s \in Sources, RecoverSource(s) PROVE LostInv'
  <2>1. pc' = "recover" /\ (srcOver' = srcOver \/ srcOver' = srcOver \cup {s})
        /\ step' \in {[step EXCEPT ![s] = "closed"], [step EXCEPT ![s] = "queued"]}
    BY <1>6, ZenonT(40) DEF RecoverSource, SourceReplayed, control
  <2> QED BY <2>1, ZenonT(40) DEF LostInv, IInv, TypeOK
<1>7. CASE ReconcileRecord \/ RetryClaim \/ PersistClaim \/ BindClaim \/ CommitInbound
           \/ PersistTerminal \/ TakeEnvelope \/ EndIntake \/ ValidateWake
  BY <1>0, <1>7, ZenonT(40) DEF ReconcileRecord, PassFrame, RetryClaim, PersistClaim, BindClaim,
     CommitInbound, PersistTerminal, TakeEnvelope, EndIntake, ValidateWake, memory, disk,
     RecordConflict, RecordKept, RecordUnlinked, RecordPublished, PassKeeps
<1>8. CASE EndPass
  <2>1. pc' \in {"refused", "up", "intake", "recover", "boot"}
    BY <1>8, ZenonT(40) DEF EndPass, AfterPass, IInv, TypeOK
  <2> QED BY <1>0, <1>8, <2>1, ZenonT(40) DEF EndPass, disk
<1>9. CASE ClaimsRetried \/ Recovered \/ BeginIntake
  BY <1>0, <1>9, ZenonT(40) DEF ClaimsRetried, Recovered, BeginIntake, StartPass, memory, disk
<1>10. ASSUME NEW r \in Runs, RecoverRun(r) \/ EndRun(r) \/ RetireRun(r) \/ PruneRun(r) PROVE LostInv'
  BY <1>0, <1>10, ZenonT(40) DEF RecoverRun, EndRun, RetireRun, PruneRun, control, memory
<1>11. ASSUME NEW s \in Sources, PruneSource(s) PROVE LostInv'
  BY <1>0, <1>11, ZenonT(40) DEF PruneSource, control, memory
<1>12. ASSUME NEW w \in Wakes, PruneEnvelope(w) PROVE LostInv'
  BY <1>0, <1>12, ZenonT(40) DEF PruneEnvelope, control, memory
<1>13. CASE Crash \/ Shutdown
  BY <1>13, ZenonT(40) DEF Crash, Shutdown, MemoryLost, LostInv
<1>14. CASE Boot
  BY <1>14, ZenonT(40) DEF Boot, LostInv, disk
<1>15. CASE Quiescent \/ UNCHANGED vars
  BY <1>15, ZenonT(40) DEF Quiescent, vars, disk, memory, control, LostInv
<1>16. CASE Continue
  BY <1>16, <1>1, <1>3, <1>4, <1>6, <1>7, <1>8, <1>9, <1>10, ZenonT(40) DEF Continue
<1>17. CASE Prune
  BY <1>17, <1>10, <1>11, <1>12, ZenonT(40) DEF Prune
<1> QED BY <1>1, <1>5, <1>9, <1>10, <1>13, <1>14, <1>15, <1>16, <1>17, ZenonT(40) DEF Next, Produce

-----------------------------------------------------------------------------
(* Without a failing call, logs have no hole at their head                 *)

\* An append at next_event leaves no hole.
LEMMA AppendHead ==
  ASSUME IInv, HeadInv, Appends, pc # "down", faults' = 0
  PROVE  HeadInv'
<1>0. faults \in Nat /\ (faults' = faults \/ faults' = faults + 1)
  <2>1. faults \in Nat
    BY SMT DEF IInv, TypeOK
  <2>2. faults' = faults \/ faults' = faults + 1
    BY ZenonT(40) DEF Appends
  <2> QED BY <2>1, <2>2
<1>1. faults = 0 /\ faults' # faults + 1
  BY <1>0, SMT
<1>2. PICK s \in Sources \ srcOver, what \in EventKinds \ {"none"}, written \in BOOLEAN :
        /\ Append(s, what, written) /\ written
        /\ srcOver' = srcOver \/ srcOver' = srcOver \cup {s}
  BY <1>1, ZenonT(40) DEF Appends
<1>3. 1 \in Events
  BY OutboxAssumption, SMT
<1>4. nextEvent[s] = 1 \/ log[s][1] # "none"
  BY <1>1, <1>2, ZenonT(40) DEF HeadInv
<1>5. log' = [log EXCEPT ![s][nextEvent[s]] = what]
  BY <1>2, ZenonT(40) DEF Append
<1>6. log[s] \in [Events -> EventKinds] /\ log \in [Sources -> [Events -> EventKinds]]
  BY ZenonT(40) DEF IInv, TypeOK, EventKinds
<1>7. log'[s][1] # "none" /\ \A t \in Sources \ {s} : log'[t] = log[t]
  BY <1>2, <1>3, <1>4, <1>5, <1>6, ZenonT(40)
<1>8. \A t \in Sources \ {s} : nextEvent'[t] = nextEvent[t]
  BY <1>2, ZenonT(40) DEF Append, IInv, TypeOK
<1> QED BY <1>1, <1>2, <1>7, <1>8, ZenonT(40) DEF HeadInv

LEMMA Head_Inv ==
  ASSUME IInv, HeadInv, Effect
  PROVE  HeadInv'
<1> SUFFICES ASSUME faults' = 0 PROVE HeadInv'
  BY ZenonT(40) DEF HeadInv
<1>1. \A s \in Sources : log[s] \in [Events -> EventKinds]
  BY ZenonT(40) DEF IInv, TypeOK, EventKinds
<1>2. faults' \in {faults, faults + 1}
  BY ZenonT(40) DEF Effect, Works, Appends, Reserves, PrepareNew, Unlinks, Claims, Binds, Moves, Rests,
     Crash, Boot, Shutdown, PruneSource, bounds
<1>3. faults = 0
  BY <1>2, SMT DEF IInv, TypeOK
<1>4. \A s \in Sources, e \in Events : log[s][e] # "none" => log[s][1] # "none"
  BY <1>3, ZenonT(40) DEF HeadInv
<1>5. CASE (Works /\ ~ Appends /\ pc # "down") \/ (Rests /\ pc' = pc)
  <2>1. UNCHANGED <<log, nextEvent>> /\ srcOver \subseteq srcOver'
    BY <1>5, ZenonT(40) DEF Works, Reserves, Unlinks, Claims, Binds, Moves, Rests
  <2> QED BY <1>3, <1>5, <2>1, ZenonT(40) DEF HeadInv
<1>6. CASE Appends /\ pc # "down"
  BY <1>6, AppendHead, ZenonT(40)
<1>7. ASSUME NEW t \in Sources, PruneSource(t) PROVE HeadInv'
  <2>1. /\ log' = [log EXCEPT ![t] = [e \in Events |-> "none"]] /\ t \in srcOver
        /\ UNCHANGED <<srcOver, nextEvent, pc>>
    BY <1>7, ZenonT(40) DEF PruneSource, memory, control
  <2>2. /\ \A e \in Events : log'[t][e] = "none"
        /\ \A s \in Sources \ {t} : log'[s] = log[s]
    BY <2>1, ZenonT(40) DEF IInv, TypeOK
  <2> QED BY <1>3, <2>1, <2>2, ZenonT(40) DEF HeadInv
<1>8. CASE Crash
  BY <1>3, <1>8, ZenonT(40) DEF HeadInv, Crash, MemoryLost, disk
<1>9. CASE Shutdown
  <2>1. pc = "up" /\ pc' = "down"
    BY <1>9, ZenonT(40) DEF Shutdown, MemoryLost
  <2>2. \A s \in Sources : log'[s] = IF s \in LiveSources THEN [log[s] EXCEPT ![nextEvent[s]] = "end"] ELSE log[s]
    BY <1>9, ZenonT(40) DEF Shutdown
  <2>3. 1 \in Events
    BY OutboxAssumption, SMT
  <2>4. \A s \in LiveSources : log'[s][1] # "none"
    <3> SUFFICES ASSUME NEW s \in LiveSources PROVE log'[s][1] # "none"
      BY ZenonT(40)
    <3>1. s \in Sources /\ (nextEvent[s] = 1 \/ log[s][1] # "none")
      BY <1>3, <2>1, ZenonT(40) DEF LiveSources, HeadInv
    <3> QED BY <1>1, <2>2, <2>3, <3>1, ZenonT(40)
  <2> QED BY <1>4, <2>1, <2>2, <2>4, ZenonT(40) DEF HeadInv
<1>10. CASE Boot
  <2>1. PICK last \in [Sources -> 0..MaxEvents] :
          /\ \A s \in Sources : IsLastEvent(s, last[s])
          /\ nextEvent' = [s \in Sources |-> last[s] + 1]
    BY <1>10, ZenonT(40) DEF Boot
  <2>2. UNCHANGED <<log, srcOver>>
    BY <1>10, ZenonT(40) DEF Boot, disk
  <2>3. ASSUME NEW s \in Sources PROVE nextEvent'[s] = 1 \/ log[s][1] # "none"
    <3>1. nextEvent'[s] = last[s] + 1 /\ last[s] \in 0..MaxEvents
      BY <2>1, ZenonT(40)
    <3>2. CASE last[s] = 0
      BY <3>1, <3>2, SMT
    <3>3. CASE last[s] # 0
      <4>1. last[s] \in Events /\ last[s] > 0
        BY <3>1, <3>3, OutboxAssumption, SMT
      <4> QED BY <1>4, <2>1, <4>1, ZenonT(40) DEF IsLastEvent
    <3> QED BY <3>2, <3>3
  <2> QED BY <1>4, <2>2, <2>3, ZenonT(40) DEF HeadInv
<1> QED BY <1>5, <1>6, <1>7, <1>8, <1>9, <1>10, ZenonT(40) DEF Effect

-----------------------------------------------------------------------------
(* Why a start is refused                                                  *)

\* A record whose source is not exact is not bound.
LEMMA InexactIsUnbound ==
  ASSUME IInv, NEW w \in outbox, SourceState(w) # "exact"
  PROVE  bound[w] = NoRun
<1>1. w \in Wakes /\ Unclaimed(w)
  BY ZenonT(40) DEF IInv, TypeOK, DiskInv, ClaimedIsExact
<1> QED BY <1>1, ZenonT(40) DEF IInv, DiskInv, BoundInv, Unclaimed

\* reconcile_pass fails for a failing call, a clash, or a canceled claim.
LEMMA ConflictExplained ==
  ASSUME IInv, HeadInv, NEW w \in outbox, RecordConflict(w)
  PROVE  faults > 0 \/ ReservationClash \/ CanceledBeforeFirst
<1> SUFFICES ASSUME faults = 0 PROVE ReservationClash \/ CanceledBeforeFirst
  BY SMT DEF IInv, TypeOK
<1>0. w \in Wakes /\ spec[w] # NoSpec
  BY ZenonT(40) DEF IInv, TypeOK, DiskInv, SpecInv
<1>1. CASE SourceVerdict(w) = "conflict"
  <2>1. bound[w] = NoRun /\ SourceState(w) = "conflict"
    BY <1>1, ZenonT(40) DEF SourceVerdict
  <2>2. log[spec[w].src][spec[w].ev] # "none"
    BY <2>1, ZenonT(40) DEF SourceState
  <2>3. log[spec[w].src][1] # "none"
    BY <1>0, <2>2, SpecTyped, ZenonT(40) DEF HeadInv
  <2> QED BY <2>1, <2>3, ZenonT(40) DEF ReservationClash
<1>2. CASE ClaimState(w) = "conflict"
  <2>1. \A r1, r2 \in Claimants(w) : r1 = r2
    BY <1>0, SMT DEF Claimants, IInv, DiskInv, OneRunPerWake
  <2>2. CASE bound[w] # NoRun
    <3>1. bound[w] \in Runs /\ ClaimStateOfRun(bound[w]) = "conflict"
      BY <1>0, <1>2, <2>2, ZenonT(40) DEF ClaimState, IInv, DiskInv, BoundInv
    <3> QED BY <3>1, ZenonT(40) DEF ClaimStateOfRun, CanceledBeforeFirst
  <2>3. CASE bound[w] = NoRun
    <3>1. Claimants(w) # {} /\ ClaimStateOfRun(CHOOSE r \in Claimants(w) : TRUE) = "conflict"
      BY <1>2, <2>1, <2>3, ZenonT(40) DEF ClaimState
    <3>2. (CHOOSE r \in Claimants(w) : TRUE) \in Runs
      BY <3>1, ZenonT(40) DEF Claimants
    <3> QED BY <3>1, <3>2, ZenonT(40) DEF ClaimStateOfRun, CanceledBeforeFirst
  <2> QED BY <2>2, <2>3
<1> QED BY <1>1, <1>2, ZenonT(40) DEF RecordConflict

LEMMA Refuse_Inv ==
  ASSUME IInv, IInv', HeadInv, RefuseInv, [Next]_vars
  PROVE  RefuseInv'
<1> DEFINE Reason == faults > 0 \/ ReservationClash \/ CanceledBeforeFirst
<1> DEFINE Quiet == pc' \notin {"pass", "refused"} \/ (pc' = "pass" /\ bad' = FALSE)
<1>0. Quiet => RefuseInv'
  BY ZenonT(40) DEF RefuseInv, RefusalExplained
<1>1. ASSUME NEW point, Fault(point) PROVE faults' > 0
  BY <1>1, SMT DEF Fault, IInv, TypeOK
<1>2. CASE ReconcileRecord
  <2>1. PICK w \in todo : /\ RecordConflict(w) \/ RecordKept(w)
                             \/ RecordUnlinked(w) \/ RecordPublished(w)
                          /\ PassFrame(w)
    BY <1>2, ZenonT(40) DEF ReconcileRecord
  <2>2. w \in outbox /\ pc = "pass" /\ pc' = "pass"
    BY <1>2, <2>1, ZenonT(40) DEF ReconcileRecord, IInv, ControlInv, PassFrame
  <2>3. UNCHANGED <<log, spec, bound, first>> /\ faults' \in {faults, faults + 1}
    BY <2>1, ZenonT(40) DEF RecordConflict, RecordKept, RecordUnlinked, RecordPublished, PassKeeps, Fault
  <2>4. \A x \in outbox : SourceState(x) # "exact" => x \in outbox'
    <3>1. CASE ~ RecordUnlinked(w)
      BY <2>1, <3>1, ZenonT(40) DEF RecordConflict, RecordKept, RecordPublished, PassKeeps
    <3>2. CASE RecordUnlinked(w)
      <4>1. SourceState(w) = "exact"
        BY <2>2, <3>2, InexactIsUnbound, ZenonT(40) DEF RecordUnlinked, SourceVerdict
      <4> QED BY <3>2, <4>1, ZenonT(40) DEF RecordUnlinked
    <3> QED BY <3>1, <3>2
  <2>5. Reason => Reason'
    <3>1. faults > 0 => faults' > 0
      BY <2>3, SMT DEF IInv, TypeOK
    <3>2. ReservationClash => ReservationClash'
      BY <2>3, <2>4, ZenonT(40) DEF ReservationClash, SourceState
    <3>3. CanceledBeforeFirst => CanceledBeforeFirst'
      BY <2>3, ZenonT(40) DEF CanceledBeforeFirst
    <3> QED BY <3>1, <3>2, <3>3, ZenonT(40)
  <2>6. bad' => bad \/ Reason'
    <3>1. CASE RecordConflict(w)
      BY <2>2, <2>5, <3>1, ConflictExplained, ZenonT(40)
    <3>2. CASE RecordKept(w) \/ RecordUnlinked(w) \/ RecordPublished(w)
      BY <1>1, <3>2, ZenonT(40) DEF RecordKept, RecordUnlinked, RecordPublished
    <3> QED BY <2>1, <3>1, <3>2
  <2> QED BY <2>2, <2>5, <2>6, ZenonT(40) DEF RefuseInv, RefusalExplained
<1>3. CASE EndPass
  <2>1. pc = "pass" /\ UNCHANGED <<log, spec, outbox, bound, first, faults>>
        /\ (pc' = "refused" => bad)
    BY <1>3, ZenonT(40) DEF EndPass, disk, bounds, AfterPass, IInv, TypeOK
  <2>2. Reason => Reason'
    BY <2>1, ZenonT(40) DEF ReservationClash, SourceState, CanceledBeforeFirst
  <2>3. pc' # "pass"
    BY <1>3, ZenonT(40) DEF EndPass, AfterPass, IInv, TypeOK
  <2> QED BY <2>1, <2>2, <2>3, ZenonT(40) DEF RefuseInv, RefusalExplained
<1>4. ASSUME NEW r \in Runs, RecoverRun(r) PROVE RefuseInv'
  <2>1. CASE pc' # "refused"
    BY <1>0, <1>4, <2>1, ZenonT(40) DEF RecoverRun
  <2>2. CASE pc' = "refused"
    <3>1. claim[r] \in processed
      BY <1>4, ZenonT(40) DEF RecoverRun, IInv, DiskInv, MemInv, ClaimEvidencePinned
    <3>2. \/ first[r] = "other" /\ first' = first
          \/ Fault("append")
      BY <1>4, <2>2, <3>1, ZenonT(40) DEF RecoverRun
    <3>3. faults' > 0 \/ CanceledBeforeFirst'
      BY <1>1, <3>2, ZenonT(40) DEF CanceledBeforeFirst
    <3> QED BY <2>2, <3>3, ZenonT(40) DEF RefuseInv, RefusalExplained
  <2> QED BY <2>1, <2>2
<1>5. ASSUME NEW s \in Sources, BlockSource(s) PROVE RefuseInv'
  <2>1. CASE pc' # "refused"
    BY <1>0, <1>5, <2>1, ZenonT(40) DEF BlockSource, Prepare
  <2>2. CASE pc' = "refused"
    <3>1. PrepareRefused(s, "blocked") /\ UNCHANGED <<spec, outbox, bound, log, nextEvent>>
      BY <1>5, <2>2, ZenonT(40) DEF BlockSource, Prepare, memory
    <3>2. CASE \E w \in PreparedFor(s, nextEvent[s]) : spec[w].what # "blocked"
      <4>1. PICK w \in outbox : spec[w].src = s /\ spec[w].ev = nextEvent[s]
        BY <3>2, ZenonT(40) DEF PreparedFor
      <4>2. nextEvent[s] \in Events /\ \E e \in Events : log[s][e] # "none"
        BY <1>5, ZenonT(40) DEF BlockSource, Prepare, HasEvent
      <4>3. log[s][nextEvent[s]] = "none"
        BY <4>2, SMT DEF IInv, DiskInv, LogInv, TypeOK
      <4>4. SourceState(w) # "exact"
        BY <4>1, <4>3, ZenonT(40) DEF SourceState
      <4>5. bound[w] = NoRun
        BY <4>4, InexactIsUnbound, ZenonT(40)
      <4>6. faults = 0 => log[s][1] # "none"
        BY <4>2, ZenonT(40) DEF HeadInv
      <4>7. faults = 0 => ReservationClash'
        BY <3>1, <4>1, <4>4, <4>5, <4>6, ZenonT(40) DEF ReservationClash, SourceState
      <4>8. faults' \in {faults, faults + 1}
        BY <3>1, ZenonT(40) DEF PrepareRefused, Fault
      <4>9. faults # 0 => faults' > 0
        BY <4>8, SMT DEF IInv, TypeOK
      <4> QED BY <2>2, <4>7, <4>9, ZenonT(40) DEF RefuseInv, RefusalExplained
    <3>3. CASE Cardinality(outbox) >= ScanCap
      BY <2>2, <3>1, <3>3, ZenonT(40) DEF RefuseInv, RefusalExplained, OutboxFull
    <3>4. CASE Fault("prepare")
      BY <1>1, <2>2, <3>4, ZenonT(40) DEF RefuseInv, RefusalExplained
    <3> QED BY <3>1, <3>2, <3>3, <3>4, ZenonT(40) DEF PrepareRefused
  <2> QED BY <2>1, <2>2
<1>6. CASE AppendBlocked
  <2>1. Quiet \/ (pc' = "refused" /\ Fault("append"))
    BY <1>6, ZenonT(40) DEF AppendBlocked, AppendFailed, StartPass
  <2> QED BY <1>0, <1>1, <2>1, ZenonT(40) DEF RefuseInv, RefusalExplained
<1>7. ASSUME NEW s \in Sources, Produce(s) \/ RecoverSource(s) PROVE RefuseInv'
  BY <1>0, <1>7, ZenonT(40) DEF Produce, LaunchAction, CompleteAction, FinishSource, RecoverSource,
     Prepare, control
<1>8. CASE AppendSource \/ FailSource \/ RetryClaim \/ ClaimsRetried \/ TakeEnvelope \/ EndIntake
           \/ ValidateWake
  BY <1>0, <1>8, ZenonT(40) DEF AppendSource, FailSource, RetryClaim, ClaimsRetried, TakeEnvelope,
     EndIntake, ValidateWake, StartPass
<1>9. CASE PersistClaim \/ BindClaim \/ CommitInbound \/ PersistTerminal \/ Recovered \/ BeginIntake
           \/ Crash \/ Shutdown \/ Boot
  BY <1>0, <1>9, ZenonT(40) DEF PersistClaim, BindClaim, CommitInbound, PersistTerminal, Recovered,
     BeginIntake, Crash, Shutdown, Boot, MemoryLost, StartPass
<1>10. ASSUME NEW r \in Runs, EndRun(r) \/ RetireRun(r) PROVE RefuseInv'
  BY <1>0, <1>10, ZenonT(40) DEF EndRun, RetireRun, control
<1>11. CASE Prune
  BY <1>0, <1>11, ZenonT(40) DEF Prune, PruneRun, PruneSource, PruneEnvelope, control
<1>12. CASE Quiescent \/ UNCHANGED vars
  <2>1. UNCHANGED <<log, spec, outbox, bound, first, faults, pc, bad>>
    BY <1>12, ZenonT(40) DEF Quiescent, vars, disk, control, bounds
  <2> QED BY <2>1, ZenonT(40) DEF RefuseInv, RefusalExplained, ReservationClash, CanceledBeforeFirst,
          OutboxFull, SourceState
<1>13. CASE Continue
  BY <1>13, <1>2, <1>3, <1>4, <1>5, <1>6, <1>7, <1>8, <1>9, ZenonT(40) DEF Continue
<1> QED BY <1>7, <1>9, <1>10, <1>11, <1>12, <1>13, ZenonT(40) DEF Next

-----------------------------------------------------------------------------
(* The theorems on the state                                               *)

LEMMA Init_WInv == Init => WInv
<1> SUFFICES ASSUME Init PROVE WInv
  BY ZenonT(40)
<1>1. GoneServed /\ GoneLogged /\ OneWakePerSource
  BY ZenonT(40) DEF Init, GoneServed, GoneLogged, OneWakePerSource
<1>2. LostInv /\ HeadInv /\ RefuseInv
  BY ZenonT(40) DEF Init, LostInv, HeadInv, RefuseInv, RefusalExplained
<1> QED BY <1>1, <1>2, ZenonT(40) DEF WInv

LEMMA Next_WInv == IInv /\ IInv' /\ WInv /\ [Next]_vars => WInv' /\ Effect
<1> SUFFICES ASSUME IInv, IInv', WInv, [Next]_vars PROVE WInv' /\ Effect
  BY ZenonT(40)
<1>1. Effect
  BY EveryEffect, ZenonT(40) DEF WInv
<1>2. (GoneServed /\ GoneLogged /\ OneWakePerSource)'
  BY <1>1, Gone_Inv, OneWake_Inv, ZenonT(40) DEF WInv
<1>3. (LostInv /\ HeadInv /\ RefuseInv)'
  BY <1>1, Lost_Inv, Head_Inv, Refuse_Inv, ZenonT(40) DEF WInv
<1> QED BY <1>1, <1>2, <1>3, ZenonT(40) DEF WInv

\* The whole invariant holds in every reachable state.
THEOREM LifecycleInvariance == Spec => [](IInv /\ WInv)
<1>1. Init => IInv /\ WInv
  BY Init_Inv, Init_WInv
<1>2. IInv /\ WInv /\ [Next]_vars => (IInv /\ WInv)'
  BY Next_Inv, Next_WInv
<1> QED BY <1>1, <1>2, PTL DEF Spec

\* One source event reserves one bus identity, however often prepare is
\* repeated, across crashes, failing calls and retention.
THEOREM NoSecondWake == Spec => []OneWakePerSource
<1>1. IInv /\ WInv => OneWakePerSource
  BY ZenonT(40) DEF WInv
<1> QED BY <1>1, LifecycleInvariance, PTL

\* rt_scheduler_init refuses to start for one of four reasons only.
THEOREM RefusalsHaveReasons == Spec => []RefusalExplained
<1>1. IInv /\ WInv => RefusalExplained
  BY ZenonT(40) DEF WInv, RefuseInv
<1> QED BY <1>1, LifecycleInvariance, PTL

-----------------------------------------------------------------------------
(* The outbox implements the wake lifecycle                                *)

Running(w) == \E r \in Runs : claim[r] = w /\ status[r] \in {"waiting", "active"}

StageFacts ==
  \A w \in Wakes :
    /\ Served(w) => WakeStage[w] = "done"
    /\ Running(w) => WakeStage[w] = "running"
    /\ spec[w] = NoSpec => WakeStage[w] = "free"
    /\ spec[w] # NoSpec /\ ~ Served(w) /\ ~ Running(w) =>
         WakeStage[w] = IF SourceState(w) = "exact" THEN "announced" ELSE "reserved"

\* The cases of the stage are disjoint: a wake has one run, and a record.
LEMMA StageIs == IInv => StageFacts
<1> SUFFICES ASSUME IInv, NEW w \in Wakes
             PROVE  /\ Served(w) => WakeStage[w] = "done"
                    /\ Running(w) => WakeStage[w] = "running"
                    /\ spec[w] = NoSpec => WakeStage[w] = "free"
                    /\ spec[w] # NoSpec /\ ~ Served(w) /\ ~ Running(w) =>
                         WakeStage[w] = IF SourceState(w) = "exact" THEN "announced" ELSE "reserved"
  BY ZenonT(40) DEF StageFacts
<1>1. w # 0
  BY SMT
<1>2. ~ (Served(w) /\ Running(w))
  <2> SUFFICES ASSUME Served(w), Running(w) PROVE FALSE
    OBVIOUS
  <2>1. PICK r1 \in Runs : claim[r1] = w /\ status[r1] \in {"terminal", "pruned"}
    BY ZenonT(40) DEF Served
  <2>2. PICK r2 \in Runs : claim[r2] = w /\ status[r2] \in {"waiting", "active"}
    BY ZenonT(40) DEF Running
  <2>3. r1 = r2
    BY <1>1, <2>1, <2>2, ZenonT(40) DEF IInv, DiskInv, OneRunPerWake
  <2> QED BY <2>1, <2>2, <2>3, ZenonT(40)
<1>3. Served(w) \/ Running(w) => spec[w] # NoSpec
  BY <1>1, ZenonT(40) DEF Served, Running, IInv, DiskInv, ClaimInv
<1> DEFINE Run == \E r \in Runs : claim[r] = w /\ status[r] \in {"waiting", "active"}
<1>4. Run <=> Running(w)
  BY ZenonT(40) DEF Running
<1>5. WakeStage[w] =
         CASE Served(w) -> "done"
           [] Run -> "running"
           [] spec[w] = NoSpec -> "free"
           [] OTHER -> IF SourceState(w) = "exact" THEN "announced" ELSE "reserved"
  BY ZenonT(40) DEF WakeStage
<1> HIDE DEF Run
<1> QED BY <1>2, <1>3, <1>4, <1>5, ZenonT(40)

\* The stages are taken in order.
LEMMA AdvanceIs ==
  ASSUME NEW w \in Wakes,
         \/ WakeStage[w] = "free" /\ WakeStage'[w] = "reserved"
         \/ WakeStage[w] = "reserved" /\ WakeStage'[w] = "announced"
         \/ WakeStage[w] = "announced" /\ WakeStage'[w] = "running"
         \/ WakeStage[w] = "running" /\ WakeStage'[w] = "done"
  PROVE  Lifecycle!Advance(w)
<1>1. /\ Lifecycle!Stages[1] = "free" /\ Lifecycle!Stages[2] = "reserved"
      /\ Lifecycle!Stages[3] = "announced" /\ Lifecycle!Stages[4] = "running"
      /\ Lifecycle!Stages[5] = "done"
  BY SMT DEF Lifecycle!Stages
<1>2. 1 \in 1..4 /\ 2 \in 1..4 /\ 3 \in 1..4 /\ 4 \in 1..4
      /\ 1 + 1 = 2 /\ 2 + 1 = 3 /\ 3 + 1 = 4 /\ 4 + 1 = 5
  BY SMT
<1>3. \/ WakeStage[w] = Lifecycle!Stages[1] /\ WakeStage'[w] = Lifecycle!Stages[1 + 1]
      \/ WakeStage[w] = Lifecycle!Stages[2] /\ WakeStage'[w] = Lifecycle!Stages[2 + 1]
      \/ WakeStage[w] = Lifecycle!Stages[3] /\ WakeStage'[w] = Lifecycle!Stages[3 + 1]
      \/ WakeStage[w] = Lifecycle!Stages[4] /\ WakeStage'[w] = Lifecycle!Stages[4 + 1]
  BY <1>1, <1>2, ZenonT(40)
<1> QED BY <1>2, <1>3, ZenonT(40) DEF Lifecycle!Advance

\* Every run with a wake is running or has served it.
LEMMA ClaimedIsTaken ==
  ASSUME IInv, NEW w \in Wakes, ~ Unclaimed(w)
  PROVE  Served(w) \/ Running(w)
<1>1. PICK r \in Runs : claim[r] = w
  BY ZenonT(40) DEF Unclaimed
<1>2. w # 0
  BY SMT
<1>3. status[r] # "none"
  BY <1>1, <1>2, ZenonT(40) DEF IInv, DiskInv, ClaimInv
<1> QED BY <1>1, <1>3, ZenonT(40) DEF Served, Running, IInv, TypeOK

\* No step skips a stage or goes back.
LEMMA StageMoves ==
  ASSUME IInv, StageFacts, StageFacts', IInv', GoneServed, Effect, NEW w \in Wakes
  PROVE  WakeStage'[w] = WakeStage[w] \/ Lifecycle!Advance(w)
<1>1. CASE Served(w)
  <2>1. Served(w)'
    BY <1>1, ServedStays, ZenonT(40)
  <2>2. WakeStage[w] = "done"
    BY <1>1, ZenonT(40) DEF StageFacts
  <2>3. WakeStage'[w] = "done"
    BY <2>1, ZenonT(40) DEF StageFacts
  <2>4. WakeStage'[w] = WakeStage[w]
    BY <2>2, <2>3, ZenonT(40)
  <2> QED BY <2>4, ZenonT(40)
<1>2. CASE Running(w)
  <2>1. PICK r \in Runs : claim[r] = w /\ status[r] \in {"waiting", "active"}
    BY <1>2, ZenonT(40) DEF Running
  <2>2. claim'[r] = w /\ status'[r] # "none"
    BY <2>1, RunStays, ZenonT(40)
  <2>3. status'[r] \in {"none", "waiting", "active", "terminal", "pruned"}
    BY ZenonT(40) DEF IInv, TypeOK
  <2>4. Served(w)' \/ Running(w)'
    BY <2>2, <2>3, ZenonT(40) DEF Served, Running
  <2>5. WakeStage[w] = "running"
    BY <1>2, ZenonT(40) DEF StageFacts
  <2>6. WakeStage'[w] = "done" \/ WakeStage'[w] = "running"
    BY <2>4, ZenonT(40) DEF StageFacts
  <2>7. CASE WakeStage'[w] = "running"
    <3>1. WakeStage'[w] = WakeStage[w]
      BY <2>5, <2>7, ZenonT(40)
    <3> QED BY <3>1, ZenonT(40)
  <2>8. CASE WakeStage'[w] = "done"
    BY <2>5, <2>8, AdvanceIs, ZenonT(40)
  <2> QED BY <2>6, <2>7, <2>8
<1>3. CASE spec[w] = NoSpec
  <2>1. CASE spec'[w] = NoSpec
    <3>1. WakeStage[w] = "free"
      BY <1>3, ZenonT(40) DEF StageFacts
    <3>2. WakeStage'[w] = "free"
      BY <2>1, ZenonT(40) DEF StageFacts
    <3>3. WakeStage'[w] = WakeStage[w]
      BY <3>1, <3>2, ZenonT(40)
    <3> QED BY <3>3, ZenonT(40)
  <2>2. CASE spec'[w] # NoSpec
    <3>1. Reserves /\ w = counter + 1
      BY <1>3, <2>2, SpecStays, ZenonT(40)
    <3>2. PICK s \in Sources, what \in Kinds :
            PrepareNew(s, what) /\ nextEvent[s] \in Events
      BY <3>1, ZenonT(40) DEF Reserves
    <3>3. UNCHANGED <<log, claim, status>>
      BY <3>1, ZenonT(40) DEF Reserves
    <3>4. spec'[w].src = s /\ spec'[w].ev = nextEvent[s]
      BY <3>1, <3>2, ZenonT(40) DEF PrepareNew, IInv, TypeOK
    <3>5. log[s][nextEvent[s]] = "none"
      BY <3>2, SMT DEF IInv, DiskInv, LogInv, TypeOK
    <3>6. SourceState(w)' # "exact"
      BY <3>3, <3>4, <3>5, ZenonT(40) DEF SourceState
    <3>7. w # 0
      BY SMT
    <3>8. ~ Served(w)' /\ ~ Running(w)'
      BY <1>3, <3>3, <3>7, ZenonT(40) DEF Served, Running, IInv, DiskInv, ClaimInv
    <3> QED BY <1>3, <2>2, <3>6, <3>8, AdvanceIs, ZenonT(40) DEF StageFacts
  <2> QED BY <2>1, <2>2
<1>4. CASE spec[w] # NoSpec /\ ~ Served(w) /\ ~ Running(w)
  <2>1. w \in outbox /\ Unclaimed(w) /\ spec'[w] = spec[w]
    BY <1>4, ClaimedIsTaken, SpecStays, ZenonT(40) DEF GoneServed
  <2>2. CASE Unclaimed(w)'
    <3>1. ~ Served(w)' /\ ~ Running(w)'
      BY <2>2, ZenonT(40) DEF Served, Running, Unclaimed
    <3>2. SourceState(w) = "exact" => SourceState(w)' = "exact"
      <4>1. spec[w].src \in Sources /\ spec[w].ev \in Events
        BY <1>4, SpecTyped, ZenonT(40)
      <4>2. ~ PruneSource(spec[w].src)
        BY <2>1, ZenonT(40) DEF PruneSource, SourcePinned
      <4> QED BY <2>1, <4>1, <4>2, LogStays, ZenonT(40) DEF SourceState
    <3> QED BY <1>4, <2>1, <3>1, <3>2, AdvanceIs, ZenonT(40) DEF StageFacts
  <2>3. CASE ~ Unclaimed(w)'
    <3>1. PICK r \in Runs : claim'[r] = w
      BY <2>3, ZenonT(40) DEF Unclaimed
    <3>2. claim' # claim
      BY <2>1, <3>1, ZenonT(40) DEF Unclaimed
    <3>3. Claims
      BY <3>2, ZenonT(40) DEF Effect, Works, Appends, Reserves, Unlinks, Binds, Moves, Rests, Crash, Boot,
         Shutdown, PruneSource, disk
    <3>4. PICK q \in Runs, v \in Wakes :
            /\ WakeIsValid(v)
            /\ claim' = [claim EXCEPT ![q] = v]
            /\ status' = [status EXCEPT ![q] = "waiting"]
      BY <3>3, ZenonT(40) DEF Claims
    <3>5. q = r /\ v = w
      BY <2>1, <3>1, <3>4, ZenonT(40) DEF Unclaimed, IInv, TypeOK
    <3>6. Running(w)'
      BY <3>1, <3>4, <3>5, ZenonT(40) DEF Running, IInv, TypeOK
    <3>7. SourceState(w) = "exact"
      BY <3>4, <3>5, ZenonT(40) DEF WakeIsValid
    <3> QED BY <1>4, <3>6, <3>7, AdvanceIs, ZenonT(40) DEF StageFacts
  <2> QED BY <2>2, <2>3
<1> QED BY <1>1, <1>2, <1>3, <1>4, ZenonT(40)

\* A stage for every wake, and nothing else.
LEMMA StageDomain == WakeStage = [w \in Wakes |-> WakeStage[w]]
<1> DEFINE Run(w) == \E r \in Runs : claim[r] = w /\ status[r] \in {"waiting", "active"}
           F(w) == CASE Served(w) -> "done"
                     [] Run(w) -> "running"
                     [] spec[w] = NoSpec -> "free"
                     [] OTHER -> IF SourceState(w) = "exact" THEN "announced" ELSE "reserved"
<1>1. WakeStage = [w \in Wakes |-> F(w)]
  BY ZenonT(40) DEF WakeStage
<1> HIDE DEF F
<1> QED BY <1>1, SMT

\* The outbox implements WakeLifecycle: across crashes, failing calls,
\* shutdowns and retention a wake identity only moves from reserved to
\* announced to running to done, so its consequence happens at most once.
THEOREM OutboxImplementsLifecycle == Spec => ImplementsLifecycle
<1>1. Init => Lifecycle!Init
  <2> SUFFICES ASSUME Init PROVE Lifecycle!Init
    OBVIOUS
  <2>1. StageFacts
    BY Init_Inv, StageIs, ZenonT(40)
  <2>2. \A w \in Wakes : WakeStage[w] = "free"
    BY <2>1, ZenonT(40) DEF Init, StageFacts
  <2>3. Lifecycle!Stages[1] = "free"
    BY SMT DEF Lifecycle!Stages
  <2>4. WakeStage = [w \in Wakes |-> WakeStage[w]]
    BY StageDomain
  <2> QED BY <2>2, <2>3, <2>4, ZenonT(40) DEF Lifecycle!Init
<1>2. IInv' => StageFacts'
  BY StageIs, PTL
<1>4. (WakeStage = [w \in Wakes |-> WakeStage[w]])'
  BY StageDomain, PTL
<1>3. IInv /\ WInv /\ IInv' /\ [Next]_vars => [Lifecycle!Next]_WakeStage
  <2> SUFFICES ASSUME IInv, WInv, IInv', [Next]_vars PROVE Lifecycle!Next
    OBVIOUS
  <2>1. Effect
    BY Next_WInv
  <2>2. \A w \in Wakes : WakeStage'[w] = WakeStage[w] \/ Lifecycle!Advance(w)
    BY <1>2, <2>1, StageIs, StageMoves, ZenonT(40) DEF WInv
  <2>3. \A w \in Wakes : WakeStage'[w] \in {"free", "reserved", "announced", "running", "done"}
    BY <1>2, ZenonT(40) DEF StageFacts
  <2>4. {"free", "reserved", "announced", "running", "done"} \subseteq {Lifecycle!Stages[i] : i \in 1..5}
    BY SMT DEF Lifecycle!Stages
  <2>5. WakeStage' = [w \in Wakes |-> WakeStage'[w]]
    BY <1>4, ZenonT(40)
  <2> QED BY <2>2, <2>3, <2>4, <2>5, ZenonT(40) DEF Lifecycle!Next
<1> QED BY <1>1, <1>3, LifecycleInvariance, PTL DEF Spec, ImplementsLifecycle, Lifecycle!Spec
=============================================================================
