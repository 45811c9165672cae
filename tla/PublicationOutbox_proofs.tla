---------------------- MODULE PublicationOutbox_proofs ----------------------
(***************************************************************************)
(* For every set of sources, every bound and every choice of failing       *)
(* calls: a wake on the bus has its record and its exact source, and one   *)
(* wake creates at most one run.                                           *)
(***************************************************************************)
EXTENDS PublicationOutbox, TLAPS

Unclaimed(w) == \A r \in Runs : claim[r] # w

\* ids at or above next_event are free: an append never overwrites
LogInv ==
  \A s \in Sources : \A e \in Events : e >= nextEvent[s] => log[s][e] = "none"

SpecInv ==
  /\ \A w \in Wakes : spec[w] # NoSpec => w <= counter
  /\ \A w \in outbox : spec[w] # NoSpec

\* a record is bound to the run that its wake created
BoundInv ==
  \A w \in Wakes : bound[w] # NoRun => bound[w] \in Runs /\ claim[bound[w]] = w

ClaimInv ==
  /\ \A r \in Runs : status[r] = "none" <=> claim[r] = 0
  /\ \A r \in Runs : claim[r] # 0 => spec[claim[r]] # NoSpec

\* retention prunes a run only after its record is gone
PrunedInv == \A r \in Runs : status[r] = "pruned" => claim[r] \notin outbox

\* the scheduler's view of a run agrees with the disk
MemInv ==
  /\ \A r \in Runs : mem[r] = "waiting" => status[r] = "waiting"
  /\ \A r \in Runs : mem[r] = "lost" => status[r] \in {"waiting", "active"}
  /\ \A r \in Runs : mem[r] = "ready" => status[r] = "active"
  /\ \A r \in Runs : mem[r] = "over" => status[r] \in {"active", "terminal"}

InboxInv == \A w \in inbox : Unclaimed(w) /\ WakeIsValid(w)

\* a claimed record has an exact source, whatever it is bound to
ClaimedIsExact ==
  \A w \in outbox : ~Unclaimed(w) => SourceState(w) = "exact"

DiskInv ==
  /\ LogInv /\ SpecInv /\ BoundInv /\ ClaimInv /\ PrunedInv /\ MemInv
  /\ InboxInv /\ ClaimedIsExact /\ OneRunPerWake /\ ClaimEvidencePinned

\* where the thread stands
ControlInv ==
  /\ pc \in {"append", "failsource", "block"} => cur \in Sources
  /\ pc = "pass" => todo \subseteq outbox
  /\ pc = "claims" => \A r \in todo : r \in Runs /\ mem[r] = "waiting"
  /\ pc \in {"validate", "persist"} =>
       /\ cur \in Wakes /\ cur \in processed /\ cur \notin inbox
       /\ Unclaimed(cur)
       /\ WakeIsValid(cur)
       /\ \E r \in Runs : status[r] = "none"
  /\ pc \in {"bind", "commit"} =>
       /\ run \in Runs /\ cur \in Wakes /\ claim[run] = cur
       /\ mem[run] = "waiting"
  /\ pc = "terminal" => run \in Runs /\ mem[run] = "over"

IInv == TypeOK /\ DiskInv /\ ControlInv

-----------------------------------------------------------------------------
(* Type correctness *)

USE DEF Events, Wakes, Runs, NoRun, Kinds

EventKinds == {"none", "started", "end"} \cup Kinds

\* An append keeps logs and event counters typed.
LEMMA AppendType ==
  ASSUME TypeOK, NEW s \in Sources, NEW what \in EventKinds,
         NEW written \in BOOLEAN, Append(s, what, written)
  PROVE  /\ log' \in [Sources -> [Events -> EventKinds]]
         /\ nextEvent' \in [Sources -> Nat \ {0}]
<1>1. log \in [Sources -> [Events -> EventKinds]]
  BY ZenonT(40) DEF TypeOK, EventKinds
<1>2. [log[s] EXCEPT ![nextEvent[s]] = what] \in [Events -> EventKinds]
  BY ZenonT(40), <1>1
<1>3. log' \in [Sources -> [Events -> EventKinds]]
  BY ZenonT(40), <1>1, <1>2 DEF Append
<1>4. nextEvent' \in [Sources -> Nat \ {0}]
  BY DEF TypeOK, Append
<1>5. QED
  BY ZenonT(40), <1>3, <1>4

\* A failing call counts one fault, within the bound.
LEMMA FaultType ==
  ASSUME TypeOK, NEW point, Fault(point)
  PROVE  faults' \in 0..MaxFaults
BY OutboxAssumption DEF TypeOK, Fault

-----------------------------------------------------------------------------
(* What each kind of effect does to the invariant *)

view == <<log, spec, outbox, bound, counter, inbox, processed, claim, status,
          mem, nextEvent>>

\* A step that leaves logs, records, envelopes and runs alone keeps the disk
\* invariant.
LEMMA SameView ==
  ASSUME DiskInv, UNCHANGED view
  PROVE  DiskInv'
BY DEF DiskInv, view, LogInv, SpecInv, BoundInv, ClaimInv, PrunedInv, MemInv, InboxInv,
       ClaimedIsExact, OneRunPerWake, ClaimEvidencePinned, Unclaimed,
       WakeIsValid, SourceState

\* A reserved identity without a record changes nothing else.
LEMMA SameRecords ==
  ASSUME DiskInv, SpecInv',
         UNCHANGED <<log, spec, outbox, bound, inbox, processed, claim, status,
                     mem, nextEvent>>
  PROVE  DiskInv'
<1>1. (LogInv /\ BoundInv /\ ClaimInv /\ PrunedInv /\ MemInv /\ OneRunPerWake)'
  BY ZenonT(40) DEF DiskInv, LogInv, BoundInv, ClaimInv, PrunedInv, MemInv, OneRunPerWake
<1>2. (InboxInv /\ ClaimedIsExact /\ ClaimEvidencePinned)'
  BY ZenonT(40) DEF DiskInv, InboxInv, ClaimedIsExact, ClaimEvidencePinned, Unclaimed,
         WakeIsValid, SourceState
<1>3. QED
  BY ZenonT(40), <1>1, <1>2 DEF DiskInv

\* An append keeps every committed event where it is.
LEMMA AppendKeepsSources ==
  ASSUME TypeOK, LogInv, NEW s \in Sources, NEW what \in EventKinds \ {"none"},
         NEW written \in BOOLEAN, Append(s, what, written), UNCHANGED spec,
         NEW w \in Wakes, spec[w] # NoSpec, SourceState(w) = "exact"
  PROVE  SourceState(w)' = "exact"
<1>1. spec[w] \in SpecType
  BY ZenonT(40) DEF TypeOK
<1>2. log[spec[w].src][spec[w].ev] # "none"
  BY ZenonT(40) DEF SourceState
<1>3. spec[w].src \in Sources /\ spec[w].ev \in Events
  BY ZenonT(40), <1>1 DEF SpecType
<1>4. spec[w].src = s => spec[w].ev # nextEvent[s]
  BY <1>2, <1>3 DEF LogInv, TypeOK
<1>5. log'[spec[w].src][spec[w].ev] = log[spec[w].src][spec[w].ev]
  BY ZenonT(40), <1>3, <1>4 DEF Append, TypeOK
<1>6. QED
  BY ZenonT(40), <1>5 DEF SourceState

\* An append to any log keeps the whole disk invariant.
LEMMA AppendKeeps ==
  ASSUME TypeOK, DiskInv, NEW s \in Sources, NEW what \in EventKinds \ {"none"},
         NEW written \in BOOLEAN, Append(s, what, written),
         UNCHANGED <<spec, outbox, bound, counter, inbox, processed, claim,
                     status, mem>>
  PROVE  DiskInv'
<1> USE DEF DiskInv
<1>1. \A w \in outbox : SourceState(w) = "exact" => SourceState(w)' = "exact"
  <2>1. \A w \in outbox : w \in Wakes /\ spec[w] # NoSpec
    BY ZenonT(40) DEF TypeOK, SpecInv
  <2>2. QED
    BY ZenonT(40), <2>1, AppendKeepsSources, ZenonT(40)
<1>2. LogInv'
  BY DEF LogInv, TypeOK, Append
<1>3. (SpecInv /\ BoundInv /\ ClaimInv /\ PrunedInv /\ MemInv /\ OneRunPerWake)'
  BY ZenonT(40) DEF SpecInv, BoundInv, ClaimInv, PrunedInv, MemInv, OneRunPerWake
<1>4. (InboxInv /\ ClaimedIsExact /\ ClaimEvidencePinned)'
  BY ZenonT(40), <1>1 DEF InboxInv, ClaimedIsExact, ClaimEvidencePinned, Unclaimed,
              WakeIsValid
<1>5. QED
  BY ZenonT(40), <1>2, <1>3, <1>4

\* A new record: its identity was never used before.
LEMMA PrepareKeeps ==
  ASSUME TypeOK, DiskInv, NEW s \in Sources, NEW what \in Kinds,
         PrepareNew(s, what),
         UNCHANGED <<log, inbox, processed, claim, status, mem, nextEvent>>
  PROVE  DiskInv'
<1> USE DEF DiskInv
<1>1. counter + 1 \in Wakes /\ spec[counter + 1] = NoSpec
  BY OutboxAssumption DEF PrepareNew, TypeOK, SpecInv
<1>2. Unclaimed(counter + 1)
  BY <1>1 DEF ClaimInv, Unclaimed
<1>3. \A w \in Wakes \ {counter + 1} : spec'[w] = spec[w]
  BY ZenonT(40) DEF PrepareNew, TypeOK
<1>4. \A w \in outbox : SourceState(w)' = SourceState(w)
  BY ZenonT(40), <1>1, <1>3 DEF SourceState, SpecInv, TypeOK
<1>5. spec'[counter + 1] # NoSpec
  BY ZenonT(40), <1>1 DEF PrepareNew, TypeOK, NoSpec
<1>6. SpecInv'
  BY <1>3, <1>5 DEF SpecInv, PrepareNew, TypeOK
<1>7. ClaimInv'
  BY ZenonT(40), <1>3, <1>5, <1>2 DEF ClaimInv, TypeOK
<1>8. (LogInv /\ BoundInv /\ PrunedInv /\ MemInv /\ OneRunPerWake)'
  BY <1>2 DEF LogInv, BoundInv, PrunedInv, MemInv, OneRunPerWake, PrepareNew,
              Unclaimed
<1>9. (InboxInv /\ ClaimedIsExact /\ ClaimEvidencePinned)'
  BY ZenonT(40), <1>2, <1>4 DEF InboxInv, ClaimedIsExact, ClaimEvidencePinned, Unclaimed,
                    WakeIsValid, PrepareNew
<1>10. QED
  BY ZenonT(40), <1>6, <1>7, <1>8, <1>9

\* A record is removed once the run of its wake is durably over.
LEMMA UnlinkKeeps ==
  ASSUME TypeOK, DiskInv, NEW w \in outbox, NEW r \in Runs,
         claim[r] = w, status[r] \in {"terminal", "pruned"},
         outbox' = outbox \ {w},
         UNCHANGED <<log, spec, bound, counter, inbox, processed, claim, status,
                     nextEvent>>,
         MemInv'
  PROVE  DiskInv'
<1> USE DEF DiskInv
<1>1. w \notin inbox
  BY ZenonT(40) DEF InboxInv, Unclaimed
<1>2. \A x \in Runs : status[x] \in {"waiting", "active"} => claim[x] # w
  BY ZenonT(40) DEF OneRunPerWake, ClaimInv, TypeOK
<1>3. (LogInv /\ SpecInv /\ BoundInv /\ ClaimInv /\ PrunedInv /\ OneRunPerWake)'
  BY DEF LogInv, SpecInv, BoundInv, ClaimInv, PrunedInv, OneRunPerWake
<1>4. (InboxInv /\ ClaimedIsExact /\ ClaimEvidencePinned)'
  BY <1>1, <1>2 DEF InboxInv, ClaimedIsExact, ClaimEvidencePinned, Unclaimed,
                    WakeIsValid, SourceState
<1>5. QED
  BY ZenonT(40), <1>3, <1>4

\* A wake nobody claims goes (back) to the inbox.
LEMMA PublishKeeps ==
  ASSUME TypeOK, DiskInv, NEW w \in outbox, Unclaimed(w),
         SourceState(w) = "exact",
         inbox' = inbox \cup {w}, processed' = processed \ {w},
         UNCHANGED <<log, spec, outbox, bound, counter, claim, status, mem,
                     nextEvent>>
  PROVE  DiskInv'
<1> USE DEF DiskInv
<1>1. (LogInv /\ SpecInv /\ BoundInv /\ ClaimInv /\ PrunedInv /\ OneRunPerWake /\ MemInv)'
  BY ZenonT(40) DEF LogInv, SpecInv, BoundInv, ClaimInv, PrunedInv, OneRunPerWake, MemInv
<1>2. (InboxInv /\ ClaimedIsExact /\ ClaimEvidencePinned)'
  BY ZenonT(40) DEF InboxInv, ClaimedIsExact, ClaimEvidencePinned, Unclaimed,
         WakeIsValid, SourceState
<1>3. QED
  BY ZenonT(40), <1>1, <1>2

\* A run moves on, but never back from terminal to unfinished.
LEMMA StatusKeeps ==
  ASSUME DiskInv, MemInv',
         UNCHANGED <<log, spec, outbox, bound, counter, inbox, processed, claim,
                     nextEvent>>,
         \A x \in Runs : status'[x] = "none" <=> status[x] = "none",
         \A x \in Runs : status'[x] \in {"waiting", "active"}
                            => status[x] \in {"waiting", "active"},
         \A x \in Runs : status'[x] = "pruned"
                            => status[x] = "pruned" \/ claim[x] \notin outbox
  PROVE  DiskInv'
<1> USE DEF DiskInv
<1>1. (LogInv /\ SpecInv /\ BoundInv /\ ClaimInv /\ PrunedInv /\ OneRunPerWake)'
  BY ZenonT(40) DEF LogInv, SpecInv, BoundInv, ClaimInv, PrunedInv, OneRunPerWake
<1>2. (InboxInv /\ ClaimedIsExact /\ ClaimEvidencePinned)'
  BY DEF InboxInv, ClaimedIsExact, ClaimEvidencePinned, Unclaimed,
         WakeIsValid, SourceState
<1>3. QED
  BY ZenonT(40), <1>1, <1>2

\* The first event of run r is on disk.
LEMMA InboundKeeps ==
  ASSUME TypeOK, DiskInv, NEW r \in Runs, status[r] \in {"waiting", "active"},
         InboundCommitted(r),
         UNCHANGED <<log, spec, outbox, bound, counter, inbox, processed, claim,
                     nextEvent>>
  PROVE  DiskInv'
<1>1. MemInv'
  BY DEF DiskInv, MemInv, InboundCommitted, TypeOK
<1>2. /\ \A x \in Runs : status'[x] = "none" <=> status[x] = "none"
      /\ \A x \in Runs : status'[x] \in {"waiting", "active"}
                            => status[x] \in {"waiting", "active"}
      /\ \A x \in Runs : status'[x] = "pruned" => status[x] = "pruned"
  BY ZenonT(40) DEF InboundCommitted, TypeOK
<1>3. QED
  BY ZenonT(40), <1>1, <1>2, StatusKeeps

\* A new run takes the wake that is being admitted.
LEMMA ClaimKeeps ==
  ASSUME TypeOK, DiskInv, NEW r \in Runs, status[r] = "none",
         NEW w \in Wakes, Unclaimed(w), WakeIsValid(w), w \in processed,
         w \notin inbox,
         claim' = [claim EXCEPT ![r] = w],
         status' = [status EXCEPT ![r] = "waiting"],
         mem' = [mem EXCEPT ![r] = "waiting"],
         UNCHANGED <<log, spec, outbox, bound, counter, inbox, processed,
                     nextEvent>>
  PROVE  DiskInv'
<1> USE DEF DiskInv
<1>1. claim[r] = 0
  BY ZenonT(40) DEF ClaimInv
<1>2. w # 0 /\ spec[w] # NoSpec
  BY DEF SpecInv, WakeIsValid
<1>3. \A x \in Runs \ {r} : claim'[x] = claim[x] /\ status'[x] = status[x]
  BY ZenonT(40) DEF TypeOK
<1>4. claim'[r] = w /\ status'[r] = "waiting"
  BY ZenonT(40) DEF TypeOK
<1>5. ClaimInv'
  BY <1>2, <1>3, <1>4 DEF ClaimInv
<1>6. BoundInv'
  BY <1>1, <1>3 DEF BoundInv, TypeOK
<1>7. OneRunPerWake'
  BY <1>3, <1>4 DEF OneRunPerWake, Unclaimed
<1>8. (LogInv /\ SpecInv /\ PrunedInv /\ MemInv)'
  BY DEF LogInv, SpecInv, PrunedInv, MemInv, TypeOK
<1>9. InboxInv'
  BY <1>3, <1>4 DEF InboxInv, Unclaimed, WakeIsValid, SourceState
<1>10. ClaimedIsExact'
  BY <1>3, <1>4 DEF ClaimedIsExact, Unclaimed, WakeIsValid, SourceState
<1>11. ClaimEvidencePinned'
  BY <1>3, <1>4 DEF ClaimEvidencePinned, WakeIsValid, SourceState
<1>12. QED
  BY ZenonT(40), <1>5, <1>6, <1>7, <1>8, <1>9, <1>10, <1>11

-----------------------------------------------------------------------------
(* The invariant holds initially and is preserved by every action *)

\* The invariant holds of an empty appliance.
LEMMA Init_Inv == Init => IInv
<1> SUFFICES ASSUME Init PROVE IInv
  BY ZenonT(40)
<1>1. TypeOK
  <2>1. /\ log \in [Sources -> [Events -> EventKinds]]
        /\ spec \in [Wakes -> SpecType \cup {NoSpec}]
        /\ bound \in [Wakes -> Runs \cup {NoRun}]
        /\ claim \in [Runs -> Wakes \cup {0}]
    BY ZenonT(40) DEF Init, EventKinds
  <2>2. /\ status \in [Runs -> {"none", "waiting", "active", "terminal", "pruned"}]
        /\ first \in [Runs -> {"none", "exact", "other"}]
        /\ step \in [Sources -> {"queued", "running", "closed", "lost"}]
        /\ nextEvent \in [Sources -> Nat \ {0}]
        /\ mem \in [Runs -> {"none", "waiting", "ready", "over", "lost"}]
    BY DEF Init
  <2>3. /\ counter \in 0..MaxWakes /\ crashes \in 0..MaxCrashes
        /\ shutdowns \in 0..MaxShutdowns /\ faults \in 0..MaxFaults
    BY OutboxAssumption DEF Init
  <2>4. QED
    BY ZenonT(40), <2>1, <2>2, <2>3 DEF Init, TypeOK, EventKinds
<1>2. DiskInv
  BY ZenonT(40) DEF Init, DiskInv, LogInv, SpecInv, BoundInv, ClaimInv, PrunedInv, MemInv, InboxInv,
         ClaimedIsExact, OneRunPerWake, ClaimEvidencePinned, Unclaimed
<1>3. ControlInv
  BY ZenonT(40) DEF Init, ControlInv
<1>4. QED
  BY ZenonT(40), <1>1, <1>2, <1>3 DEF IInv

\* Starting an action appends to its own log only.
LEMMA LaunchAction_Inv ==
  ASSUME IInv, NEW s \in Sources, LaunchAction(s)
  PROVE  IInv'
<1> USE DEF IInv, LaunchAction
<1>1. PICK written \in BOOLEAN : Append(s, "started", written)
  BY ZenonT(40) DEF AppendOk, AppendFailed
<1>2. faults' \in 0..MaxFaults
  BY ZenonT(40), FaultType DEF AppendOk, AppendFailed, TypeOK
<1>3. step' \in [Sources -> {"queued", "running", "closed", "lost"}]
  BY ZenonT(40) DEF TypeOK
<1>4. pc' \in {"up", "failsource"} /\ (pc' = "failsource" => cur' = s)
  BY ZenonT(40)
<1>a. /\ log' \in [Sources -> [Events -> EventKinds]]
      /\ nextEvent' \in [Sources -> Nat \ {0}]
  BY ZenonT(40), <1>1, AppendType DEF EventKinds
<1>5. TypeOK'
  BY ZenonT(40), <1>a, <1>2, <1>3, <1>4 DEF TypeOK, EventKinds, stops
<1>6. DiskInv'
  BY ZenonT(40), <1>1, AppendKeeps DEF EventKinds
<1>7. ControlInv'
  BY ZenonT(40), <1>4 DEF ControlInv
<1>8. QED
  BY ZenonT(40), <1>5, <1>6, <1>7

\* rt_publication_outbox_prepare writes a record under an unused identity.
LEMMA Prepare_Inv ==
  ASSUME IInv, NEW s \in Sources, NEW what \in Kinds,
         NEW ok \in {"append", "block"},
         NEW refused \in {"failsource", "refused"},
         Prepare(s, what, ok, refused)
  PROVE  IInv'
<1> USE DEF IInv, Prepare, memory, stops
<1>1. counter' \in 0..MaxWakes
  BY OutboxAssumption DEF PrepareReuse, PrepareNew, PrepareRefused, TypeOK
<1>2. faults' \in 0..MaxFaults
  BY ZenonT(40), FaultType DEF PrepareReuse, PrepareNew, PrepareRefused, TypeOK
<1>3. PrepareNew(s, what) => spec' \in [Wakes -> SpecType \cup {NoSpec}]
  BY OutboxAssumption DEF PrepareNew, TypeOK, SpecType
<1>4. PrepareNew(s, what) => outbox' \subseteq Wakes
  BY OutboxAssumption DEF PrepareNew, TypeOK
<1>5. spec' \in [Wakes -> SpecType \cup {NoSpec}] /\ outbox' \subseteq Wakes
  BY ZenonT(40), <1>3, <1>4 DEF PrepareReuse, TypeOK
<1>6. bound' = bound /\ cur' = s /\ pc' \in {ok, refused}
  BY ZenonT(40) DEF PrepareReuse, PrepareNew
<1>7. TypeOK'
  BY ZenonT(40), <1>1, <1>2, <1>5, <1>6 DEF TypeOK
<1>8. DiskInv'
  <2>1. CASE PrepareNew(s, what)
    BY ZenonT(40), <2>1, PrepareKeeps
  <2>2. CASE ~PrepareNew(s, what)
    <3>1. counter' = counter \/ counter' = counter + 1
      BY ZenonT(40) DEF PrepareReuse, PrepareNew, PrepareRefused
    <3>2. UNCHANGED <<log, spec, outbox, bound, inbox, processed, claim, status,
                      mem, nextEvent>>
      BY ZenonT(40), <2>2 DEF PrepareReuse
    <3>3. SpecInv'
      BY <3>1, <3>2 DEF DiskInv, SpecInv, TypeOK
    <3>4. QED
      BY ZenonT(40), <3>2, <3>3, SameRecords
  <2>3. QED
    BY ZenonT(40), <2>1, <2>2
<1>9. ControlInv'
  BY ZenonT(40), <1>6 DEF ControlInv
<1>10. QED
  BY ZenonT(40), <1>7, <1>8, <1>9

\* A finished action, or a blocked one, prepares its record before its event.
LEMMA CompleteAction_Inv ==
  ASSUME IInv, NEW s \in Sources, CompleteAction(s) \/ BlockSource(s)
  PROVE  IInv'
BY ZenonT(40), Prepare_Inv DEF CompleteAction, BlockSource

\* the source append, live or in recovery: success starts a pass
LEMMA SourceAppend_Inv ==
  ASSUME IInv, AppendSource \/ AppendBlocked
  PROVE  IInv'
<1> USE DEF IInv
<1>1. cur \in Sources
  BY ZenonT(40) DEF AppendSource, AppendBlocked, ControlInv
<1>2. PICK what \in Kinds, written \in BOOLEAN : Append(cur, what, written)
  BY ZenonT(40) DEF AppendSource, AppendBlocked, AppendOk, AppendFailed
<1>3. /\ log' \in [Sources -> [Events -> EventKinds]]
      /\ nextEvent' \in [Sources -> Nat \ {0}]
  BY ZenonT(40), <1>1, <1>2, AppendType DEF EventKinds
<1>4. faults' \in 0..MaxFaults
  BY ZenonT(40), FaultType DEF AppendSource, AppendBlocked, AppendOk, AppendFailed, TypeOK
<1>5. UNCHANGED <<srcOver, spec, outbox, bound, counter, inbox, processed,
                  claim, status, first, ended, mem, retry, cur, run, stops>>
  BY ZenonT(40) DEF AppendSource, AppendBlocked
<1>6. step' \in [Sources -> {"queued", "running", "closed", "lost"}]
  BY ZenonT(40) DEF AppendSource, AppendBlocked, TypeOK
<1>7. \/ pc' = "pass" /\ todo' = outbox /\ bad' = FALSE
           /\ ret' \in {"up", "recover"}
      \/ pc' \in {"failsource", "refused"} /\ UNCHANGED <<todo, bad, ret>>
  BY ZenonT(40) DEF AppendSource, AppendBlocked, StartPass
<1>8. TypeOK'
  BY ZenonT(40), <1>3, <1>4, <1>5, <1>6, <1>7 DEF TypeOK, EventKinds, stops
<1>9. DiskInv'
  BY ZenonT(40), <1>1, <1>2, <1>5, AppendKeeps DEF EventKinds
<1>10. ControlInv'
  BY ZenonT(40), <1>1, <1>5, <1>7 DEF ControlInv
<1>11. QED
  BY ZenonT(40), <1>8, <1>9, <1>10

\* A source's run ends: its log gets its terminal event.
LEMMA EndSource_Inv ==
  ASSUME IInv, FailSource \/ \E s \in Sources : FinishSource(s)
  PROVE  IInv'
<1> USE DEF IInv, bounds
<1>1. PICK s \in Sources : EndSource(s) /\ pc' = "up"
  BY ZenonT(40) DEF FailSource, FinishSource, ControlInv
<1>2. Append(s, "end", TRUE)
  BY ZenonT(40), <1>1 DEF EndSource
<1>3. /\ log' \in [Sources -> [Events -> EventKinds]]
      /\ nextEvent' \in [Sources -> Nat \ {0}]
  BY ZenonT(40), <1>2, AppendType DEF EventKinds
<1>4. srcOver' \subseteq Sources
      /\ step' \in [Sources -> {"queued", "running", "closed", "lost"}]
  BY ZenonT(40), <1>1 DEF EndSource, TypeOK
<1>5. TypeOK'
  BY ZenonT(40), <1>1, <1>3, <1>4 DEF EndSource, TypeOK, EventKinds
<1>6. DiskInv'
  BY ZenonT(40), <1>1, <1>2, AppendKeeps DEF EndSource, EventKinds
<1>7. ControlInv'
  BY ZenonT(40), <1>1 DEF ControlInv
<1>8. QED
  BY ZenonT(40), <1>5, <1>6, <1>7

\* A pass, record by record.
LEMMA TerminalIsServed ==
  ASSUME TypeOK, DiskInv, NEW w \in outbox, ClaimState(w) = "terminal"
  PROVE  \E r \in Runs : claim[r] = w /\ status[r] \in {"terminal", "pruned"}
<1> USE DEF DiskInv
<1>1. CASE bound[w] # NoRun
  <2>1. bound[w] \in Runs /\ claim[bound[w]] = w
    BY ZenonT(40), <1>1 DEF BoundInv, TypeOK
  <2>2. w # 0
    BY DEF TypeOK
  <2>3. status[bound[w]] # "none"
    BY ZenonT(40), <2>1, <2>2 DEF ClaimInv
  <2>4. status[bound[w]] \in {"terminal", "pruned"}
    BY ZenonT(40), <1>1, <2>1, <2>3 DEF ClaimState, ClaimStateOfRun, OnDisk, TypeOK
  <2>5. QED
    BY ZenonT(40), <2>1, <2>4
<1>2. CASE bound[w] = NoRun
  <2>1. Claimants(w) # {}
    BY ZenonT(40), <1>2 DEF ClaimState
  <2>2. PICK r \in Claimants(w) : ClaimStateOfRun(r) = "terminal"
    BY ZenonT(40), <1>2, <2>1 DEF ClaimState
  <2>3. QED
    BY ZenonT(40), <2>2 DEF Claimants, ClaimStateOfRun
<1>3. QED
  BY ZenonT(40), <1>1, <1>2

\* A wake for which no run is bound or found is unclaimed.
LEMMA NoClaimIsUnclaimed ==
  ASSUME TypeOK, DiskInv, NEW w \in outbox, ClaimState(w) = "none"
  PROVE  Unclaimed(w)
<1> USE DEF DiskInv
<1>1. bound[w] = NoRun
  BY ZenonT(40) DEF ClaimState, ClaimStateOfRun
<1>2. Claimants(w) = {}
  <2>1. SUFFICES ASSUME Claimants(w) # {} PROVE FALSE
    BY ZenonT(40)
  <2>2. PICK r \in Claimants(w) : ClaimStateOfRun(r) = "none"
    BY ZenonT(40), <1>1, <2>1 DEF ClaimState
  <2>3. QED
    BY ZenonT(40), <2>2 DEF ClaimStateOfRun
<1>3. QED
  BY <1>2 DEF Claimants, OnDisk, Unclaimed, PrunedInv, ClaimInv, TypeOK

\* One record of the reconcile pass: published, dropped, or left alone.
LEMMA ReconcileRecord_Inv ==
  ASSUME IInv, ReconcileRecord
  PROVE  IInv'
<1> USE DEF IInv, memory, stops
<1>1. PICK w \in todo :
        /\ PassFrame(w)
        /\ \/ RecordConflict(w) \/ RecordKept(w)
           \/ RecordUnlinked(w) \/ RecordPublished(w)
  BY ZenonT(40) DEF ReconcileRecord
<1>2. pc = "pass" /\ pc' = "pass" /\ w \in outbox
  BY ZenonT(40), <1>1 DEF ReconcileRecord, ControlInv, PassFrame
<1>3. UNCHANGED <<log, srcOver, spec, bound, counter, claim, status, first,
                  ended, step, nextEvent, mem, retry, pc, cur, run, ret,
                  crashes, shutdowns>> /\ todo' = todo \ {w}
  BY ZenonT(40), <1>1 DEF PassFrame, RecordConflict, RecordKept, RecordUnlinked,
              RecordPublished, PassKeeps
<1>4. faults' \in 0..MaxFaults
  BY ZenonT(40), <1>1, FaultType DEF RecordConflict, RecordKept, RecordUnlinked,
              RecordPublished, PassKeeps, TypeOK
<1>5. bad' \in BOOLEAN
  BY ZenonT(40), <1>1 DEF RecordConflict, RecordKept, RecordUnlinked, RecordPublished,
              TypeOK
<1>6. \/ UNCHANGED <<outbox, inbox, processed>>
      \/ /\ ClaimState(w) = "terminal" /\ outbox' = outbox \ {w}
         /\ UNCHANGED <<inbox, processed>>
      \/ /\ SourceVerdict(w) = "exact" /\ ClaimState(w) = "none"
         /\ inbox' = inbox \cup {w} /\ processed' = processed \ {w}
         /\ UNCHANGED outbox
  BY ZenonT(40), <1>1 DEF RecordConflict, RecordKept, RecordUnlinked, RecordPublished,
              PassKeeps
<1>7. outbox' \subseteq Wakes /\ inbox' \subseteq Wakes
      /\ processed' \subseteq Wakes /\ todo' \subseteq Wakes \cup Runs
      /\ todo' \subseteq outbox'
  BY ZenonT(40), <1>2, <1>3, <1>6 DEF TypeOK, ControlInv
<1>8. TypeOK'
  BY <1>3, <1>4, <1>5, <1>7 DEF TypeOK
<1>9. DiskInv'
  <2>1. CASE UNCHANGED <<outbox, inbox, processed>>
    BY ZenonT(40), <1>3, <2>1, SameView DEF view
  <2>2. CASE /\ ClaimState(w) = "terminal" /\ outbox' = outbox \ {w}
             /\ UNCHANGED <<inbox, processed>>
    <3>1. MemInv'
      BY ZenonT(40), <1>3 DEF DiskInv, MemInv
    <3>2. QED
      BY ZenonT(40), <1>2, <1>3, <2>2, <3>1, TerminalIsServed, UnlinkKeeps
  <2>3. CASE /\ SourceVerdict(w) = "exact" /\ ClaimState(w) = "none"
             /\ inbox' = inbox \cup {w} /\ processed' = processed \ {w}
             /\ UNCHANGED outbox
    <3>1. Unclaimed(w)
      BY ZenonT(40), <1>2, <2>3, NoClaimIsUnclaimed
    <3>2. bound[w] = NoRun
      BY ZenonT(40), <1>2, <3>1 DEF DiskInv, BoundInv, Unclaimed, TypeOK
    <3>3. SourceState(w) = "exact"
      BY ZenonT(40), <2>3, <3>2 DEF SourceVerdict
    <3>4. QED
      BY ZenonT(40), <1>2, <1>3, <2>3, <3>1, <3>3, PublishKeeps
  <2>4. QED
    BY ZenonT(40), <1>6, <2>1, <2>2, <2>3
<1>10. ControlInv'
  BY ZenonT(40), <1>2, <1>7 DEF ControlInv
<1>11. QED
  BY ZenonT(40), <1>8, <1>9, <1>10

\* Steps that only move the thread
LEMMA Moves_Inv ==
  ASSUME IInv, EndPass \/ BeginIntake \/ ClaimsRetried \/ EndIntake \/ Recovered
  PROVE  IInv'
<1> USE DEF IInv, memory, disk, bounds
<1>1. UNCHANGED <<disk, step, nextEvent, mem, cur, run, bounds>>
  BY ZenonT(40) DEF EndPass, BeginIntake, ClaimsRetried, EndIntake, Recovered
<1>2. retry' \in BOOLEAN /\ bad' \in BOOLEAN
  BY ZenonT(40) DEF EndPass, BeginIntake, ClaimsRetried, EndIntake, Recovered, StartPass,
         TypeOK
<1>3. /\ pc' \in {"up", "pass", "claims", "intake", "recover", "refused"}
      /\ ret' \in {"up", "intake", "recover", "boot"}
  BY ZenonT(40) DEF EndPass, BeginIntake, ClaimsRetried, EndIntake, Recovered, StartPass,
         AfterPass, TypeOK
<1>4. /\ todo' \subseteq Wakes \cup Runs
      /\ pc' = "pass" => todo' = outbox
      /\ pc' = "claims" => todo' = WaitingRuns
  BY ZenonT(40) DEF EndPass, BeginIntake, ClaimsRetried, EndIntake, Recovered, StartPass,
         AfterPass, TypeOK, WaitingRuns
<1>5. TypeOK'
  BY ZenonT(40), <1>1, <1>2, <1>3, <1>4 DEF TypeOK
<1>6. DiskInv'
  BY ZenonT(40), <1>1, SameView DEF view
<1>7. ControlInv'
  BY ZenonT(40), <1>1, <1>3, <1>4 DEF ControlInv, WaitingRuns
<1>8. QED
  BY ZenonT(40), <1>5, <1>6, <1>7

\* A waiting claim run is retried only while it waits.
LEMMA RetryClaim_Inv ==
  ASSUME IInv, RetryClaim
  PROVE  IInv'
<1> USE DEF IInv, stops
<1>1. PICK r \in todo :
        /\ todo' = todo \ {r}
        /\ \/ InboundCommitted(r) /\ UNCHANGED faults
           \/ Fault("append") /\ UNCHANGED <<first, status, mem>>
  BY ZenonT(40) DEF RetryClaim
<1>2. r \in Runs /\ mem[r] = "waiting" /\ status[r] = "waiting" /\ pc = "claims"
  BY ZenonT(40) DEF RetryClaim, ControlInv, DiskInv, MemInv
<1>3. UNCHANGED <<log, srcOver, spec, outbox, bound, counter, inbox, processed,
                  claim, ended, step, nextEvent, retry, pc, cur, run, bad, ret,
                  crashes, shutdowns>>
  BY ZenonT(40) DEF RetryClaim
<1>4. faults' \in 0..MaxFaults
  BY ZenonT(40), <1>1, FaultType DEF TypeOK
<1>5. /\ first' \in [Runs -> {"none", "exact", "other"}]
      /\ status' \in [Runs -> {"none", "waiting", "active", "terminal", "pruned"}]
      /\ mem' \in [Runs -> {"none", "waiting", "ready", "over", "lost"}]
  BY ZenonT(40), <1>1, <1>2 DEF InboundCommitted, TypeOK
<1>6. TypeOK'
  BY <1>1, <1>3, <1>4, <1>5 DEF TypeOK
<1>7. DiskInv'
  <2>1. CASE InboundCommitted(r)
    BY ZenonT(40), <1>2, <1>3, <2>1, InboundKeeps
  <2>2. CASE UNCHANGED <<first, status, mem>>
    BY ZenonT(40), <1>3, <2>2, SameView DEF view
  <2>3. QED
    BY ZenonT(40), <1>1, <2>1, <2>2
<1>8. \A x \in todo' : mem'[x] = mem[x]
  BY ZenonT(40), <1>1, <1>2 DEF InboundCommitted, TypeOK, ControlInv
<1>9. ControlInv'
  BY ZenonT(40), <1>1, <1>2, <1>3, <1>8 DEF ControlInv
<1>10. QED
  BY ZenonT(40), <1>6, <1>7, <1>9

\* bus_drain_inbox hands intake an unclaimed, valid wake.
LEMMA TakeEnvelope_Inv ==
  ASSUME IInv, TakeEnvelope
  PROVE  IInv'
<1> USE DEF IInv, memory, bounds
<1>1. PICK w \in inbox : /\ inbox' = inbox \ {w}
                         /\ processed' = processed \cup {w}
                         /\ cur' = w
  BY ZenonT(40) DEF TakeEnvelope
<1>2. pc' = "validate" /\ \E r \in Runs : status[r] = "none"
  BY ZenonT(40) DEF TakeEnvelope
<1>3. UNCHANGED <<log, srcOver, spec, outbox, bound, counter, claim, status,
                  first, ended, step, nextEvent, mem, retry, run, todo, bad,
                  ret, crashes, shutdowns, faults>>
  BY ZenonT(40) DEF TakeEnvelope
<1>4. TypeOK'
  BY ZenonT(40), <1>1, <1>2, <1>3 DEF TypeOK
<1>5. DiskInv'
  <2>1. (LogInv /\ SpecInv /\ BoundInv /\ ClaimInv /\ PrunedInv /\ MemInv
         /\ OneRunPerWake)'
    BY ZenonT(40), <1>3 DEF DiskInv, LogInv, SpecInv, BoundInv, ClaimInv, PrunedInv,
                MemInv, OneRunPerWake
  <2>2. (InboxInv /\ ClaimedIsExact /\ ClaimEvidencePinned)'
    BY ZenonT(40), <1>1, <1>3 DEF DiskInv, InboxInv, ClaimedIsExact, ClaimEvidencePinned,
                      Unclaimed, WakeIsValid, SourceState
  <2>3. QED
    BY ZenonT(40), <2>1, <2>2 DEF DiskInv
<1>6. Unclaimed(w)' /\ WakeIsValid(w)' /\ w \in Wakes
  BY ZenonT(40), <1>1, <1>3 DEF DiskInv, InboxInv, TypeOK, Unclaimed, WakeIsValid,
                    SourceState
<1>7. ControlInv'
  BY ZenonT(40), <1>1, <1>2, <1>3, <1>6 DEF ControlInv
<1>8. QED
  BY ZenonT(40), <1>4, <1>5, <1>7

\* Validation lets a wake pass only with its exact source.
LEMMA ValidateWake_Inv ==
  ASSUME IInv, ValidateWake
  PROVE  IInv'
<1> USE DEF IInv, memory, disk, stops
<1>1. UNCHANGED <<disk, memory, cur, run, todo, bad, ret, stops>>
      /\ pc' \in {"persist", "drained"} /\ pc = "validate"
  BY ZenonT(40) DEF ValidateWake
<1>2. faults' \in 0..MaxFaults
  BY ZenonT(40), FaultType DEF ValidateWake, TypeOK
<1>3. TypeOK'
  BY ZenonT(40), <1>1, <1>2 DEF TypeOK
<1>4. DiskInv'
  BY ZenonT(40), <1>1, SameView DEF view
<1>5. ControlInv'
  BY ZenonT(40), <1>1 DEF ControlInv, Unclaimed, WakeIsValid, SourceState
<1>6. QED
  BY ZenonT(40), <1>3, <1>4, <1>5

\* The claim run is written for an unclaimed wake, under a free run id.
LEMMA PersistClaim_Inv ==
  ASSUME IInv, PersistClaim
  PROVE  IInv'
<1> USE DEF IInv, stops
<1>1. UNCHANGED <<log, srcOver, spec, outbox, bound, counter, inbox, processed,
                  first, ended, step, nextEvent, retry, cur, todo, bad, ret,
                  crashes, shutdowns>> /\ pc = "persist"
  BY ZenonT(40) DEF PersistClaim
<1>2. /\ cur \in Wakes /\ cur \in processed /\ cur \notin inbox
      /\ Unclaimed(cur) /\ WakeIsValid(cur)
  BY ZenonT(40), <1>1 DEF ControlInv
<1>3. faults' \in 0..MaxFaults
  BY ZenonT(40), FaultType DEF PersistClaim, TypeOK
<1>4. CASE Fault("persist") /\ pc' = "drained"
           /\ UNCHANGED <<claim, status, mem, run>>
  <2>1. TypeOK'
    BY ZenonT(40), <1>1, <1>3, <1>4 DEF TypeOK
  <2>2. DiskInv'
    BY ZenonT(40), <1>1, <1>4, SameView DEF view
  <2>3. ControlInv'
    BY ZenonT(40), <1>4 DEF ControlInv
  <2>4. QED
    BY ZenonT(40), <2>1, <2>2, <2>3
<1>5. CASE /\ \E r \in Runs :
               /\ Oldest(r, {x \in Runs : status[x] = "none"})
               /\ claim' = [claim EXCEPT ![r] = cur]
               /\ status' = [status EXCEPT ![r] = "waiting"]
               /\ mem' = [mem EXCEPT ![r] = "waiting"]
               /\ run' = r
           /\ pc' = "bind"
  <2>1. PICK r \in Runs :
          /\ status[r] = "none"
          /\ claim' = [claim EXCEPT ![r] = cur]
          /\ status' = [status EXCEPT ![r] = "waiting"]
          /\ mem' = [mem EXCEPT ![r] = "waiting"]
          /\ run' = r
    BY ZenonT(40), <1>5 DEF Oldest
  <2>2. /\ claim' \in [Runs -> Wakes \cup {0}]
        /\ status' \in [Runs -> {"none", "waiting", "active", "terminal", "pruned"}]
        /\ mem' \in [Runs -> {"none", "waiting", "ready", "over", "lost"}]
    BY ZenonT(40), <1>2, <2>1 DEF TypeOK
  <2>3. TypeOK'
    BY ZenonT(40), <1>1, <1>3, <1>5, <2>1, <2>2 DEF TypeOK
  <2>4. DiskInv'
    BY ZenonT(40), <1>1, <1>2, <2>1, ClaimKeeps
  <2>5. claim'[r] = cur /\ mem'[r] = "waiting"
    BY ZenonT(40), <2>1 DEF TypeOK
  <2>6. ControlInv'
    BY ZenonT(40), <1>1, <1>2, <1>5, <2>1, <2>5 DEF ControlInv
  <2>7. QED
    BY ZenonT(40), <2>3, <2>4, <2>6
<1>6. QED
  BY ZenonT(40), <1>4, <1>5 DEF PersistClaim

\* The record is bound to the run its wake created.
LEMMA BindClaim_Inv ==
  ASSUME IInv, BindClaim
  PROVE  IInv'
<1> USE DEF IInv, stops
<1>1. UNCHANGED <<log, srcOver, spec, outbox, counter, inbox, processed, claim,
                  status, first, ended, step, nextEvent, mem, cur, run, todo,
                  bad, ret, crashes, shutdowns>> /\ pc = "bind" /\ pc' = "commit"
  BY ZenonT(40) DEF BindClaim
<1>2. run \in Runs /\ cur \in Wakes /\ claim[run] = cur /\ mem[run] = "waiting"
  BY ZenonT(40), <1>1 DEF ControlInv
<1>3. faults' \in 0..MaxFaults /\ retry' \in BOOLEAN
  BY ZenonT(40), FaultType DEF BindClaim, TypeOK
<1>4. bound' = bound \/ bound' = [bound EXCEPT ![cur] = run]
  BY ZenonT(40) DEF BindClaim
<1>5. bound' \in [Wakes -> Runs \cup {NoRun}]
  BY ZenonT(40), <1>2, <1>4 DEF TypeOK
<1>6. TypeOK'
  BY ZenonT(40), <1>1, <1>3, <1>5 DEF TypeOK
<1>7. BoundInv'
  <2>1. \A w \in Wakes : bound'[w] = bound[w] \/ (w = cur /\ bound'[w] = run)
    BY ZenonT(40), <1>2, <1>4 DEF TypeOK
  <2>2. QED
    BY ZenonT(40), <1>1, <1>2, <2>1 DEF DiskInv, BoundInv
<1>8. (LogInv /\ SpecInv /\ ClaimInv /\ PrunedInv /\ MemInv /\ OneRunPerWake)'
  BY ZenonT(40), <1>1 DEF DiskInv, LogInv, SpecInv, ClaimInv, PrunedInv, MemInv,
              OneRunPerWake
<1>9. (InboxInv /\ ClaimedIsExact /\ ClaimEvidencePinned)'
  BY ZenonT(40), <1>1 DEF DiskInv, InboxInv, ClaimedIsExact, ClaimEvidencePinned,
              Unclaimed, WakeIsValid, SourceState
<1>10. ControlInv'
  BY ZenonT(40), <1>1, <1>2 DEF ControlInv
<1>11. QED
  BY ZenonT(40), <1>6, <1>7, <1>8, <1>9, <1>10 DEF DiskInv

\* The first event of the claim run makes it active.
LEMMA CommitInbound_Inv ==
  ASSUME IInv, CommitInbound
  PROVE  IInv'
<1> USE DEF IInv, stops
<1>1. UNCHANGED <<log, srcOver, spec, outbox, bound, counter, inbox, processed,
                  claim, ended, step, nextEvent, retry, cur, run, todo, bad,
                  ret, crashes, shutdowns>> /\ pc = "commit" /\ pc' = "drained"
  BY ZenonT(40) DEF CommitInbound
<1>2. run \in Runs /\ mem[run] = "waiting" /\ status[run] = "waiting"
  BY ZenonT(40), <1>1 DEF ControlInv, DiskInv, MemInv
<1>3. faults' \in 0..MaxFaults
  BY ZenonT(40), FaultType DEF CommitInbound, TypeOK
<1>4. InboundCommitted(run) \/ UNCHANGED <<first, status, mem>>
  BY ZenonT(40) DEF CommitInbound
<1>5. /\ first' \in [Runs -> {"none", "exact", "other"}]
      /\ status' \in [Runs -> {"none", "waiting", "active", "terminal", "pruned"}]
      /\ mem' \in [Runs -> {"none", "waiting", "ready", "over", "lost"}]
  BY ZenonT(40), <1>2, <1>4 DEF InboundCommitted, TypeOK
<1>6. TypeOK'
  BY ZenonT(40), <1>1, <1>3, <1>5 DEF TypeOK
<1>7. DiskInv'
  <2>1. CASE InboundCommitted(run)
    BY ZenonT(40), <1>1, <1>2, <2>1, InboundKeeps
  <2>2. CASE UNCHANGED <<first, status, mem>>
    BY ZenonT(40), <1>1, <2>2, SameView DEF view
  <2>3. QED
    BY ZenonT(40), <1>4, <2>1, <2>2
<1>8. ControlInv'
  BY ZenonT(40), <1>1 DEF ControlInv
<1>9. QED
  BY ZenonT(40), <1>6, <1>7, <1>8

\* An active run ends in memory before its state is persisted.
LEMMA EndRun_Inv ==
  ASSUME IInv, NEW r \in Runs, EndRun(r)
  PROVE  IInv'
<1> USE DEF IInv, bounds
<1>1. /\ mem' = [mem EXCEPT ![r] = "over"] /\ mem[r] = "ready"
      /\ ended' = ended \cup {r} /\ run' = r /\ pc' = "terminal"
      /\ UNCHANGED <<log, srcOver, spec, outbox, bound, counter, inbox,
                     processed, claim, status, first, step, nextEvent, retry,
                     cur, todo, bad, ret, crashes, shutdowns, faults>>
  BY ZenonT(40) DEF EndRun
<1>2. mem' \in [Runs -> {"none", "waiting", "ready", "over", "lost"}]
  BY ZenonT(40), <1>1 DEF TypeOK
<1>3. TypeOK'
  BY ZenonT(40), <1>1, <1>2 DEF TypeOK
<1>4. MemInv'
  BY <1>1 DEF DiskInv, MemInv, TypeOK
<1>5. DiskInv'
  BY ZenonT(40), <1>1, <1>4, StatusKeeps
<1>6. mem'[r] = "over"
  BY ZenonT(40), <1>1 DEF TypeOK
<1>7. ControlInv'
  BY ZenonT(40), <1>1, <1>6 DEF ControlInv
<1>8. QED
  BY ZenonT(40), <1>3, <1>5, <1>7

\* The terminal state of a run reaches the disk, or the error is reported.
LEMMA PersistTerminal_Inv ==
  ASSUME IInv, PersistTerminal
  PROVE  IInv'
<1> USE DEF IInv, stops, memory
<1>1. /\ pc = "terminal" /\ pc' = "up"
      /\ UNCHANGED <<log, srcOver, spec, outbox, bound, counter, inbox,
                     processed, claim, first, ended, step, nextEvent, mem,
                     retry, cur, run, todo, bad, ret, crashes, shutdowns>>
      /\ status' = [status EXCEPT ![run] = "terminal"] \/ status' = status
  BY ZenonT(40) DEF PersistTerminal
<1>2. faults' \in 0..MaxFaults
  BY ZenonT(40), FaultType DEF PersistTerminal, TypeOK
<1>3. run \in Runs /\ mem[run] = "over" /\ status[run] \in {"active", "terminal"}
  BY ZenonT(40), <1>1 DEF ControlInv, DiskInv, MemInv
<1>4. status' \in [Runs -> {"none", "waiting", "active", "terminal", "pruned"}]
  BY <1>1, <1>3 DEF TypeOK
<1>5. TypeOK'
  BY ZenonT(40), <1>1, <1>2, <1>4 DEF TypeOK
<1>6. \A x \in Runs : status'[x] = status[x]
                      \/ (x = run /\ status'[x] = "terminal")
  BY ZenonT(40), <1>1, <1>3 DEF TypeOK
<1>7. MemInv'
  BY ZenonT(40), <1>1, <1>3, <1>6 DEF DiskInv, MemInv
<1>8. DiskInv'
  BY ZenonT(40), <1>1, <1>3, <1>6, <1>7, StatusKeeps
<1>9. ControlInv'
  BY ZenonT(40), <1>1 DEF ControlInv
<1>10. QED
  BY ZenonT(40), <1>5, <1>8, <1>9

\* rt_scheduler_retire_terminal_runs frees the slot.
LEMMA RetireRun_Inv ==
  ASSUME IInv, NEW r \in Runs, RetireRun(r)
  PROVE  IInv'
<1> USE DEF IInv, stops, control
<1>1. /\ pc = "up" /\ mem[r] = "over" /\ mem' = [mem EXCEPT ![r] = "none"]
      /\ UNCHANGED <<log, srcOver, spec, bound, counter, inbox, processed,
                     claim, status, first, ended, step, nextEvent, pc, cur,
                     run, todo, bad, ret, crashes, shutdowns>>
      /\ \/ outbox' = outbox
         \/ /\ claim[r] \in outbox /\ Releasable(r)
            /\ outbox' = outbox \ {claim[r]}
  BY ZenonT(40) DEF RetireRun
<1>2. faults' \in 0..MaxFaults /\ retry' \in BOOLEAN
  BY ZenonT(40), FaultType DEF RetireRun, TypeOK
<1>3. mem' \in [Runs -> {"none", "waiting", "ready", "over", "lost"}]
  BY ZenonT(40), <1>1 DEF TypeOK
<1>4. outbox' \subseteq Wakes
  BY ZenonT(40), <1>1 DEF TypeOK
<1>5. TypeOK'
  BY ZenonT(40), <1>1, <1>2, <1>3, <1>4 DEF TypeOK
<1>6. MemInv'
  BY ZenonT(40), <1>1 DEF DiskInv, MemInv, TypeOK
<1>7. CASE outbox' = outbox
  <2>1. DiskInv'
    BY ZenonT(40), <1>1, <1>6, <1>7, StatusKeeps
  <2>2. ControlInv'
    BY ZenonT(40), <1>1 DEF ControlInv
  <2>3. QED
    BY ZenonT(40), <1>5, <2>1, <2>2
<1>8. CASE claim[r] \in outbox /\ Releasable(r) /\ outbox' = outbox \ {claim[r]}
  <2>1. status[r] = "terminal"
    BY ZenonT(40), <1>8 DEF Releasable, ClaimStateOfRun
  <2>2. DiskInv'
    BY ZenonT(40), <1>1, <1>6, <1>8, <2>1, UnlinkKeeps
  <2>3. ControlInv'
    BY ZenonT(40), <1>1 DEF ControlInv
  <2>4. QED
    BY ZenonT(40), <1>5, <2>2, <2>3
<1>9. QED
  BY ZenonT(40), <1>1, <1>7, <1>8

\* Retention removes a run only after its record is gone.
LEMMA PruneRun_Inv ==
  ASSUME IInv, NEW r \in Runs, PruneRun(r)
  PROVE  IInv'
<1> USE DEF IInv, bounds, memory, control
<1>1. /\ pc = "up" /\ Retired /\ status[r] = "terminal"
      /\ claim[r] \notin outbox
      /\ status' = [status EXCEPT ![r] = "pruned"]
      /\ UNCHANGED <<log, srcOver, spec, outbox, bound, counter, inbox,
                     processed, claim, first, ended, step, nextEvent, mem,
                     retry, pc, cur, run, todo, bad, ret, crashes, shutdowns,
                     faults>>
  BY ZenonT(40) DEF PruneRun
<1>2. status' \in [Runs -> {"none", "waiting", "active", "terminal", "pruned"}]
  BY ZenonT(40), <1>1 DEF TypeOK
<1>3. TypeOK'
  BY ZenonT(40), <1>1, <1>2 DEF TypeOK
<1>4. \A x \in Runs : status'[x] = status[x]
                      \/ (x = r /\ status'[x] = "pruned")
  BY ZenonT(40), <1>1 DEF TypeOK
<1>5. MemInv'
  BY <1>1, <1>4 DEF DiskInv, MemInv, Retired, TypeOK
<1>6. DiskInv'
  BY ZenonT(40), <1>1, <1>4, <1>5, StatusKeeps
<1>7. ControlInv'
  BY ZenonT(40), <1>1 DEF ControlInv
<1>8. QED
  BY ZenonT(40), <1>3, <1>6, <1>7

\* Retention keeps a source that a record still names.
LEMMA PruneSource_Inv ==
  ASSUME IInv, NEW s \in Sources, PruneSource(s)
  PROVE  IInv'
<1> USE DEF IInv, bounds, memory, control
<1>1. /\ pc = "up" /\ ~SourcePinned(s)
      /\ log' = [log EXCEPT ![s] = [e \in Events |-> "none"]]
      /\ UNCHANGED <<srcOver, spec, outbox, bound, counter, inbox, processed,
                     claim, status, first, ended, step, nextEvent, mem, retry,
                     pc, cur, run, todo, bad, ret, crashes, shutdowns, faults>>
  BY ZenonT(40) DEF PruneSource
<1>2. [e \in Events |-> "none"] \in [Events -> EventKinds]
  BY ZenonT(40) DEF EventKinds
<1>3. log' \in [Sources -> [Events -> EventKinds]]
  BY ZenonT(40), <1>1, <1>2 DEF TypeOK, EventKinds
<1>4. TypeOK'
  BY ZenonT(40), <1>1, <1>3 DEF TypeOK, EventKinds
<1>5. ASSUME NEW w \in outbox
      PROVE  SourceState(w)' = SourceState(w)
  <2>1. w \in Wakes /\ spec[w] # NoSpec
    BY ZenonT(40) DEF DiskInv, SpecInv, TypeOK
  <2>2. spec[w] \in SpecType
    BY ZenonT(40), <2>1 DEF TypeOK
  <2>3. spec[w].src \in Sources /\ spec[w].src # s
    BY ZenonT(40), <1>1, <2>2 DEF SpecType, SourcePinned
  <2>4. log'[spec[w].src] = log[spec[w].src]
    BY ZenonT(40), <1>1, <2>3 DEF TypeOK
  <2>5. QED
    BY ZenonT(40), <1>1, <2>4 DEF SourceState
<1>6. LogInv'
  BY ZenonT(40), <1>1 DEF DiskInv, LogInv, TypeOK
<1>7. (SpecInv /\ BoundInv /\ ClaimInv /\ PrunedInv /\ MemInv /\ OneRunPerWake)'
  BY ZenonT(40), <1>1 DEF DiskInv, SpecInv, BoundInv, ClaimInv, PrunedInv, MemInv,
              OneRunPerWake
<1>8. (InboxInv /\ ClaimedIsExact /\ ClaimEvidencePinned)'
  BY ZenonT(40), <1>1, <1>5 DEF DiskInv, InboxInv, ClaimedIsExact, ClaimEvidencePinned,
                    Unclaimed, WakeIsValid
<1>9. ControlInv'
  BY ZenonT(40), <1>1 DEF ControlInv
<1>10. QED
  BY ZenonT(40), <1>4, <1>6, <1>7, <1>8, <1>9 DEF DiskInv

\* Retention of processed envelopes touches no record.
LEMMA PruneEnvelope_Inv ==
  ASSUME IInv, NEW w \in Wakes, PruneEnvelope(w)
  PROVE  IInv'
<1> USE DEF IInv, bounds, memory, control
<1>1. /\ pc = "up" /\ w \notin outbox /\ processed' = processed \ {w}
      /\ UNCHANGED <<log, srcOver, spec, outbox, bound, counter, inbox,
                     claim, status, first, ended, step, nextEvent, mem, retry,
                     pc, cur, run, todo, bad, ret, crashes, shutdowns, faults>>
  BY ZenonT(40) DEF PruneEnvelope
<1>2. TypeOK'
  BY ZenonT(40), <1>1 DEF TypeOK
<1>3. (LogInv /\ SpecInv /\ BoundInv /\ ClaimInv /\ PrunedInv /\ MemInv
       /\ OneRunPerWake)'
  BY ZenonT(40), <1>1 DEF DiskInv, LogInv, SpecInv, BoundInv, ClaimInv, PrunedInv, MemInv,
              OneRunPerWake
<1>4. (InboxInv /\ ClaimedIsExact /\ ClaimEvidencePinned)'
  BY <1>1 DEF DiskInv, InboxInv, ClaimedIsExact, ClaimEvidencePinned,
              Unclaimed, WakeIsValid, SourceState
<1>5. ControlInv'
  BY ZenonT(40), <1>1 DEF ControlInv
<1>6. QED
  BY ZenonT(40), <1>2, <1>3, <1>4, <1>5 DEF DiskInv

\* A stop forgets the memory; what it leaves on disk decides.
LEMMA MemoryLostType ==
  ASSUME MemoryLost
  PROVE  /\ step' \in [Sources -> {"queued", "running", "closed", "lost"}]
         /\ nextEvent' \in [Sources -> Nat \ {0}]
         /\ mem' \in [Runs -> {"none", "waiting", "ready", "over", "lost"}]
         /\ MemInv' /\ LogInv' /\ ControlInv'
<1>1. /\ step' \in [Sources -> {"queued", "running", "closed", "lost"}]
      /\ nextEvent' \in [Sources -> Nat \ {0}]
      /\ mem' \in [Runs -> {"none", "waiting", "ready", "over", "lost"}]
  BY OutboxAssumption DEF MemoryLost
<1>2. \A r \in Runs : mem'[r] = "none"
  BY ZenonT(40) DEF MemoryLost
<1>3. \A s \in Sources : \A e \in Events : ~(e >= nextEvent'[s])
  BY OutboxAssumption DEF MemoryLost
<1>4. MemInv' /\ LogInv'
  BY ZenonT(40), <1>2, <1>3 DEF MemInv, LogInv
<1>5. ControlInv'
  BY ZenonT(40) DEF ControlInv, MemoryLost
<1>6. QED
  BY ZenonT(40), <1>1, <1>4, <1>5

\* A kill loses memory only.
LEMMA Crash_Inv ==
  ASSUME IInv, Crash
  PROVE  IInv'
<1> USE DEF IInv, disk, Crash
<1>1. /\ step' \in [Sources -> {"queued", "running", "closed", "lost"}]
      /\ nextEvent' \in [Sources -> Nat \ {0}]
      /\ mem' \in [Runs -> {"none", "waiting", "ready", "over", "lost"}]
      /\ MemInv' /\ LogInv' /\ ControlInv'
  BY ZenonT(40), MemoryLostType
<1>2. crashes' \in 0..MaxCrashes
  BY OutboxAssumption DEF TypeOK
<1>3. TypeOK'
  BY ZenonT(40), <1>1, <1>2 DEF TypeOK, MemoryLost
<1>4. (SpecInv /\ BoundInv /\ ClaimInv /\ PrunedInv /\ OneRunPerWake)'
  BY ZenonT(40) DEF DiskInv, SpecInv, BoundInv, ClaimInv, PrunedInv, OneRunPerWake
<1>5. (InboxInv /\ ClaimedIsExact /\ ClaimEvidencePinned)'
  BY ZenonT(40) DEF DiskInv, InboxInv, ClaimedIsExact, ClaimEvidencePinned, Unclaimed,
         WakeIsValid, SourceState
<1>6. QED
  BY ZenonT(40), <1>1, <1>3, <1>4, <1>5 DEF DiskInv

\* A shutdown ends every run the scheduler holds.
LEMMA Shutdown_Inv ==
  ASSUME IInv, Shutdown
  PROVE  IInv'
<1> USE DEF IInv
<1>1. /\ step' \in [Sources -> {"queued", "running", "closed", "lost"}]
      /\ nextEvent' \in [Sources -> Nat \ {0}]
      /\ mem' \in [Runs -> {"none", "waiting", "ready", "over", "lost"}]
      /\ MemInv' /\ LogInv' /\ ControlInv'
  BY ZenonT(40), MemoryLostType DEF Shutdown
<1>2. shutdowns' \in 0..MaxShutdowns
  BY OutboxAssumption DEF Shutdown, TypeOK
<1>3. UNCHANGED <<spec, outbox, bound, counter, inbox, processed, claim,
                  crashes, faults>>
  BY ZenonT(40) DEF Shutdown
<1>4. log' \in [Sources -> [Events -> EventKinds]]
  <2>1. \A s \in LiveSources :
          [log[s] EXCEPT ![nextEvent[s]] = "end"] \in [Events -> EventKinds]
    BY ZenonT(40) DEF LiveSources, TypeOK, EventKinds
  <2>2. \A s \in Sources : log[s] \in [Events -> EventKinds]
    BY ZenonT(40) DEF TypeOK, EventKinds
  <2>3. QED
    BY ZenonT(40), <2>1, <2>2 DEF Shutdown
<1>5. /\ status' \in [Runs -> {"none", "waiting", "active", "terminal", "pruned"}]
      /\ first' \in [Runs -> {"none", "exact", "other"}]
      /\ srcOver' \subseteq Sources /\ ended' \subseteq Runs
  BY ZenonT(40) DEF Shutdown, TypeOK, LiveSources, LiveRuns
<1>6. retry' = FALSE /\ pc' = "down" /\ cur' = 0 /\ run' = NoRun /\ todo' = {}
      /\ bad' = FALSE /\ ret' = "up"
  BY ZenonT(40) DEF Shutdown, MemoryLost
<1>7. TypeOK'
  BY ZenonT(40), <1>1, <1>2, <1>3, <1>4, <1>5, <1>6 DEF TypeOK, EventKinds
<1>8. \A r \in Runs : \/ status'[r] = status[r]
                      \/ /\ status'[r] = "terminal"
                         /\ status[r] \in {"waiting", "active"}
  BY ZenonT(40) DEF Shutdown, LiveRuns, DiskInv, MemInv
<1>9. \A w \in outbox : SourceState(w) = "exact" => SourceState(w)' = "exact"
  <2> SUFFICES ASSUME NEW w \in outbox, SourceState(w) = "exact"
               PROVE  SourceState(w)' = "exact"
    BY ZenonT(40)
  <2>1. spec[w] \in SpecType
    BY ZenonT(40) DEF DiskInv, SpecInv, TypeOK
  <2>2. spec[w].src \in Sources /\ spec[w].ev \in Events
    BY ZenonT(40), <2>1 DEF SpecType
  <2>3. log[spec[w].src][spec[w].ev] # "none"
    BY ZenonT(40) DEF SourceState
  <2>4. spec[w].ev # nextEvent[spec[w].src]
    BY <2>2, <2>3 DEF DiskInv, LogInv, TypeOK
  <2>5. log'[spec[w].src][spec[w].ev] = log[spec[w].src][spec[w].ev]
    BY ZenonT(40), <2>2, <2>4 DEF Shutdown, TypeOK
  <2>6. QED
    BY ZenonT(40), <1>3, <2>5 DEF SourceState
<1>10. (SpecInv /\ BoundInv /\ ClaimInv /\ PrunedInv /\ OneRunPerWake)'
  BY ZenonT(40), <1>3, <1>8 DEF DiskInv, SpecInv, BoundInv, ClaimInv, PrunedInv,
                    OneRunPerWake
<1>11. (InboxInv /\ ClaimedIsExact /\ ClaimEvidencePinned)'
  BY ZenonT(40), <1>3, <1>8, <1>9 DEF DiskInv, InboxInv, ClaimedIsExact,
         ClaimEvidencePinned, Unclaimed, WakeIsValid
<1>12. QED
  BY ZenonT(40), <1>1, <1>7, <1>10, <1>11 DEF DiskInv

\* A start reads the disk as it was left.
LEMMA Boot_Inv ==
  ASSUME IInv, Boot
  PROVE  IInv'
<1> USE DEF IInv, disk, bounds
<1>1. PICK last \in [Sources -> 0..MaxEvents] :
        /\ \A s \in Sources : IsLastEvent(s, last[s])
        /\ nextEvent' = [s \in Sources |-> last[s] + 1]
  BY ZenonT(40) DEF Boot
<1>2. nextEvent' \in [Sources -> Nat \ {0}]
  BY <1>1, OutboxAssumption
<1>3. /\ step' \in [Sources -> {"queued", "running", "closed", "lost"}]
      /\ mem' \in [Runs -> {"none", "waiting", "ready", "over", "lost"}]
      /\ retry' = FALSE /\ pc' = "recover"
      /\ UNCHANGED <<disk, cur, run, todo, bad, ret, bounds>>
  BY ZenonT(40) DEF Boot
<1>4. TypeOK'
  BY ZenonT(40), <1>2, <1>3 DEF TypeOK
<1>5. MemInv'
  BY ZenonT(40), <1>3 DEF Boot, MemInv
<1>6. LogInv'
  <2> SUFFICES ASSUME NEW s \in Sources, NEW e \in Events, e >= nextEvent'[s]
               PROVE  log'[s][e] = "none"
    BY ZenonT(40) DEF LogInv
  <2>1. last[s] \in Nat /\ e \in Nat /\ e >= last[s] + 1
    BY <1>1, OutboxAssumption
  <2>2. e > last[s]
    BY <2>1
  <2>3. QED
    BY ZenonT(40), <1>1, <1>3, <2>2 DEF IsLastEvent
<1>7. (SpecInv /\ BoundInv /\ ClaimInv /\ PrunedInv /\ OneRunPerWake)'
  BY ZenonT(40), <1>3 DEF DiskInv, SpecInv, BoundInv, ClaimInv, PrunedInv, OneRunPerWake
<1>8. (InboxInv /\ ClaimedIsExact /\ ClaimEvidencePinned)'
  BY ZenonT(40), <1>3 DEF DiskInv, InboxInv, ClaimedIsExact, ClaimEvidencePinned,
              Unclaimed, WakeIsValid, SourceState
<1>9. ControlInv'
  BY ZenonT(40), <1>3 DEF ControlInv
<1>10. QED
  BY ZenonT(40), <1>4, <1>5, <1>6, <1>7, <1>8, <1>9 DEF DiskInv

\* A recovered claim run goes on from what its log says.
LEMMA RecoverRun_Inv ==
  ASSUME IInv, NEW r \in Runs, RecoverRun(r)
  PROVE  IInv'
<1> USE DEF IInv, stops
<1>1. /\ UNCHANGED <<log, srcOver, spec, outbox, bound, counter, inbox,
                     processed, claim, ended, step, nextEvent, retry, cur, run,
                     todo, bad, ret, crashes, shutdowns>>
      /\ pc' \in {"recover", "refused"}
  BY ZenonT(40) DEF RecoverRun
<1>2. faults' \in 0..MaxFaults
  BY ZenonT(40), FaultType DEF RecoverRun, TypeOK
<1>3. mem[r] = "lost" /\ status[r] \in {"waiting", "active"}
  BY ZenonT(40) DEF RecoverRun, DiskInv, MemInv
<1>4. \/ UNCHANGED <<first, status, mem>>
      \/ /\ status' = [status EXCEPT ![r] = "terminal"]
         /\ mem' = [mem EXCEPT ![r] = "none"]
         /\ UNCHANGED first
      \/ InboundCommitted(r)
  BY ZenonT(40) DEF RecoverRun
<1>5. /\ first' \in [Runs -> {"none", "exact", "other"}]
      /\ status' \in [Runs -> {"none", "waiting", "active", "terminal", "pruned"}]
      /\ mem' \in [Runs -> {"none", "waiting", "ready", "over", "lost"}]
  BY <1>4 DEF InboundCommitted, TypeOK
<1>6. TypeOK'
  BY ZenonT(40), <1>1, <1>2, <1>5 DEF TypeOK
<1>7. DiskInv'
  <2>1. CASE UNCHANGED <<first, status, mem>>
    BY ZenonT(40), <1>1, <2>1, SameView DEF view
  <2>2. CASE InboundCommitted(r)
    BY ZenonT(40), <1>1, <1>3, <2>2, InboundKeeps
  <2>3. CASE /\ status' = [status EXCEPT ![r] = "terminal"]
             /\ mem' = [mem EXCEPT ![r] = "none"]
    <3>1. \A x \in Runs : \/ x # r /\ status'[x] = status[x] /\ mem'[x] = mem[x]
                          \/ x = r /\ status'[x] = "terminal" /\ mem'[x] = "none"
      BY ZenonT(40), <2>3 DEF TypeOK
    <3>2. MemInv'
      BY ZenonT(40), <3>1 DEF DiskInv, MemInv
    <3>3. QED
      BY ZenonT(40), <1>1, <1>3, <3>1, <3>2, StatusKeeps
  <2>4. QED
    BY ZenonT(40), <1>4, <2>1, <2>2, <2>3
<1>8. ControlInv'
  BY ZenonT(40), <1>1 DEF ControlInv
<1>9. QED
  BY ZenonT(40), <1>6, <1>7, <1>8

\* A recovered source goes on from what its log says.
LEMMA RecoverSource_Inv ==
  ASSUME IInv, NEW s \in Sources, RecoverSource(s)
  PROVE  IInv'
<1> USE DEF IInv, control, bounds
<1>1. /\ UNCHANGED <<log, spec, outbox, bound, counter, inbox, processed,
                     claim, status, first, ended, nextEvent, mem, retry, pc,
                     cur, run, todo, bad, ret, crashes, shutdowns, faults>>
      /\ pc = "recover"
      /\ srcOver' \subseteq Sources
  BY ZenonT(40) DEF RecoverSource, TypeOK
<1>2. step' \in [Sources -> {"queued", "running", "closed", "lost"}]
  BY ZenonT(40) DEF RecoverSource, SourceReplayed, TypeOK
<1>3. TypeOK'
  BY ZenonT(40), <1>1, <1>2 DEF TypeOK
<1>4. DiskInv'
  BY ZenonT(40), <1>1, SameView DEF view
<1>5. ControlInv'
  BY ZenonT(40), <1>1 DEF ControlInv
<1>6. QED
  BY ZenonT(40), <1>3, <1>4, <1>5

\* Nothing that the invariant reads changes when no variable does.
LEMMA Stutter_Inv ==
  ASSUME IInv, UNCHANGED vars
  PROVE  IInv'
<1>1. UNCHANGED <<log, srcOver, spec, outbox, bound, counter, inbox, processed,
                  claim, status, first, ended, step, nextEvent, mem, retry, pc,
                  cur, run, todo, bad, ret, crashes, shutdowns, faults>>
  BY ZenonT(40) DEF vars, disk, memory, control, bounds
<1>2. TypeOK'
  BY <1>1 DEF IInv, TypeOK
<1>3. DiskInv'
  BY ZenonT(40), <1>1, SameView DEF IInv, view
<1>4. ControlInv'
  BY ZenonT(40), <1>1 DEF IInv, ControlInv, Unclaimed, WakeIsValid, SourceState
<1>5. QED
  BY ZenonT(40), <1>2, <1>3, <1>4 DEF IInv

\* Every action of the gateway, crashes and retention included, preserves the
\* inductive invariant.
THEOREM Next_Inv == IInv /\ [Next]_vars => IInv'
<1> SUFFICES ASSUME IInv, [Next]_vars PROVE IInv'
  BY ZenonT(40)
<1>1. ASSUME NEW s \in Sources, Produce(s) PROVE IInv'
  BY ZenonT(40), <1>1, LaunchAction_Inv, CompleteAction_Inv, EndSource_Inv DEF Produce
<1>2. CASE BeginIntake
  BY ZenonT(40), <1>2, Moves_Inv
<1>3. CASE Continue
  <2>1. CASE AppendSource \/ AppendBlocked
    BY ZenonT(40), <2>1, SourceAppend_Inv
  <2>2. CASE FailSource
    BY ZenonT(40), <2>2, EndSource_Inv
  <2>3. CASE ReconcileRecord
    BY ZenonT(40), <2>3, ReconcileRecord_Inv
  <2>4. CASE EndPass \/ ClaimsRetried \/ EndIntake \/ Recovered
    BY ZenonT(40), <2>4, Moves_Inv
  <2>5. CASE RetryClaim
    BY ZenonT(40), <2>5, RetryClaim_Inv
  <2>6. CASE TakeEnvelope
    BY ZenonT(40), <2>6, TakeEnvelope_Inv
  <2>7. CASE ValidateWake
    BY ZenonT(40), <2>7, ValidateWake_Inv
  <2>8. CASE PersistClaim
    BY ZenonT(40), <2>8, PersistClaim_Inv
  <2>9. CASE BindClaim
    BY ZenonT(40), <2>9, BindClaim_Inv
  <2>10. CASE CommitInbound
    BY ZenonT(40), <2>10, CommitInbound_Inv
  <2>11. CASE PersistTerminal
    BY ZenonT(40), <2>11, PersistTerminal_Inv
  <2>12. ASSUME NEW r \in Runs, RecoverRun(r) PROVE IInv'
    BY ZenonT(40), <2>12, RecoverRun_Inv
  <2>13. ASSUME NEW s \in Sources, RecoverSource(s) PROVE IInv'
    BY ZenonT(40), <2>13, RecoverSource_Inv
  <2>14. ASSUME NEW s \in Sources, BlockSource(s) PROVE IInv'
    BY ZenonT(40), <2>14, CompleteAction_Inv
  <2>15. QED
    BY ZenonT(40), <1>3, <2>1, <2>2, <2>3, <2>4, <2>5, <2>6, <2>7, <2>8, <2>9, <2>10,
       <2>11, <2>12, <2>13, <2>14 DEF Continue
<1>4. ASSUME NEW r \in Runs, EndRun(r) PROVE IInv'
  BY ZenonT(40), <1>4, EndRun_Inv
<1>5. ASSUME NEW r \in Runs, RetireRun(r) PROVE IInv'
  BY ZenonT(40), <1>5, RetireRun_Inv
<1>6. CASE Prune
  BY ZenonT(40), <1>6, PruneRun_Inv, PruneSource_Inv, PruneEnvelope_Inv DEF Prune
<1>7. CASE Crash
  BY ZenonT(40), <1>7, Crash_Inv
<1>8. CASE Shutdown
  BY ZenonT(40), <1>8, Shutdown_Inv
<1>9. CASE Boot
  BY ZenonT(40), <1>9, Boot_Inv
<1>10. CASE Quiescent \/ UNCHANGED vars
  BY ZenonT(40), <1>10, Stutter_Inv DEF Quiescent
<1>11. QED
  BY ZenonT(40), <1>1, <1>2, <1>3, <1>4, <1>5, <1>6, <1>7, <1>8, <1>9, <1>10 DEF Next

\* The inductive invariant holds in every reachable state.
THEOREM Invariance == Spec => []IInv
BY Init_Inv, Next_Inv, PTL DEF Spec

\* Type correctness.
THEOREM TypeCorrect == Spec => []TypeOK
<1>1. IInv => TypeOK
  BY ZenonT(40) DEF IInv
<1>2. QED
  BY <1>1, Invariance, PTL

\* A wake in the inbox or under admission has its record and its exact source,
\* for every number of sources, wakes, runs, crashes and failing calls.
THEOREM WakesAreValid == Spec => []InboxWakesAreValid
<1>1. IInv => InboxWakesAreValid
  BY ZenonT(40) DEF IInv, DiskInv, InboxInv, ControlInv, InboxWakesAreValid
<1>2. QED
  BY <1>1, Invariance, PTL

\* No wake identity ever creates a second run: the exactly-once half of the
\* outbox's contract.
THEOREM NoSecondRun == Spec => []OneRunPerWake
<1>1. IInv => OneRunPerWake
  BY ZenonT(40) DEF IInv, DiskInv
<1>2. QED
  BY <1>1, Invariance, PTL

\* An unfinished result run keeps its record, its processed envelope and its
\* exact source event, whatever retention prunes.
THEOREM EvidenceStays == Spec => []ClaimEvidencePinned
<1>1. IInv => ClaimEvidencePinned
  BY ZenonT(40) DEF IInv, DiskInv
<1>2. QED
  BY <1>1, Invariance, PTL

\* Records are only ever removed by a reconcile pass or by release.
LEMMA OnlyServedLeave ==
  ASSUME IInv, [Next]_vars, NEW w \in outbox \ outbox'
  PROVE  \E r \in Runs : claim[r] = w /\ status[r] \in {"terminal", "pruned"}
<1>1. CASE ReconcileRecord
  <2>1. PICK x \in todo :
          RecordConflict(x) \/ RecordKept(x) \/ RecordUnlinked(x)
          \/ RecordPublished(x)
    BY ZenonT(40), <1>1 DEF ReconcileRecord
  <2>2. ClaimState(x) = "terminal" /\ w = x
    BY ZenonT(40), <2>1 DEF RecordConflict, RecordKept, RecordUnlinked, RecordPublished,
                PassKeeps
  <2>3. QED
    BY ZenonT(40), <2>2, TerminalIsServed DEF IInv
<1>2. ASSUME NEW r \in Runs, RetireRun(r)
      PROVE  \E x \in Runs : claim[x] = w /\ status[x] \in {"terminal", "pruned"}
  <2>1. claim[r] = w /\ Releasable(r)
    BY ZenonT(40), <1>2 DEF RetireRun
  <2>2. status[r] = "terminal"
    BY ZenonT(40), <2>1 DEF Releasable, ClaimStateOfRun
  <2>3. QED
    BY ZenonT(40), <2>1, <2>2
<1>3. ASSUME NEW s \in Sources, Produce(s) PROVE FALSE
  BY ZenonT(40), <1>3 DEF Produce, LaunchAction, CompleteAction, FinishSource, EndSource,
              Prepare, PrepareReuse, PrepareNew
<1>4. CASE Continue /\ ~ReconcileRecord
  <2>1. ASSUME NEW s \in Sources, RecoverSource(s) \/ BlockSource(s) PROVE FALSE
    BY ZenonT(40), <2>1 DEF RecoverSource, BlockSource, Prepare, PrepareReuse, PrepareNew
  <2>2. ASSUME NEW r \in Runs, RecoverRun(r) PROVE FALSE
    BY ZenonT(40), <2>2 DEF RecoverRun
  <2>3. CASE AppendSource \/ FailSource \/ AppendBlocked
    BY ZenonT(40), <2>3 DEF AppendSource, FailSource, AppendBlocked, EndSource
  <2>4. CASE EndPass \/ ClaimsRetried \/ EndIntake \/ Recovered \/ ValidateWake
    BY ZenonT(40), <2>4 DEF EndPass, ClaimsRetried, EndIntake, Recovered, ValidateWake, disk
  <2>5. CASE RetryClaim \/ TakeEnvelope \/ PersistClaim \/ BindClaim
             \/ CommitInbound \/ PersistTerminal
    BY ZenonT(40), <2>5 DEF RetryClaim, TakeEnvelope, PersistClaim, BindClaim,
                CommitInbound, PersistTerminal
  <2>6. QED
    BY ZenonT(40), <1>4, <2>1, <2>2, <2>3, <2>4, <2>5 DEF Continue
<1>5. CASE BeginIntake \/ Prune \/ Crash \/ Shutdown \/ Boot \/ Quiescent
           \/ UNCHANGED vars
  BY ZenonT(40), <1>5 DEF BeginIntake, Prune, PruneRun, PruneSource, PruneEnvelope, Crash,
              Shutdown, Boot, Quiescent, vars, disk
<1>6. ASSUME NEW r \in Runs, EndRun(r) PROVE FALSE
  BY ZenonT(40), <1>6 DEF EndRun
<1>7. QED
  BY ZenonT(40), <1>1, <1>2, <1>3, <1>4, <1>5, <1>6 DEF Next

\* A record disappears only after the run its wake created is durably over:
\* no crash, retry or failing call loses a committed source event.
THEOREM NothingForgotten == Spec => ForgottenOnlyWhenServed
<1>1. IInv /\ [Next]_vars => [OnlyServedForgotten]_vars
  BY ZenonT(40), OnlyServedLeave DEF OnlyServedForgotten, Served
<1>2. QED
  BY <1>1, Invariance, PTL DEF Spec, ForgottenOnlyWhenServed
=============================================================================
