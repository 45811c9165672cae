------------------------------- MODULE Janitor -------------------------------
(***************************************************************************)
(* The retention janitor (runtime/gateway/janitor_module.c), the rotation   *)
(* ladder it climbs (support/log_rotation.c) and the task archive it        *)
(* prunes (task_archive.c).  A behaviour is about one janitor task, the     *)
(* others being disabled by configuration; they touch different files.      *)
(*                                                                          *)
(*   runs     workspace/runs, one directory per run                         *)
(*   workers  a managed-worker store, one entry per operation               *)
(*   bus      workspace/bus/processed, one file per envelope                *)
(*   log      one rotated log                                               *)
(*   archive  tasks_archive.jsonl                                           *)
(*                                                                          *)
(* Entries are numbered in the order they are made.  An entry is held while *)
(* something still needs it: a run that is not terminal or whose            *)
(* publication is pending, an operation that is running, an envelope whose  *)
(* claim is pending.                                                        *)
(***************************************************************************)
EXTENDS Integers, FiniteSets, FiniteSetsExt

CONSTANTS
  Rules,         \* the janitor tasks this instance is about
  Keep,          \* how many entries a store keeps
  ScanCap,       \* how many entries a scan holds
  TickEvery,     \* JANITOR_TICK_MS, in steps of the clock
  Interval,      \* check_interval_ms of the task
  MaxEntries,    \* bound: entries made
  LogKeep,       \* rotated files kept
  MaxRotations,  \* bound: rotations of the log
  Tasks,         \* tasks of the task store
  MaxKills       \* bound: how often the gateway is killed inside a task

VARIABLES
  rule,                  \* the enabled task
  untilTick, untilRun,   \* time left to next_tick_ms and to its next_run_ms
  store, held,           \* the entries on disk, and those still needed
  husks,                 \* run directories half removed, runstate.json gone
  away,                  \* envelopes requeued from processed/ to the inbox
  made,                  \* entries made so far
  slots,                 \* the ladder: plain and compressed file of each slot
  gen,                   \* the live log is generation gen
  gzip,                  \* the generation gzip works on, 0 for none
  overtaken,             \* history: a rotation found gzip still running
  cut,                   \* history: rotations cut short
  open, done, archived,  \* the task store, tasks completed, the archive
  aged,                  \* archived tasks older than keep_days
  kills

storeVars == <<store, held, husks, away, made>>
logVars == <<slots, gen, gzip, overtaken, cut>>
taskVars == <<open, done, archived, aged>>
vars == <<rule, untilTick, untilRun, storeVars, logVars, taskVars, kills>>

Stores == {"runs", "workers", "bus"}
Empty == [plain |-> 0, gz |-> 0, whole |-> FALSE]

Init ==
  /\ rule \in Rules
  /\ untilTick = 0 /\ untilRun = 0
  /\ store = {} /\ held = {} /\ husks = {} /\ away = {} /\ made = 0
  /\ slots = [i \in 1..LogKeep |-> Empty]
  /\ gen = 1 /\ gzip = 0 /\ overtaken = FALSE /\ cut = 0
  /\ open = Tasks /\ done = {} /\ archived = {} /\ aged = {}
  /\ kills = 0

-----------------------------------------------------------------------------
(* Pruning a numbered store.                                               *)

Oldest(S, k) == {x \in S : Cardinality({y \in S : y < x}) < k}

\* janitor_init clamps the bus count below the scan's capacity.
Kept == IF rule = "bus" /\ Keep >= ScanCap THEN ScanCap - 1 ELSE Keep

\* list_sorted keeps the oldest entries when there are more than it can
\* hold; the scan of a worker store keeps the first ones the directory gives.
AnyScan == {S \in SUBSET store : Cardinality(S) = Min({Cardinality(store), ScanCap})}
ListSorted == {Oldest(store, ScanCap)}
Scans == IF rule = "workers" THEN AnyScan ELSE ListSorted

\* A run whose state cannot be read is kept as if it were running.
Protected == IF rule = "runs" THEN held \cup husks ELSE held

\* A variant: see Excess.
ExcessLess(scan) ==
  IF Cardinality(scan) <= Kept THEN 0 ELSE Cardinality(scan) - Kept - 1
\* How many entries of a scan are too many.
Excess(scan) == IF Cardinality(scan) <= Kept THEN 0 ELSE Cardinality(scan) - Kept

\* task_runs_prune walks past what it must keep until it has dropped enough.
PastHeld(scan) == Oldest(scan \ Protected, Excess(scan))
\* The other two look at the oldest entries in excess only.
AmongOldest(scan) == Oldest(scan, Excess(scan)) \ Protected
Drops(scan) == IF rule = "runs" THEN PastHeld(scan) ELSE AmongOldest(scan)

Prune ==
  /\ \E scan \in Scans : store' = store \ Drops(scan)
  /\ husks' = husks \cap store'
  /\ UNCHANGED <<held, away, made>>

\* The gateway is killed inside a pass: some entries are gone, oldest first,
\* and rm may have left one run directory without its runstate.json.
PruneCut ==
  \E scan \in Scans : \E k \in 0..(Cardinality(Drops(scan)) - 1) :
    LET gone == Oldest(Drops(scan), k)
        next == Oldest(Drops(scan), k + 1) \ gone
    IN  /\ store' = store \ gone
        /\ husks' = IF rule = "runs" THEN (husks \cap store') \cup next ELSE {}
        /\ UNCHANGED <<held, away, made>>

\* A run starts, an operation starts, an envelope is taken from the inbox.
Arrive(needed) ==
  /\ rule \in Stores /\ made < MaxEntries
  /\ made' = made + 1
  /\ store' = store \cup {made'}
  /\ held' = IF needed THEN held \cup {made'} ELSE held
  /\ UNCHANGED <<rule, untilTick, untilRun, husks, away, logVars, taskVars, kills>>

\* The run ends, the operation finishes, the publication or claim is settled.
Release(n) ==
  /\ n \in held
  /\ held' = held \ {n}
  /\ UNCHANGED <<rule, untilTick, untilRun, store, husks, away, made, logVars,
                 taskVars, kills>>

\* bus_requeue_processed, and the envelope is taken again under its number.
Requeue(n) ==
  /\ rule = "bus" /\ n \in store \cap held
  /\ store' = store \ {n}
  /\ away' = away \cup {n}
  /\ UNCHANGED <<rule, untilTick, untilRun, held, husks, made, logVars, taskVars, kills>>
TakeAgain(n) ==
  /\ n \in away
  /\ away' = away \ {n}
  /\ store' = store \cup {n}
  /\ UNCHANGED <<rule, untilTick, untilRun, held, husks, made, logVars, taskVars, kills>>

-----------------------------------------------------------------------------
(* The rotation ladder.                                                    *)

\* The last slot is unlinked, plain and compressed.
UnlinkSlot(s, i) == [s EXCEPT ![i] = Empty]
\* Every slot moves one older, whichever of its files is there.
Shifted(s) == [i \in 1..LogKeep |-> IF i = 1 THEN Empty ELSE s[i - 1]]

\* fc_rotate_file on a log that has reached max_bytes; gzip is started on
\* the new .1 and runs on its own.
Rotate ==
  /\ gen <= MaxRotations
  /\ IF gzip # 0
     THEN overtaken' = TRUE /\ UNCHANGED <<slots, gen, gzip, cut>>
     ELSE /\ slots' = [Shifted(UnlinkSlot(slots, LogKeep))
                         EXCEPT ![1] = [plain |-> gen, gz |-> 0, whole |-> FALSE]]
          /\ gen' = gen + 1
          /\ gzip' \in {0, gen}
          /\ UNCHANGED <<overtaken, cut>>

\* Killed after the shifts and before the live log was renamed.
RotateCut ==
  /\ gen <= MaxRotations /\ gzip = 0
  /\ slots' = Shifted(UnlinkSlot(slots, LogKeep))
  /\ cut' = cut + 1
  /\ UNCHANGED <<gen, gzip, overtaken>>

\* gzip finishes: the compressed file is whole before the plain one goes.
GzipDone(i) == [slots EXCEPT ![i] = [plain |-> 0, gz |-> gzip, whole |-> TRUE]]
Gzip ==
  /\ gzip # 0 /\ ~ overtaken
  /\ slots' = GzipDone(1)
  /\ gzip' = 0
  /\ UNCHANGED <<rule, untilTick, untilRun, storeVars, gen, overtaken, cut,
                 taskVars, kills>>
\* gzip dies: both files stay, the compressed one torn.
GzipDies ==
  /\ gzip # 0 /\ ~ overtaken
  /\ slots' = [slots EXCEPT ![1].gz = gzip]
  /\ gzip' = 0
  /\ UNCHANGED <<rule, untilTick, untilRun, storeVars, gen, overtaken, cut,
                 taskVars, kills>>

-----------------------------------------------------------------------------
(* The task archive.                                                       *)

Complete(t) ==
  /\ rule = "archive" /\ t \in open \ done
  /\ done' = done \cup {t}
  /\ UNCHANGED <<rule, untilTick, untilRun, storeVars, logVars, open, archived,
                 aged, kills>>

\* rt_tasks_archive_completed_for_context, when a run is retired: a line per
\* completed task, then the store without them.
ArchiveThenStore(lines, whole) ==
  /\ archived' = archived \cup lines
  /\ open' = IF whole THEN open \ done ELSE open
Archived(lines, whole) == ArchiveThenStore(lines, whole)

Archive ==
  /\ open \cap done # {}
  /\ Archived(open \cap done, TRUE)
  /\ UNCHANGED <<rule, untilTick, untilRun, storeVars, logVars, done, aged, kills>>
\* An append fails, or the gateway is killed between the lines and the store.
ArchiveCut ==
  /\ kills < MaxKills /\ kills' = kills + 1
  /\ \E lines \in SUBSET (open \cap done) : lines # {} /\ Archived(lines, FALSE)
  /\ UNCHANGED <<rule, untilTick, untilRun, storeVars, logVars, done, aged>>

Age(t) ==
  /\ t \in archived \ aged
  /\ aged' = aged \cup {t}
  /\ UNCHANGED <<rule, untilTick, untilRun, storeVars, logVars, open, done,
                 archived, kills>>

\* The members of an archive line that hold a time, and those the janitor
\* compares with keep_days.
LineTimes == {"created_ms", "state.updated_ms", "archived_ms"}
ComparedTimes == {"completed_ms", "updated_ms"}

\* A line with no time to compare is kept; an old one is dropped, by a
\* rewrite and a rename.
Outdated(t) == t \in aged /\ LineTimes \cap ComparedTimes # {}
PruneArchive ==
  /\ archived' = {t \in archived : ~ Outdated(t)}
  /\ UNCHANGED <<open, done, aged>>

-----------------------------------------------------------------------------
(* The tick.                                                               *)

RunTask ==
  CASE rule \in Stores -> Prune /\ UNCHANGED <<logVars, taskVars>>
    [] rule = "log" -> (Rotate \/ UNCHANGED logVars) /\ UNCHANGED <<storeVars, taskVars>>
    [] rule = "archive" -> PruneArchive /\ UNCHANGED <<storeVars, logVars>>

\* janitor_tick: nothing before next_tick_ms; then the task, if it is due.
Tick ==
  /\ untilTick = 0
  /\ untilTick' = TickEvery
  /\ IF untilRun = 0
     THEN RunTask /\ untilRun' = Interval
     ELSE UNCHANGED <<untilRun, storeVars, logVars, taskVars>>
  /\ UNCHANGED <<rule, kills>>

\* The gateway dies inside the task and starts again.
Killed ==
  /\ untilTick = 0 /\ untilRun = 0
  /\ kills < MaxKills /\ kills' = kills + 1
  /\ \/ rule \in Stores /\ PruneCut /\ UNCHANGED <<logVars, taskVars>>
     \/ rule = "log" /\ RotateCut /\ UNCHANGED <<storeVars, taskVars>>
  /\ UNCHANGED <<rule, untilTick, untilRun>>

\* When the reactor must call the janitor again.
NextDeadline == Min({untilTick, untilRun})

Elapse ==
  /\ NextDeadline > 0 \/ untilTick > 0
  /\ untilTick' = Max({untilTick - 1, 0})
  /\ untilRun' = Max({untilRun - 1, 0})
  /\ UNCHANGED <<rule, storeVars, logVars, taskVars, kills>>

Next ==
  \/ Tick \/ Killed \/ Elapse
  \/ \E needed \in BOOLEAN : Arrive(needed)
  \/ \E n \in 1..MaxEntries : Release(n) \/ Requeue(n) \/ TakeAgain(n)
  \/ Gzip \/ GzipDies
  \/ \E t \in Tasks : Complete(t) \/ Age(t)
  \/ Archive \/ ArchiveCut

Spec == Init /\ [][Next]_vars /\ WF_vars(Tick) /\ WF_vars(Elapse)

-----------------------------------------------------------------------------
TypeOK ==
  /\ rule \in Rules
  /\ untilTick \in 0..TickEvery /\ untilRun \in 0..Interval
  /\ store \subseteq 1..made /\ held \subseteq 1..made /\ away \subseteq 1..made
  /\ made \in 0..MaxEntries /\ husks \subseteq store
  /\ gen \in 1..(MaxRotations + 1) /\ gzip \in 0..gen
  /\ \A i \in 1..LogKeep : slots[i].plain \in 0..gen /\ slots[i].gz \in 0..gen
  /\ open \subseteq Tasks /\ done \subseteq Tasks /\ archived \subseteq done
  /\ aged \subseteq done /\ kills \in 0..MaxKills

\* What an unfinished run, operation, publication or claim still needs is
\* never removed, and no pass leaves fewer entries than are to be kept.
HeldKept ==
  [][/\ store \cap held \subseteq store' \cup away'
     /\ away' = away => Cardinality(store') >= Min({Kept, Cardinality(store)})]_vars

\* Where the scan is sorted, an entry is removed only when every older one
\* that is left is still needed.
OldestFirst ==
  [][(rule \in {"runs", "bus"}) =>
       \A n \in store \ (store' \cup away') : \A m \in store' : m < n => m \in Protected]_vars

\* Once nothing more arrives, passes bring a store down to what is to be
\* kept and what must be, as long as what must be leaves the scan some room.
StoreIsBounded ==
  <>[]((rule \in Stores /\ Cardinality(Protected) < ScanCap - Kept)
         => Cardinality(store) <= Kept + Cardinality(Protected))

\* The last LogKeep generations of a log are on the ladder, whole and newest
\* first, when gzip keeps up; a rotation cut short costs one slot.
Holds(i, g) == slots[i].plain = g \/ (slots[i].gz = g /\ slots[i].whole)
RotatedKept ==
  ~ overtaken =>
    \A g \in 1..(gen - 1) :
      gen - g <= LogKeep - cut => \E i \in 1..LogKeep : Holds(i, g) /\ i <= gen - g + cut

\* A completed task is in the task store or in the archive until it has aged
\* out of it, wherever the gateway is killed.
CompletedKept == \A t \in done : t \in open \cup archived \cup aged

\* "periodically rotates JSONL logs and prunes terminal runs, processed bus
\* records, archived tasks": an archived task older than keep_days goes.
ArchiveIsPruned == \A t \in Tasks : [](t \in aged => <>(t \notin archived))

\* When the janitor asks the reactor to wake, its tick has something to do.
SleepsTillDue == NextDeadline = 0 => untilTick = 0
=============================================================================
