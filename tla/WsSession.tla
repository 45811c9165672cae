---------------------------- MODULE WsSession ----------------------------
(***************************************************************************)
(* Correlations of the local client adapter (adapters/ws): one session of  *)
(* a FloofClawWS client, the fixed table of in-flight correlations, the    *)
(* ephemeral progress stream, the tail of the delivery log and the order   *)
(* of the adapter's tick.  Sockets and frames are in WsTransport; the run  *)
(* behind a message is reduced to its place in the scheduler.              *)
(***************************************************************************)
EXTENDS Naturals, FiniteSets, SequencesExt

CONSTANTS
  Msgs,        \* message ids the client uses in its session
  Watched,     \* the ids that are answered; the others compete for slots
  NoMsg,       \* the empty correlation of a free slot
  Inflight,    \* WS_MAX_INFLIGHT
  ProgressCap, \* JOB_PROGRESS_QUEUE_CAP
  StreamCap,   \* units of text stream_body holds
  PendingCap,  \* units of text the pending buffer holds
  MaxOrigins,  \* bound: publications on the bus
  MaxReplies,  \* bound: replies committed by one run
  MaxFaults,   \* bound: rotations and restarts
  OldLines     \* lines at which the janitor rotates the delivery log

VARIABLES
  online,      \* an authenticated connection of the session is open
  slots,       \* inflight[]: one record per slot
  org,         \* origin event id -> message id, in order of publication
  rs,          \* origin -> the run's place in the scheduler
  buslog,      \* message ids in workspace/logs/bus.jsonl
  progress,    \* the job runner's progress queue: origin and text unit
  dlog,        \* workspace/logs/deliveries.jsonl
  old,         \* lines of the live delivery log from before this session
  cursor,      \* delivery_cursor, in lines
  client,      \* what the client has been sent, per message
  noReply,     \* origins told NO_REPLY though a reply of theirs was readable
  replied,     \* origins whose run has committed a reply
  unread,      \* origins whose reply was rotated out before it was read
  faults,      \* rotations and restarts so far
  ticked       \* the last step was the adapter's tick

vars == <<online, slots, org, rs, buslog, progress, dlog, old, cursor, client,
          noReply, replied, unread, faults, ticked>>

Origins == 1..MaxOrigins
Body == <<"a", "b">>
Units == {"a", "b"}
Frames == {"done", "CANCELED", "STREAM_MISMATCH", "STREAM_DROPPED",
           "PROVIDER_ERROR", "NO_REPLY"}

\* A zeroed slot: WsInflight after memset.
FreeSlot == [m |-> NoMsg, o |-> 0, run |-> FALSE,
             term |-> FALSE, canceled |-> FALSE, asked |-> FALSE,
             stream |-> <<>>, pending |-> <<>>, dropped |-> FALSE,
             chunks |-> FALSE, did |-> FALSE]

Fresh == [told |-> {}, screen |-> <<>>, gap |-> FALSE, torn |-> FALSE]

Init ==
  /\ online = FALSE
  /\ slots = [i \in 1..Inflight |-> FreeSlot]
  /\ org = <<>>
  /\ rs = [o \in Origins |-> "none"]
  /\ buslog = <<>> /\ progress = <<>> /\ dlog = <<>>
  /\ old = OldLines /\ cursor = OldLines
  /\ client = [m \in Watched |-> Fresh]
  /\ noReply = {} /\ replied = {} /\ unread = {}
  /\ faults = 0 /\ ticked = TRUE

-----------------------------------------------------------------------------
(* The adapter state a handler threads through its calls.                  *)

A == [slots |-> slots, client |-> client, rs |-> rs, noReply |-> noReply]

Commit(a) == /\ slots' = a.slots /\ client' = a.client
             /\ rs' = a.rs /\ noReply' = a.noReply

\* send_to_session / error_to_session: only open connections are sent to.
Tell(a, m, f) ==
  IF online /\ m \in Watched
  THEN [a EXCEPT !.client[m].told = @ \cup {f}, !.client[m].screen = <<>>]
  ELSE a

\* The client has missed no frame and has no final answer yet.
Following(a, m) == online /\ ~a.client[m].gap /\ a.client[m].told = {}

\* reply_chunk: nobody keeps a chunk that no connection took.
Chunk(a, i, text) ==
  LET m == a.slots[i].m
      b == [a EXCEPT !.slots[i].chunks = TRUE]
  IN IF m \notin Watched THEN b
     ELSE IF Following(a, m) THEN [b EXCEPT !.client[m].screen = @ \o text]
     ELSE b

FlushPending(a, i) ==
  IF a.slots[i].pending = <<>> THEN a
  ELSE [Chunk(a, i, a.slots[i].pending) EXCEPT !.slots[i].pending = <<>>]

FindInflight(a, m) == {i \in DOMAIN a.slots : a.slots[i].m = m}
FindOrigin(a, o) ==
  {i \in DOMAIN a.slots : a.slots[i].m # NoMsg /\ a.slots[i].o = o}

First(S) == CHOOSE i \in S : \A j \in S : i <= j

\* A free slot, else the first one whose correlation has ended.
AllocInflight(a) ==
  LET free == {i \in DOMAIN a.slots : a.slots[i].m = NoMsg}
      over == {i \in DOMAIN a.slots : a.slots[i].term}
  IN IF free # {} THEN {First(free)} ELSE IF over # {} THEN {First(over)} ELSE {}

CancelOrigin(a, o) ==
  IF a.rs[o] = "active" THEN [a EXCEPT !.rs[o] = "stopping"] ELSE a

InScheduler(a, o) == a.rs[o] \in {"active", "stopping"}

-----------------------------------------------------------------------------
(* Client frames.                                                          *)

\* Retained deliveries of a message; a failed run's sentinel is one of them.
Retained(m) == {j \in DOMAIN dlog : org[dlog[j].o] = m}

\* A new connection with the same session_id and the last delivery it saw:
\* every retained delivery after that one is replayed.
Hello ==
  /\ ~online /\ online' = TRUE
  /\ \E after \in {0} \cup DOMAIN dlog :
       client' = [m \in Watched |->
         IF after # 0 /\ \E j \in Retained(m) : j > after
         THEN [client[m] EXCEPT !.told = @ \cup {"done"}] ELSE client[m]]
  /\ ticked' = FALSE
  /\ UNCHANGED <<slots, org, rs, buslog, progress, dlog, old, cursor, noReply,
                 replied, unread, faults>>

Disconnect ==
  /\ online /\ online' = FALSE
  /\ client' = [m \in Watched |->
                  [client[m] EXCEPT !.gap = TRUE, !.screen = <<>>]]
  /\ ticked' = FALSE
  /\ UNCHANGED <<slots, org, rs, buslog, progress, dlog, old, cursor, noReply,
                 replied, unread, faults>>

PriorMessageSeen(m) == m \in Range(buslog)

\* A client that submits an id anew starts with an empty reply.
Reopened(m) ==
  IF m \notin Watched THEN client
  ELSE [client EXCEPT ![m] = [Fresh EXCEPT !.told = client[m].told]]

\* message: answer from the table, from the delivery log, or publish.
Message(m) ==
  /\ online
  /\ LET F == FindInflight(A, m) IN
     \/ /\ F # {}
        /\ LET f == slots[First(F)] IN
           Commit(IF f.term /\ ~f.canceled /\ f.did THEN Tell(A, m, "done")
                  ELSE IF f.canceled THEN Tell(A, m, "CANCELED")
                  ELSE A)
        /\ UNCHANGED <<org, buslog>>
     \/ /\ F = {} /\ Retained(m) # {}
        /\ Commit(Tell(A, m, "done"))
        /\ UNCHANGED <<org, buslog>>
     \/ /\ F = {} /\ Retained(m) = {}
        /\ \/ PriorMessageSeen(m)              \* DUPLICATE_ID
           \/ AllocInflight(A) = {}            \* BUSY
        /\ Commit(A) /\ UNCHANGED <<org, buslog>>
     \/ /\ F = {} /\ Retained(m) = {} /\ ~PriorMessageSeen(m)
        /\ Len(org) < MaxOrigins
        /\ \E i \in AllocInflight(A) :
             Commit([A EXCEPT !.slots[i] =
                        [FreeSlot EXCEPT !.m = m, !.o = Len(org) + 1],
                     !.rs[Len(org) + 1] = "queued",
                     !.client = Reopened(m)])
        /\ org' = Append(org, m)
        /\ buslog' = Append(buslog, m)
  /\ ticked' = FALSE
  /\ UNCHANGED <<online, progress, dlog, old, cursor, replied, unread, faults>>

Cancel(m) ==
  /\ online
  /\ \E i \in FindInflight(A, m) :
       /\ ~slots[i].term                       \* else NOT_FOUND
       /\ LET a == IF slots[i].run THEN CancelOrigin(A, slots[i].o) ELSE A
          IN Commit(Tell([a EXCEPT !.slots[i].asked = TRUE,
                             !.slots[i].canceled = TRUE,
                             !.slots[i].term = TRUE], m, "CANCELED"))
  /\ ticked' = FALSE
  /\ UNCHANGED <<online, org, buslog, progress, dlog, old, cursor, replied,
                 unread, faults>>

-----------------------------------------------------------------------------
(* The tick: progress, deliveries, terminal runs, timed flushes.           *)

\* One progress record; a delta that does not fit leaves a hole.
OneDelta(a, p) ==
  LET F == FindOrigin(a, p.o) IN
  IF F = {} \/ (\A i \in F : a.slots[i].term) THEN a
  ELSE LET i == First(F)
           b == [a EXCEPT !.slots[i].run = TRUE]
       IN IF Len(b.slots[i].stream) + 1 > StreamCap
          THEN [b EXCEPT !.slots[i].dropped = TRUE]
          ELSE LET c == [b EXCEPT !.slots[i].stream = Append(@, p.u)]
                   d == IF Len(c.slots[i].pending) + 1 > PendingCap
                        THEN FlushPending(c, i) ELSE c
               IN [d EXCEPT !.slots[i].pending = Append(@, p.u)]

DrainProgress(a) == FoldLeft(OneDelta, a, progress)

Finish(a, i, f) == [Tell(a, a.slots[i].m, f) EXCEPT !.slots[i].term = TRUE]

\* What a client that was sent nothing final yet is about to see completed.
Judged(a, m) ==
  IF m \notin Watched THEN a
  ELSE IF ~Following(a, m) THEN a
  ELSE [a EXCEPT !.client[m].torn = a.client[m].screen # Body]

\* The committed reply closes the correlation: mismatch, hole, or done.
Settle(a, i) ==
  LET f == a.slots[i]
      whole == IF f.stream = <<>> THEN Chunk(a, i, Body) ELSE a
  IN IF f.stream # <<>> /\ f.stream # Body THEN Finish(a, i, "STREAM_MISMATCH")
     ELSE IF f.dropped /\ f.chunks THEN Finish(a, i, "STREAM_DROPPED")
     ELSE Finish(Judged(whole, f.m), i, "done")

ReconcileDelivery(a, d) ==
  IF d.failed THEN a
  ELSE LET F == FindOrigin(a, d.o)
           G == IF F # {} THEN F ELSE AllocInflight(a)
       IN IF G = {} THEN a
          ELSE LET i == First(G)
                   b == IF F # {} THEN a
                        ELSE [a EXCEPT !.slots[i] =
                                [FreeSlot EXCEPT !.m = org[d.o], !.o = d.o]]
               IN IF b.slots[i].term /\ b.slots[i].canceled THEN b
                  ELSE Settle(FlushPending(
                         [b EXCEPT !.slots[i].run = TRUE,
                                   !.slots[i].did = TRUE], i), i)

\* A file shorter than the cursor was rotated: start from its top.
Total == old + Len(dlog)

From == IF Total < cursor THEN 0 ELSE cursor - old
DrainDeliveries(a) ==
  FoldLeft(ReconcileDelivery, a, SubSeq(dlog, From + 1, Len(dlog)))

\* A run that has left the scheduler ends its correlation.
SyncRun(a, i) ==
  LET f == a.slots[i]
      active == InScheduler(a, f.o)
      b == IF active /\ ~f.run
           THEN [a EXCEPT !.slots[i].run = TRUE] ELSE a
      c == IF f.asked /\ active THEN CancelOrigin(b, f.o) ELSE b
      g == c.slots[i]
  IN IF f.m = NoMsg THEN a
     ELSE IF g.term \/ ~g.run \/ active THEN c
     ELSE IF c.rs[f.o] = "canceled" THEN Finish(c, i, "CANCELED")
     ELSE IF c.rs[f.o] = "failed" THEN Finish(c, i, "PROVIDER_ERROR")
     ELSE [Finish(c, i, "NO_REPLY") EXCEPT !.noReply = @ \cup ({f.o} \cap (replied \ unread))]

SlotOrder == [i \in 1..Inflight |-> i]
SyncInflightRuns(a) == FoldLeft(SyncRun, a, SlotOrder)

\* flush_at_ms has passed for some of the slots.
TimedFlush(a, due) ==
  FoldLeft(LAMBDA acc, i : IF i \in due /\ ~acc.slots[i].term
                           THEN FlushPending(acc, i) ELSE acc, a, SlotOrder)

\* A variant: see TickOrder.
SyncFirst(a) == DrainDeliveries(SyncInflightRuns(DrainProgress(a)))

\* Deliveries before terminal runs: a reply is committed before its run ends.
TickOrder(a) == SyncInflightRuns(DrainDeliveries(DrainProgress(a)))
Tick ==
  /\ \E due \in SUBSET (1..Inflight) : Commit(TimedFlush(TickOrder(A), due))
  /\ progress' = <<>>
  /\ cursor' = IF Total = 0 THEN cursor ELSE Total     \* no file yet
  /\ ticked' = TRUE
  /\ UNCHANGED <<online, org, buslog, dlog, old, replied, unread, faults>>

-----------------------------------------------------------------------------
(* The gateway around the adapter: runs, progress, the janitor, restarts.  *)

Run(o, from, to) == /\ rs[o] \in from /\ rs' = [rs EXCEPT ![o] = to]

RunStarts(o) ==
  /\ Run(o, {"queued"}, "active")
  /\ ticked' = FALSE
  /\ UNCHANGED <<online, slots, org, buslog, progress, dlog, old, cursor, client,
                 noReply, replied, unread, faults>>

\* Text of the provider, in any order that drops on a full queue leave it.
Delta(o, u) ==
  /\ rs[o] = "active" /\ org[o] \in Watched /\ Len(progress) < ProgressCap
  /\ progress' = Append(progress, [o |-> o, u |-> u])
  /\ ticked' = FALSE
  /\ UNCHANGED <<online, slots, org, rs, buslog, dlog, old, cursor, client,
                 noReply, replied, unread, faults>>

Replies(o) == Cardinality({j \in DOMAIN dlog : dlog[j].o = o})

Deliver(o, failed) == dlog' = Append(dlog, [o |-> o, failed |-> failed])

RunReplies(o) ==
  /\ rs[o] = "active" /\ org[o] \in Watched /\ Replies(o) < MaxReplies
  /\ Deliver(o, FALSE)
  /\ replied' = replied \cup {o}
  /\ ticked' = FALSE
  /\ UNCHANGED <<online, slots, org, rs, buslog, progress, old, cursor, client,
                 noReply, unread, faults>>

RunEnds(o) ==
  /\ \/ Run(o, {"active"}, "done") /\ UNCHANGED dlog
     \/ Run(o, {"stopping"}, "canceled") /\ UNCHANGED dlog
     \/ Run(o, {"active"}, "failed") /\ org[o] \in Watched /\ Deliver(o, TRUE)
  /\ ticked' = FALSE
  /\ UNCHANGED <<online, slots, org, buslog, progress, old, cursor, client,
                 noReply, replied, unread, faults>>

\* The janitor renames the live log; replies the tick has not read go with it.
RotateDeliveries ==
  /\ Total >= OldLines /\ faults < MaxFaults
  /\ faults' = faults + 1
  /\ unread' = unread \cup {dlog[j].o : j \in {k \in DOMAIN dlog : k > From}}
  /\ dlog' = <<>> /\ old' = 0
  /\ ticked' = FALSE
  /\ UNCHANGED <<online, slots, org, rs, buslog, progress, cursor, client,
                 noReply, replied>>

RotateBus ==
  /\ buslog # <<>> /\ faults < MaxFaults
  /\ faults' = faults + 1
  /\ buslog' = <<>>
  /\ ticked' = FALSE
  /\ UNCHANGED <<online, slots, org, rs, progress, dlog, old, cursor, client,
                 noReply, replied, unread>>

\* Stop and start again between runs: the table is gone, the tail starts at
\* the end of the log.
Restart ==
  /\ \A o \in Origins : ~InScheduler(A, o)
  /\ faults < MaxFaults
  /\ faults' = faults + 1
  /\ online' = FALSE
  /\ slots' = [i \in 1..Inflight |-> FreeSlot]
  /\ progress' = <<>>
  /\ cursor' = Total
  /\ unread' = unread \cup {dlog[j].o : j \in DOMAIN dlog}
  /\ ticked' = FALSE
  /\ UNCHANGED <<org, rs, buslog, dlog, old, client, noReply, replied>>

Next ==
  \/ Hello \/ Disconnect \/ Tick
  \/ \E m \in Msgs : Message(m) \/ Cancel(m)
  \/ \E o \in Origins : RunStarts(o) \/ RunReplies(o) \/ RunEnds(o)
                        \/ (\E u \in Units : Delta(o, u))
  \/ RotateDeliveries \/ RotateBus \/ Restart

\* The reactor ticks every module on every pass, and a run ends: its jobs have
\* deadlines.
Fairness ==
  /\ []<>ticked
  /\ \A o \in Origins : WF_vars(RunEnds(o))

Spec == Init /\ [][Next]_vars /\ Fairness

-----------------------------------------------------------------------------
(* Properties.                                                             *)

TypeOK ==
  /\ online \in BOOLEAN
  /\ \A i \in 1..Inflight :
       /\ slots[i].m \in Msgs \cup {NoMsg}
       /\ slots[i].o \in 0..MaxOrigins /\ (slots[i].o = 0 <=> slots[i].m = NoMsg)
       /\ Len(slots[i].stream) <= StreamCap /\ Len(slots[i].pending) <= PendingCap
       /\ slots[i].canceled => slots[i].term
  /\ org \in Seq(Msgs) /\ Range(buslog) \subseteq Msgs
  /\ \A o \in Origins : rs[o] \in {"none", "queued", "active", "stopping", "done",
                                    "failed", "canceled"}
  /\ \A m \in Watched : client[m].told \subseteq Frames

\* handle_message looks in the table, in the delivery log and in the bus log
\* before it publishes: however often the client sends an id again, and
\* whatever slots have been reused since, one bus log holds one envelope of it.
OneEnvelopePerId == IsInjective(buslog)

\* drain_progress, flush_pending and reconcile_delivery together: when a client
\* that missed no chunk is pushed reply_done as the first answer to a message,
\* the chunks it was sent spell exactly the committed body.
FirstReplyIsWhole == \A m \in Watched : ~client[m].torn

\* ws_tick reads the deliveries before it classifies runs that have left the
\* scheduler: NO_REPLY is only said of a run that committed no reply, unless
\* the janitor rotated the reply out of the log before the tick read it.
NoReplyMeansNone == noReply = {}

\* sync_inflight_runs repeats a cancellation that came before the run: after a
\* tick no run whose correlation asked to be canceled can still reply.
CancelSticks ==
  ticked => \A i \in 1..Inflight :
              slots[i].asked => rs[slots[i].o] # "active"

\* The comment in reconcile_delivery on the record of a failed run: it "is not
\* an assistant message and must never be reconciled as reply_done".
FailureIsNoReply ==
  \A m \in Watched : "done" \in client[m].told => \E o \in replied : org[o] = m

=============================================================================
