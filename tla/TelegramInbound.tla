-------------------------- MODULE TelegramInbound --------------------------
(***************************************************************************)
(* The inbound half of the Telegram adapter (adapters/telegram): the long  *)
(* poll, the offset that acknowledges updates at the server, the one media *)
(* message that waits for its file, and what a crash leaves of them.       *)
(***************************************************************************)
EXTENDS Naturals, FiniteSets, SequencesExt

CONSTANTS
  Updates,      \* the kind of each update, in order of update_id
  MaxCrashes,   \* bound: process crashes
  MaxFaults     \* bound: failing publications, writes and requests

VARIABLES
  arrived,      \* updates at the server so far
  acked,        \* the server has dropped the updates below this
  offset, disk, \* a->offset, and the offset file
  poll,         \* the poll connection: idle, or asking with an offset
  asked,        \* the offset in the request of the poll
  pending,      \* update_id of the pending media message, 0: none
  resolved,     \* getFile has answered for it
  file,         \* the file connection
  published,    \* updates published since the process started, in order
  judged,       \* updates ever published or dropped on purpose
  crashes, faults

vars == <<arrived, acked, offset, disk, poll, asked, pending, resolved, file,
          published, judged, crashes, faults>>

Init ==
  /\ arrived = 0 /\ acked = 1 /\ offset = 1 /\ disk = 1
  /\ poll = "idle" /\ asked = 1 /\ pending = 0 /\ resolved = FALSE
  /\ file = "idle" /\ published = <<>> /\ judged = {}
  /\ crashes = 0 /\ faults = 0

Larger(a, b) == IF a > b THEN a ELSE b

\* Something may fail while faults are left.
May(fails) == faults' = IF fails THEN faults + 1 ELSE faults
Fails == {f \in BOOLEAN : f => faults < MaxFaults}

\* tg_offset_store: the write may fail and is not looked at.
OffsetStore(next, written) ==
  /\ disk' = IF written /\ next > offset THEN next ELSE disk
  /\ offset' = Larger(offset, next)

\* tg_handle_message publishes a text, holds a media message back, and drops
\* what is not for it.
IsText(u) == Updates[u] = "text"
IsMedia(u) == Updates[u] = "media"

Publish(u) == /\ published' = Append(published, u) /\ judged' = judged \cup {u}

-----------------------------------------------------------------------------
(* Updates                                                                 *)

\* How far one getUpdates body is consumed: [from, upto) was judged, and the
\* update at upto stopped the loop, for a failure or for its media.
Consumable(from, upto) ==
  \A u \in from..(upto - 1) : ~IsMedia(u)

\* tg_consume_updates on a body that holds the updates from..arrived.
Consume(from) ==
  \E upto \in from..(arrived + 1), w \in Fails :
    LET texts == SelectSeq([i \in 1..(upto - from) |-> from + i - 1],
                           IsText)
        media == upto <= arrived /\ IsMedia(upto)
        stops == upto <= arrived /\ ~media
    IN /\ Consumable(from, upto)
       /\ (w \/ stops) => faults < MaxFaults
       /\ faults' = IF w \/ stops THEN faults + 1 ELSE faults
       /\ published' = published \o texts
       /\ judged' = judged \cup {u \in from..(upto - 1) : ~IsMedia(u)}
       /\ pending' = IF media THEN upto ELSE pending
       /\ resolved' = IF media THEN FALSE ELSE resolved
       /\ IF upto > from THEN OffsetStore(upto, ~w) ELSE UNCHANGED <<offset, disk>>

\* tg_drive_poll, 200: the server took the offset of the request.
PollAnswered ==
  /\ poll = "asking"
  /\ acked' = Larger(acked, asked)
  /\ Consume(acked')
  /\ poll' = "idle"
  /\ UNCHANGED <<arrived, asked, file, crashes>>

\* The request or its answer is lost, times out, or is refused.
PollFails ==
  /\ poll = "asking" /\ TRUE \in Fails /\ May(TRUE)
  /\ acked' \in {acked, Larger(acked, asked)}
  /\ poll' = "idle"
  /\ UNCHANGED <<arrived, offset, disk, asked, pending, resolved, file,
                 published, judged, crashes>>

\* tg_publish_pending
PublishPending(fails, w) ==
  IF fails THEN UNCHANGED <<published, judged, pending, resolved, offset, disk>>
  ELSE /\ Publish(pending) /\ OffsetStore(pending + 1, ~w)
       /\ pending' = 0 /\ resolved' = FALSE

\* What getFile tells: a path to download from, or nothing of use.
FileResults == Fails

\* tg_drive_file: metadata that can be downloaded, then the publication.
FileAnswered ==
  /\ file = "asking" /\ pending # 0
  /\ file' = "idle"
  /\ \E lost \in FileResults, fails, w \in Fails :
       /\ May(lost \/ fails \/ w)
       /\ IF lost THEN UNCHANGED <<published, judged, pending, resolved, offset, disk>>
          ELSE IF fails THEN resolved' = TRUE
               /\ UNCHANGED <<published, judged, pending, offset, disk>>
          ELSE PublishPending(FALSE, w)
  /\ UNCHANGED <<arrived, acked, poll, asked, crashes>>

\* Not while a media message owns the offset.
MayPoll(p) == p = 0 /\ poll = "idle"

\* The request carries the offset in memory.
Ask == poll' = "asking" /\ asked' = offset'

\* tg_tick, first half: the resolved message, its file, the next poll. What
\* cannot be started is tried again.
Tick ==
  /\ \E fails, w \in Fails :
       /\ fails \/ w => pending # 0 /\ resolved
       /\ May(fails \/ w)
       /\ IF pending # 0 /\ resolved THEN PublishPending(fails, w)
          ELSE UNCHANGED <<published, judged, pending, resolved, offset, disk>>
  /\ file' = IF pending' # 0 /\ ~resolved' /\ file = "idle" THEN "asking" ELSE file
  /\ IF MayPoll(pending') THEN Ask
     ELSE UNCHANGED <<poll, asked>>
  /\ UNCHANGED <<arrived, acked, crashes>>

-----------------------------------------------------------------------------

Arrives ==
  /\ arrived < Len(Updates) /\ arrived' = arrived + 1
  /\ UNCHANGED <<acked, offset, disk, poll, asked, pending, resolved, file,
                 published, judged, crashes, faults>>

\* Kill and start: tg_offset_load reads what the file holds.
Crash ==
  /\ crashes < MaxCrashes /\ crashes' = crashes + 1
  /\ offset' = disk
  /\ poll' = "idle" /\ file' = "idle" /\ pending' = 0 /\ resolved' = FALSE
  /\ asked' = 1 /\ published' = <<>>
  /\ UNCHANGED <<arrived, acked, disk, judged, faults>>

Next ==
  \/ PollAnswered \/ PollFails \/ FileAnswered \/ Tick \/ Arrives \/ Crash

\* The reactor ticks, and Telegram answers.
Fairness == WF_vars(Tick) /\ WF_vars(PollAnswered) /\ WF_vars(FileAnswered)

Spec == Init /\ [][Next]_vars /\ Fairness

-----------------------------------------------------------------------------
(* Properties                                                              *)

TypeOK ==
  /\ arrived \in 0..Len(Updates) /\ offset \in 1..(Len(Updates) + 1)
  /\ disk <= offset /\ pending \in 0..arrived
  /\ resolved => pending # 0

\* "The offset acks server-side; advance only past published work": an update
\* the server has dropped was published or judged, in whatever order polls,
\* files, failures and crashes come.
AckedIsJudged == \A u \in 1..(acked - 1) : u \in judged

\* Within one life of the process no update is published twice, and updates
\* are published in order, a waiting media message included.
PublishedInOrder ==
  \A i, j \in DOMAIN published : i < j => published[i] < published[j]

\* No update is passed over for ever: each one that arrives is judged.
UpdatesJudged ==
  \A u \in DOMAIN Updates : (arrived >= u) ~> (u \in judged)

=============================================================================
