--------------------------- MODULE TelegramOutbox ---------------------------
(***************************************************************************)
(* The outbound half of the Telegram adapter (adapters/telegram): the tail *)
(* of the delivery log, the bounded queue of chunks, and the request that  *)
(* sends its head until it is answered.                                    *)
(***************************************************************************)
EXTENDS Naturals, FiniteSets, SequencesExt

CONSTANTS
  Chunks,      \* chunks of each reply, in order of delivery
  QueueMax,    \* TG_OUT_QUEUE_MAX
  MaxLost,     \* bound: answers lost after the message was sent
  MaxFaults,   \* bound: rotations and restarts
  OldLines     \* lines at which the janitor rotates the delivery log

VARIABLES
  dlog, old, cursor,
  outq,        \* chunks <<reply, index>>
  send,        \* the connection that sends the head
  wait,        \* send.retry_after_ms lies in the future
  chat,        \* chunks in the chat, in order
  refused,     \* chunks popped for a refusing status, or dropped when full
  gone,        \* replies a rotation or a restart took away
  lost, appended, faults

vars == <<dlog, old, cursor, outq, send, wait, chat, refused, gone, lost,
          appended, faults>>

Pieces(r) == [k \in 1..Chunks[r] |-> <<r, k>>]

Init ==
  /\ dlog = <<>> /\ old = OldLines /\ cursor = OldLines /\ outq = <<>>
  /\ send = "idle" /\ wait = FALSE /\ chat = <<>> /\ refused = {}
  /\ gone = {} /\ lost = 0 /\ appended = 0 /\ faults = 0

Total == old + Len(dlog)
From == IF Total < cursor THEN 0 ELSE cursor - old

\* tg_queue_chunks: what does not fit is narrated and dropped.
QueueChunks(a, r) ==
  LET room == QueueMax - Len(a.q)
      n == IF Chunks[r] <= room THEN Chunks[r] ELSE room
  IN [q |-> a.q \o SubSeq(Pieces(r), 1, n),
      refused |-> a.refused \cup Range(SubSeq(Pieces(r), n + 1, Chunks[r]))]

\* tg_drain_deliveries
Drained == FoldLeft(QueueChunks, [q |-> outq, refused |-> refused],
                    SubSeq(dlog, From + 1, Len(dlog)))

CursorDrained == IF Total = 0 THEN cursor ELSE Total

\* tg_tick, second half: the resolver, the log, the next request, the timeout.
Tick ==
  /\ outq' = Drained.q /\ refused' = Drained.refused
  /\ cursor' = CursorDrained
  /\ \/ /\ send = "idle" /\ ~wait /\ Drained.q # <<>>
        /\ \/ send' = "busy" /\ UNCHANGED wait
           \/ wait' = TRUE /\ UNCHANGED send       \* no resolver, no token
     \/ /\ send # "idle" /\ send' = "idle" /\ wait' = TRUE  \* no progress
     \/ UNCHANGED <<send, wait>>
  /\ UNCHANGED <<dlog, old, chat, gone, lost, appended, faults>>

\* tg_conn_drive fails before the request is written.
ConnFails ==
  /\ send = "busy" /\ send' = "idle" /\ wait' = TRUE
  /\ UNCHANGED <<dlog, old, cursor, outq, chat, refused, gone, lost, appended, faults>>

\* Only a status other than 429 takes the head off the queue.
Pops(status) == status \in {"2xx", "refused"}

\* The request reaches Telegram, and its answer is read.
Answered ==
  /\ send = "busy" /\ send' = "idle"
  /\ \E status \in {"2xx", "refused", "429"} :
       /\ chat' = IF status = "2xx" THEN Append(chat, Head(outq)) ELSE chat
       /\ refused' = IF status = "refused" THEN refused \cup {Head(outq)} ELSE refused
       /\ outq' = IF Pops(status) THEN Tail(outq) ELSE outq
       /\ wait' = (status = "429")
  /\ UNCHANGED <<dlog, old, cursor, gone, lost, appended, faults>>

\* Telegram sends the message, and the answer is lost or unreadable.
AnswerLost ==
  /\ send = "busy" /\ lost < MaxLost
  /\ send' = "idle" /\ wait' = TRUE /\ lost' = lost + 1
  /\ chat' = Append(chat, Head(outq))
  /\ UNCHANGED <<dlog, old, cursor, outq, refused, gone, appended, faults>>

DelayOver ==
  /\ wait /\ wait' = FALSE
  /\ UNCHANGED <<dlog, old, cursor, outq, send, chat, refused, gone, lost,
                 appended, faults>>

Deliver ==
  /\ appended < Len(Chunks) /\ appended' = appended + 1
  /\ dlog' = Append(dlog, appended')
  /\ UNCHANGED <<old, cursor, outq, send, wait, chat, refused, gone, lost, faults>>

Unread == {dlog[j] : j \in {k \in DOMAIN dlog : k > From}}

RotateDeliveries ==
  /\ Total >= OldLines /\ faults < MaxFaults /\ faults' = faults + 1
  /\ gone' = gone \cup Unread /\ dlog' = <<>> /\ old' = 0
  /\ UNCHANGED <<cursor, outq, send, wait, chat, refused, lost, appended>>

Restart ==
  /\ faults < MaxFaults /\ faults' = faults + 1
  /\ gone' = gone \cup Unread \cup {outq[i][1] : i \in DOMAIN outq}
  /\ outq' = <<>> /\ send' = "idle" /\ wait' = FALSE /\ cursor' = Total
  /\ UNCHANGED <<dlog, old, chat, refused, lost, appended>>

Next ==
  \/ Tick \/ ConnFails \/ Answered \/ AnswerLost \/ DelayOver
  \/ Deliver \/ RotateDeliveries \/ Restart

Spec == Init /\ [][Next]_vars

-----------------------------------------------------------------------------
(* Properties                                                              *)

TypeOK == /\ Len(outq) <= QueueMax /\ send \in {"idle", "busy"}
          /\ send = "busy" => outq # <<>>

Before(c, d) == c[1] < d[1] \/ (c[1] = d[1] /\ c[2] <= d[2])

\* The head is sent until it is answered, and the log is read in order: the
\* chat never shows a chunk after a later one, and shows a chunk again only
\* for an answer that was lost.
ChatInOrder ==
  /\ \A i, j \in DOMAIN chat : i <= j => Before(chat[i], chat[j])
  /\ Len(chat) <= Cardinality(Range(chat)) + lost

\* tg_drive_send: "keep the message queued, because it was never delivered":
\* each chunk that was read is in the chat, queued, or dropped by name.
ChunksAccounted ==
  \A r \in 1..appended :
    r \in gone \/ r \in Unread
    \/ \A k \in 1..Chunks[r] :
         <<r, k>> \in Range(chat) \cup Range(outq) \cup refused

=============================================================================
