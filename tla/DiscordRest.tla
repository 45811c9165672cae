---------------------------- MODULE DiscordRest ----------------------------
(***************************************************************************)
(* The outbound half of the Discord adapter (adapters/discord): the tail   *)
(* of the delivery log, the bounded queue of message chunks, and the one   *)
(* REST request at a time that posts its head.                             *)
(***************************************************************************)
EXTENDS Naturals, FiniteSets, SequencesExt

CONSTANTS
  Chunks,        \* chunks of each reply, in order of delivery
  QueueMax,      \* DC_OUT_QUEUE_MAX
  AmbiguousMax,  \* DC_REST_AMBIGUOUS_RETRY_MAX
  MaxFaults,     \* bound: rotations and restarts
  OldLines       \* lines at which the janitor rotates the delivery log

VARIABLES
  dlog, old,     \* replies in the live delivery log, and earlier lines
  cursor,        \* delivery_cursor, in lines
  outq,          \* outq[]: chunks <<reply, index>>
  rest,          \* rest_state
  wait,          \* rest_retry_after_ms lies in the future
  serverRetries, ambiguousRetries,
  answer,        \* what Discord did with the request that was written
  posted,        \* chunks in the remote channel, in order
  refused,       \* chunks dropped with a narration
  gone,          \* replies whose line or queue place a fault took away
  skipped,       \* replies that waited for room in the queue when rotated away
  appended,      \* replies delivered so far
  faults

vars == <<dlog, old, cursor, outq, rest, wait, serverRetries, ambiguousRetries,
          answer, posted, refused, gone, skipped, appended, faults>>

Replies == DOMAIN Chunks
Pieces(r) == [k \in 1..Chunks[r] |-> <<r, k>>]

Init ==
  /\ dlog = <<>> /\ old = OldLines /\ cursor = OldLines /\ outq = <<>>
  /\ rest = "idle" /\ wait = FALSE /\ serverRetries = 0 /\ ambiguousRetries = 0
  /\ answer = "none" /\ posted = <<>> /\ refused = {} /\ gone = {} /\ skipped = {}
  /\ appended = 0 /\ faults = 0

Total == old + Len(dlog)
From(c) == IF Total < c THEN 0 ELSE c - old

\* The request machine and the queue, as the handlers thread them.
R == [q |-> outq, st |-> rest, wait |-> wait, srv |-> serverRetries,
      amb |-> ambiguousRetries, refused |-> refused]

Commit(r) ==
  /\ outq' = r.q /\ rest' = r.st /\ wait' = r.wait
  /\ serverRetries' = r.srv /\ ambiguousRetries' = r.amb /\ refused' = r.refused

-----------------------------------------------------------------------------
(* One request                                                             *)

\* dc_rest_retry: the head stays.
Retry(r) == [r EXCEPT !.st = "idle", !.wait = TRUE]

\* dc_rest_drop_or_commit: the head leaves the queue.
PopHead(r) ==
  [r EXCEPT !.q = Tail(@), !.st = "idle", !.wait = FALSE, !.srv = 0, !.amb = 0]

Refuse(r) == PopHead([r EXCEPT !.refused = @ \cup {Head(r.q)}])

\* dc_rest_ambiguous_failure
Ambiguous(r) ==
  IF r.amb < AmbiguousMax THEN Retry([r EXCEPT !.amb = @ + 1]) ELSE Refuse(r)

\* dc_rest_apply_response
Apply(r, status) ==
  CASE status = "2xx" -> PopHead(r)
    [] status = "429" -> Retry(r)
    [] status = "5xx" /\ r.srv = 0 -> Retry([r EXCEPT !.srv = 1])
    [] OTHER -> Refuse(r)

\* dc_rest_start: a request that cannot be built is dropped.
Started(r) ==
  IF r.st # "idle" \/ r.q = <<>> \/ r.wait THEN {r}
  ELSE {[r EXCEPT !.st = "resolving"], Retry(r), Refuse(r)}

\* dc_drive_rest_resolve: still resolving, connected, failed or too late.
ResolveDriven(r) ==
  IF r.st # "resolving" THEN {r}
  ELSE {r, [r EXCEPT !.st = "connecting"], Retry(r)}

\* dc_queue_message_chunks: the whole reply or nothing.
QueueChunks(r, d) == r.q \o Pieces(d)

\* A variant: one more than there is room for.
FitsOver(r, d) == Len(r.q) + Chunks[d] <= QueueMax + 1
Fits(r, d) == Len(r.q) + Chunks[d] <= QueueMax

\* dc_drain_deliveries: queue lines until one does not fit; the cursor stays
\* in front of that one.
Line(a, d) ==
  IF a.full \/ ~Fits(a.r, d) THEN [a EXCEPT !.full = TRUE]
  ELSE [a EXCEPT !.r.q = QueueChunks(a.r, d), !.n = @ + 1]

Drained(r) == FoldLeft(Line, [r |-> r, n |-> From(cursor), full |-> FALSE],
                       SubSeq(dlog, From(cursor) + 1, Len(dlog)))

\* dc_tick: an expired answer, the log, the resolver, the next request.
Tick ==
  /\ \E expired \in IF rest = "reading" THEN BOOLEAN ELSE {FALSE} :
       LET d == Drained(IF expired THEN Ambiguous(R) ELSE R) IN
       /\ \E b \in ResolveDriven(d.r) : \E c \in Started(b) : Commit(c)
       /\ cursor' = IF Total = 0 THEN cursor ELSE old + d.n
  /\ UNCHANGED <<dlog, old, answer, posted, gone, skipped, appended, faults>>

\* dc_drive_rest up to the request: connect, TLS and write may fail.
Connected ==
  /\ rest = "connecting"
  /\ Commit([R EXCEPT !.st = "writing"])
  /\ UNCHANGED <<dlog, old, cursor, answer, posted, gone, skipped, appended, faults>>

ConnectFails ==
  /\ rest \in {"connecting", "writing"}
  /\ Commit(Retry(R))
  /\ UNCHANGED <<dlog, old, cursor, answer, posted, gone, skipped, appended, faults>>

\* The request is written; Discord posts the message or not, and answers or
\* not.
Written ==
  /\ rest = "writing"
  /\ Commit([R EXCEPT !.st = "reading"])
  /\ \E done \in BOOLEAN :
       /\ answer' \in IF done THEN {"2xx", "5xx", "lost"}
                      ELSE {"429", "5xx", "4xx", "lost"}
       /\ posted' = IF done THEN Append(posted, Head(outq)) ELSE posted
  /\ UNCHANGED <<dlog, old, cursor, gone, skipped, appended, faults>>

\* The answer is read: a status, or nothing that can be parsed.
Answered ==
  /\ rest = "reading"
  /\ Commit(IF answer = "lost" THEN Ambiguous(R) ELSE Apply(R, answer))
  /\ answer' = "none"
  /\ UNCHANGED <<dlog, old, cursor, posted, gone, skipped, appended, faults>>

DelayOver ==
  /\ wait /\ wait' = FALSE
  /\ UNCHANGED <<dlog, old, cursor, outq, rest, serverRetries, ambiguousRetries,
                 answer, posted, refused, gone, skipped, appended, faults>>

-----------------------------------------------------------------------------
(* The gateway around the adapter                                          *)

Deliver ==
  /\ appended < Len(Chunks) /\ appended' = appended + 1
  /\ dlog' = Append(dlog, appended')
  /\ UNCHANGED <<old, cursor, outq, rest, wait, serverRetries, ambiguousRetries,
                 answer, posted, refused, gone, skipped, faults>>

Unread == {dlog[j] : j \in {k \in DOMAIN dlog : k > From(cursor)}}

RotateDeliveries ==
  /\ Total >= OldLines /\ faults < MaxFaults /\ faults' = faults + 1
  /\ gone' = gone \cup Unread
  /\ skipped' = IF Unread # {} /\ ~Fits(R, dlog[From(cursor) + 1])
                THEN skipped \cup Unread ELSE skipped
  /\ dlog' = <<>> /\ old' = 0
  /\ UNCHANGED <<cursor, outq, rest, wait, serverRetries, ambiguousRetries,
                 answer, posted, refused, appended>>

\* The queue is in memory, and the tail starts at the end of the log.
Restart ==
  /\ faults < MaxFaults /\ faults' = faults + 1
  /\ gone' = gone \cup Unread \cup {outq[i][1] : i \in DOMAIN outq}
  /\ outq' = <<>> /\ rest' = "idle" /\ wait' = FALSE
  /\ serverRetries' = 0 /\ ambiguousRetries' = 0 /\ answer' = "none"
  /\ cursor' = Total
  /\ UNCHANGED <<dlog, old, posted, refused, skipped, appended>>

Next ==
  \/ Tick \/ Connected \/ ConnectFails \/ Written \/ Answered \/ DelayOver
  \/ Deliver \/ RotateDeliveries \/ Restart

-----------------------------------------------------------------------------
(* Properties                                                              *)

Spec == Init /\ [][Next]_vars

TypeOK ==
  /\ Len(outq) <= QueueMax
  /\ rest \in {"idle", "resolving", "connecting", "writing", "reading"}
  /\ serverRetries \in 0..1 /\ ambiguousRetries \in 0..AmbiguousMax
  /\ rest # "idle" => outq # <<>>

Copies(c) == Cardinality({i \in DOMAIN posted : posted[i] = c})
Before(c, d) == c[1] < d[1] \/ (c[1] = d[1] /\ c[2] <= d[2])

\* The head stays until it is posted or dropped: whatever fails, the chunks
\* appear in the channel in the order of the delivery log.
PostedInOrder ==
  \A i, j \in DOMAIN posted : i <= j => Before(posted[i], posted[j])

\* dc_rest_ambiguous_failure and the one retry of a 5xx: a chunk is never in
\* the channel more often than the two retry budgets allow together.
CopiesBounded ==
  \A i \in DOMAIN posted : Copies(posted[i]) <= 2 + AmbiguousMax

\* dc_queue_message_chunks and the cursor: a reply that was read from the log
\* is posted, dropped with a narration, or still queued, every chunk of it,
\* unless the process stopped or the janitor rotated the line away.
RepliesAccounted ==
  \A r \in 1..appended :
    r \in gone \/ r \in Unread
    \/ \A k \in 1..Chunks[r] :
         <<r, k>> \in Range(posted) \cup Range(outq) \cup refused

\* discord_rest.c: "Transient failures therefore cannot reorder or silently
\* lose a delivery." A reply that waits behind a head under retry is posted or
\* dropped with a narration.
NothingSilentlyLost == skipped = {}
=============================================================================
