--------------------------- MODULE WsTransport ---------------------------
(***************************************************************************)
(* Sockets of the local client adapter (adapters/ws): the client table,    *)
(* one HTTP request or WebSocket upgrade per connection, queued output,    *)
(* record streams pumped as the connection drains, parse-progress          *)
(* timeouts, and the order of the per-client part of the tick.             *)
(***************************************************************************)
EXTENDS Naturals, FiniteSets

CONSTANTS
  Clients,    \* WS_MAX_CLIENTS slots
  TxCap,      \* WS_TX_CAP, in queued responses, frames or records
  TxInitial,  \* WS_TX_INITIAL: above it the record stream waits
  Records     \* bound: records of one inspection stream

VARIABLES
  conn,       \* WsConn per slot
  listening   \* listen_fd >= 0

vars == <<conn, listening>>

\* stream: records left, or Records + 1 for no stream.
NoStream == Records + 1

Free == [st |-> "free", sock |-> FALSE, auth |-> FALSE, rx |-> FALSE,
         clock |-> FALSE, late |-> FALSE, tx |-> 0, last |-> FALSE, stream |-> NoStream,
         answers |-> 0, peer |-> "reads"]

Init == conn = [c \in Clients |-> Free] /\ listening = TRUE

Set(c, r) == conn' = [conn EXCEPT ![c] = r]

CloseConn(r) == Free

\* conn_append_tx: 0 on success.
Fits(r) == r.tx + 1 <= TxCap
Queue(r) == [r EXCEPT !.tx = @ + 1]

\* send_json: a frame that does not fit closes the connection.
SendJson(r) == IF Fits(r) THEN Queue(r) ELSE CloseConn(r)

\* queue_http_response: the one response, after which nothing is parsed.
HttpResponse(r) ==
  IF ~Fits(r) THEN CloseConn(r)
  ELSE [Queue(r) EXCEPT !.st = "closing", !.last = TRUE, !.answers = @ + 1]

\* pump_http_record_stream: the next record, or the end of the stream.
Pumped(r) ==
  IF r.stream = NoStream \/ r.tx > TxInitial THEN {r}
  ELSE {CloseConn(r)} \cup
       (IF ~Fits(r) THEN {}
        ELSE IF r.stream = 0 THEN {[Queue(r) EXCEPT !.stream = NoStream,
                                                    !.last = TRUE]}
        ELSE {[Queue(r) EXCEPT !.stream = @ - 1]})

\* start_record_route: the header of a chunked response, then a first record.
RecordRoute(r) ==
  {HttpResponse(r)} \cup
  (IF ~Fits(r) THEN {CloseConn(r)}
   ELSE UNION {Pumped([Queue(r) EXCEPT !.st = "closing", !.stream = n,
                                       !.answers = @ + 1]) : n \in 0..Records})

\* handle_http_get: a projection, a record stream, or an error.
HttpGet(r) == {HttpResponse(r)} \cup RecordRoute(r)

-----------------------------------------------------------------------------
(* on_fd                                                                   *)

\* accept: a connection that finds no free slot is closed at once.
Accept ==
  /\ listening
  /\ \E c \in Clients :
       /\ conn[c].st = "free"
       /\ Set(c, [Free EXCEPT !.st = "handshake", !.sock = TRUE, !.clock = TRUE])
  /\ UNCHANGED listening

\* Bytes that complete nothing: they restart the progress clock, except in a
\* connection that is already answered.
PartialBytes(c) ==
  /\ conn[c].sock /\ conn[c].st \in {"handshake", "open"}
  /\ Set(c, [conn[c] EXCEPT !.rx = TRUE, !.clock = TRUE, !.late = FALSE])
  /\ UNCHANGED listening

\* The head is complete: 4xx, a GET, or the upgrade.
RequestHead(c) ==
  /\ conn[c].sock /\ conn[c].st = "handshake"
  /\ LET r == [conn[c] EXCEPT !.rx = FALSE, !.late = FALSE] IN
     \E n \in {HttpResponse(r)} \cup HttpGet(r) \cup
              {IF Fits(r) THEN [Queue(r) EXCEPT !.st = "open"] ELSE CloseConn(r)} :
       Set(c, n)
  /\ UNCHANGED listening

\* One masked frame: close, ping, malformed or a protocol text. The accepted
\* hello stops the clock, also when part of the next frame already arrived.
Frame(c) ==
  /\ conn[c].sock /\ conn[c].st = "open"
  /\ LET r == [conn[c] EXCEPT !.rx = FALSE, !.clock = ~conn[c].auth, !.late = FALSE] IN
     \/ Set(c, CloseConn(r))                             \* 0x8, malformed
     \/ Set(c, SendJson(r))                              \* pong, error, reply
     \/ /\ ~r.auth                                       \* hello, bad token
        /\ Set(c, [SendJson(r) EXCEPT !.st = "closing", !.last = TRUE])
     \/ /\ ~r.auth                                       \* hello
        /\ \E more \in BOOLEAN :
             Set(c, SendJson([r EXCEPT !.auth = TRUE, !.clock = FALSE,
                                       !.rx = more]))
  /\ UNCHANGED listening

\* send_to_session, error_to_session: the tick's answers to a session.
SessionFrame(c) ==
  /\ conn[c].st = "open" /\ conn[c].auth
  /\ Set(c, SendJson(conn[c]))
  /\ UNCHANGED listening

\* POLLERR, POLLHUP or end of file.
HangUp(c) ==
  /\ conn[c].sock
  /\ Set(c, CloseConn(conn[c]))
  /\ UNCHANGED listening

\* conn_drain_tx, then the stream or the close that waits for an empty queue.
Written(r) ==
  UNION {LET e == [r EXCEPT !.tx = n] IN
         IF e.stream # NoStream THEN Pumped(e)
         ELSE IF e.last /\ e.tx = 0 THEN {CloseConn(e)} ELSE {e} :
         n \in IF r.peer = "reads" THEN 0..(r.tx - 1) ELSE {r.tx}}

Writable(c) ==
  /\ conn[c].sock /\ conn[c].tx > 0
  /\ \E n \in Written(conn[c]) : Set(c, n)
  /\ UNCHANGED listening

\* The peer stops or resumes reading its side of the socket.
PeerTurns(c) ==
  /\ conn[c].sock
  /\ Set(c, [conn[c] EXCEPT !.peer = IF @ = "reads" THEN "stalls" ELSE "reads"])
  /\ UNCHANGED listening

-----------------------------------------------------------------------------
(* The tick                                                                *)

WaitingForParse(r) ==
  r.st = "handshake" \/ (r.st = "open" /\ (~r.auth \/ r.rx))

\* WS_PARSE_PROGRESS_TIMEOUT_MS passes without a parsed request or frame.
TimePasses(c) ==
  /\ conn[c].st \in {"handshake", "open"} /\ conn[c].clock /\ ~conn[c].late
  /\ Set(c, [conn[c] EXCEPT !.late = TRUE])
  /\ UNCHANGED listening

Ticked(r) ==
  IF r.late /\ WaitingForParse(r)
  THEN {IF r.st = "handshake" THEN [HttpResponse(r) EXCEPT !.clock = FALSE, !.late = FALSE]
        ELSE CloseConn(r)}
  ELSE IF r.st # "free" /\ r.tx > 0 THEN Written(r)
  ELSE IF r.st # "free" /\ r.stream # NoStream THEN Pumped(r)
  ELSE {r}

\* ws_tick visits every slot; one slot's part of it shares no state with
\* another's.
Tick(c) ==
  /\ \E n \in Ticked(conn[c]) : Set(c, n)
  /\ UNCHANGED listening

\* POLLERR on the listening socket, and the tick that binds it again.
ListenerFails == listening /\ listening' = FALSE /\ UNCHANGED conn
StartListener == ~listening /\ listening' = TRUE /\ UNCHANGED conn

Next ==
  \/ Accept \/ ListenerFails \/ StartListener
  \/ \E c \in Clients :
       \/ PartialBytes(c) \/ RequestHead(c) \/ Frame(c) \/ SessionFrame(c)
       \/ HangUp(c)
       \/ Writable(c) \/ PeerTurns(c) \/ TimePasses(c) \/ Tick(c)

\* Every pass of the reactor ticks, and a failed listener's backoff expires.
Fairness == WF_vars(StartListener) /\ \A c \in Clients : WF_vars(Tick(c))

Spec == Init /\ [][Next]_vars /\ Fairness

-----------------------------------------------------------------------------
(* Properties                                                              *)

TypeOK ==
  /\ listening \in BOOLEAN
  /\ \A c \in Clients :
       /\ conn[c].st \in {"free", "handshake", "open", "closing"}
       /\ conn[c].tx \in 0..TxCap
       /\ conn[c].stream \in 0..NoStream
       /\ conn[c].answers \in Nat

\* queue_http_response, the 408 of the tick and the record routes: a
\* connection is given one HTTP response, however requests, timeouts and
\* writable sockets follow each other.
OneResponse == \A c \in Clients : conn[c].answers <= 1

\* A record stream ends its own response: an answered connection either still
\* has output or a stream, or is about to be closed by the next write.
AnsweredWillClose ==
  \A c \in Clients :
    conn[c].st = "closing" => conn[c].last \/ conn[c].stream # NoStream

\* ws_tick's progress timeout: a connection whose request, upgrade or hello
\* made no progress for the timeout loses its slot or is answered, unless it
\* sends again first.
StrangersLeave ==
  \A c \in Clients :
    (conn[c].late /\ ~conn[c].auth)
      ~> (conn[c].st \in {"free", "closing"} \/ ~conn[c].late)

\* An answered connection whose peer reads is closed and its slot freed.
AnswersDrain ==
  \A c \in Clients :
    (conn[c].st = "closing" /\ conn[c].sock /\ conn[c].peer = "reads")
      ~> (conn[c].st = "free" \/ conn[c].peer = "stalls")

=============================================================================
