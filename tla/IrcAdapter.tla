----------------------------- MODULE IrcAdapter -----------------------------
(***************************************************************************)
(* The IRC adapter (adapters/irc): the life of its connection, the lines   *)
(* it writes on it, the timeouts that replace a dead one, and the replies  *)
(* it reads from the delivery log while the connection is ready.           *)
(***************************************************************************)
EXTENDS Naturals, FiniteSets, SequencesExt

CONSTANTS
  Replies,     \* replies delivered, each one line
  TxCap,       \* lines txbuf holds
  Nicks,       \* variants of a taken nick that are tried
  UseTls,      \* a->use_tls
  MaxConns,    \* bound: connections
  OldLines     \* lines at which the janitor rotates the delivery log

VARIABLES
  st,          \* a->state
  backoff,     \* next_reconnect_ms lies in the future
  late,        \* the state was entered a timeout ago
  partial,     \* rxbuf holds a partial line: none, fresh, stale
  tx,          \* txbuf, in lines
  wire,        \* kinds of line the server has read on this connection
  nick,        \* a->nick_attempt
  silence,     \* 0, 1 past IRC_SILENCE_PING_MS, 2 past IRC_SILENCE_DROP_MS
  pinged,      \* keepalive_ping_sent
  dead,        \* the peer is gone and no packet says so
  dlog, old, cursor, cinit,
  said,        \* replies the server read, in order, over all connections
  lost,        \* replies dropped: overflow, closed connection, rotation
  conns, appended, rotated

connVars == <<st, backoff, late, partial, tx, wire, nick, silence, pinged,
              dead, lost, conns>>

logVars == <<dlog, old, cursor, cinit, appended, rotated>>
vars == <<connVars, logVars, said>>

Init ==
  /\ st = "disconnected" /\ backoff = FALSE /\ late = FALSE
  /\ partial = "none" /\ tx = <<>> /\ wire = {} /\ nick = 0
  /\ silence = 0 /\ pinged = FALSE /\ dead = FALSE
  /\ dlog = <<>> /\ old = OldLines /\ cursor = 0 /\ cinit = FALSE
  /\ said = <<>> /\ lost = {} /\ conns = 0 /\ appended = 0 /\ rotated = FALSE

\* A line is its kind and, for a reply, which.
Line(kind) == <<kind, 0>>
Say(r) == <<"say", r>>
IsReply(line) == line[1] = "say"
RepliesIn(lines) == {lines[i][2] : i \in {j \in DOMAIN lines : IsReply(lines[j])}}

\* append_tx: a line that does not fit is left out.
SendLine(q, line) == IF Len(q) < TxCap THEN Append(q, line) ELSE q

PreReady == {"connecting", "tls", "registering"}

\* irc_close_conn without the line that empties txbuf
CloseKeepsTx ==
  /\ st' = "disconnected" /\ backoff' = TRUE /\ late' = FALSE
  /\ partial' = "none" /\ nick' = 0 /\ silence' = 0 /\ pinged' = FALSE
  /\ dead' = FALSE /\ wire' = {} /\ UNCHANGED <<tx, lost, conns>>

\* irc_close_conn
Close ==
  /\ st' = "disconnected" /\ backoff' = TRUE /\ late' = FALSE
  /\ partial' = "none" /\ tx' = <<>> /\ nick' = 0 /\ silence' = 0
  /\ pinged' = FALSE /\ dead' = FALSE /\ wire' = {}
  /\ lost' = lost \cup RepliesIn(tx) /\ UNCHANGED conns

Goto(s) == /\ st' = s /\ late' = FALSE
           /\ UNCHANGED <<backoff, partial, tx, wire, nick, silence, pinged,
                          dead, lost, conns>>

-----------------------------------------------------------------------------
(* Connecting                                                              *)

\* irc_send_registration, on entering IRC_REGISTERING
Register ==
  /\ st' = "registering" /\ late' = FALSE
  /\ tx' = SendLine(SendLine(tx, Line("nick")), Line("user"))
  /\ UNCHANGED <<backoff, partial, wire, nick, silence, pinged, dead, lost, conns>>

\* irc_drive_resolve: the resolver answers, fails or is too late.
DriveResolve ==
  /\ st = "resolving"
  /\ \/ Goto("connecting")
     \/ /\ st' = "disconnected" /\ backoff' = TRUE /\ late' = FALSE
        /\ UNCHANGED <<partial, tx, wire, nick, silence, pinged, dead, lost, conns>>
  /\ UNCHANGED <<logVars, said>>

\* irc_on_fd: IRC_CONNECTING
Connected ==
  /\ st = "connecting" /\ ~dead
  /\ \/ IF UseTls THEN Goto("tls") ELSE Register
     \/ Close
  /\ UNCHANGED <<logVars, said>>

\* irc_on_fd: IRC_TLS_HANDSHAKE
Handshake ==
  /\ st = "tls" /\ ~dead
  /\ Register \/ Close
  /\ UNCHANGED <<logVars, said>>

-----------------------------------------------------------------------------
(* Traffic                                                                 *)

Talking == st \in {"registering", "ready"} /\ ~dead

\* The server answers once it has read the registration.
Welcomes == "user" \in wire

\* irc_on_fd: a read resets the silence; a line is handled or left partial.
Heard == /\ silence' = 0 /\ pinged' = FALSE

\* handle_irc_line: 001 joins the channels and makes the connection ready.
Welcome ==
  /\ Talking /\ st = "registering" /\ Welcomes /\ Heard
  /\ st' = "ready" /\ late' = FALSE /\ partial' = "none"
  /\ tx' = SendLine(tx, Line("join"))
  /\ UNCHANGED <<backoff, wire, nick, dead, lost, conns, logVars, said>>

\* handle_irc_line: 433 and 437 try another nick, or give the connection up.
NickTaken ==
  /\ Talking /\ st = "registering" /\ "nick" \in wire
  /\ IF nick >= Nicks THEN Close
     ELSE /\ nick' = nick + 1 /\ tx' = SendLine(tx, Line("nick")) /\ Heard
          /\ partial' = "none"
          /\ UNCHANGED <<st, backoff, late, wire, dead, lost, conns>>
  /\ UNCHANGED <<logVars, said>>

\* handle_irc_line: PING, or a line nothing is done about here. (A PRIVMSG goes
\* to the bus, which this module leaves out.) A server waits for its answer
\* before it pings again.
ServerLine ==
  /\ Talking /\ Heard /\ partial' = "none"
  /\ \/ UNCHANGED tx
     \/ Line("pong") \notin Range(tx) /\ tx' = SendLine(tx, Line("pong"))
  /\ UNCHANGED <<st, backoff, late, wire, nick, dead, lost, conns, logVars, said>>

\* A read that ends inside a line starts or leaves the partial-line clock.
PartialLine ==
  /\ Talking /\ Heard
  /\ partial' = IF partial = "none" THEN "fresh" ELSE partial
  /\ UNCHANGED <<st, backoff, late, tx, wire, nick, dead, lost, conns, logVars, said>>

\* drain_tx: the socket takes the next line.
DrainTx ==
  /\ Talking /\ tx # <<>>
  /\ wire' = wire \cup {Head(tx)[1]} /\ tx' = Tail(tx)
  /\ said' = IF IsReply(Head(tx)) THEN Append(said, Head(tx)[2]) ELSE said
  /\ UNCHANGED <<st, backoff, late, partial, nick, silence, pinged, dead,
                 lost, conns, logVars>>

\* The server closes, or a read or a write fails.
ConnectionFails ==
  /\ st \in PreReady \cup {"ready"} /\ Close
  /\ UNCHANGED <<logVars, said>>

-----------------------------------------------------------------------------
(* irc_tick                                                                *)

Total == old + Len(dlog)
From == IF Total < cursor THEN 0 ELSE cursor - old
Waiting == IF cinit THEN SubSeq(dlog, From + 1, Len(dlog)) ELSE <<>>
Unread == IF cinit THEN Range(Waiting) ELSE Range(dlog)

\* drain_deliveries: the first drain only finds the end of the log.
CursorDrained ==
  /\ cinit' = TRUE
  /\ cursor' = IF ~cinit THEN Total ELSE IF Total = 0 THEN cursor ELSE Total

\* drain_deliveries and queue_privmsg; without an ops channel drain_narration
\* returns at once
Drain(q) ==
  LET queued == FoldLeft(SendLine, q, [i \in DOMAIN Waiting |-> Say(Waiting[i])])
  IN /\ tx' = queued
     /\ lost' = lost \cup (Unread \ RepliesIn(queued))
     /\ CursorDrained

Dropped ==
  \/ st \in PreReady /\ late
  \/ partial = "stale"

Silent == st = "ready" /\ silence = 2

\* The connection is dropped, or kept alive and fed.
TickReady ==
  /\ st = "ready" /\ ~Dropped
  /\ IF Silent THEN Close /\ UNCHANGED <<cursor, cinit>>
     ELSE /\ Drain(IF silence >= 1 /\ ~pinged THEN SendLine(tx, Line("ping")) ELSE tx)
          /\ pinged' = (pinged \/ silence >= 1)
          /\ UNCHANGED <<st, backoff, late, partial, wire, nick, silence, dead, conns>>
  /\ UNCHANGED <<dlog, old, appended, rotated, said>>

\* The registration timeout and the partial line.
TickDrop ==
  /\ Dropped /\ Close
  /\ UNCHANGED <<logVars, said>>

\* The backoff is over: the name is resolved again.
TickConnect ==
  /\ st = "disconnected" /\ ~backoff /\ conns < MaxConns
  /\ st' = "resolving" /\ late' = FALSE /\ conns' = conns + 1
  /\ UNCHANGED <<backoff, partial, tx, wire, nick, silence, pinged, dead, lost,
                 logVars, said>>

BackoffOver ==
  /\ st = "disconnected" /\ backoff /\ backoff' = FALSE
  /\ UNCHANGED <<st, late, partial, tx, wire, nick, silence, pinged, dead,
                 lost, conns, logVars, said>>

-----------------------------------------------------------------------------
(* Time, the network and the rest of the gateway                           *)

\* The clocks of the state, of the partial line and of the silence.
TimePasses ==
  /\ st \in PreReady \cup {"ready"}
  /\ \/ st # "ready" /\ ~late /\ late' = TRUE /\ UNCHANGED <<partial, silence>>
     \/ partial = "fresh" /\ partial' = "stale" /\ UNCHANGED <<late, silence>>
     \/ st = "ready" /\ silence < 2 /\ silence' = silence + 1 /\ UNCHANGED <<late, partial>>
  /\ UNCHANGED <<st, backoff, tx, wire, nick, pinged, dead, lost, conns, logVars, said>>

Dies ==
  /\ st \in PreReady \cup {"ready"} /\ ~dead /\ dead' = TRUE
  /\ UNCHANGED <<st, backoff, late, partial, tx, wire, nick, silence, pinged,
                 lost, conns, logVars, said>>

Deliver ==
  /\ appended < Replies /\ appended' = appended + 1
  /\ dlog' = Append(dlog, appended')
  /\ UNCHANGED <<connVars, old, cursor, cinit, rotated, said>>

RotateDeliveries ==
  /\ Total >= OldLines /\ ~rotated /\ rotated' = TRUE
  /\ lost' = lost \cup Unread
  /\ dlog' = <<>> /\ old' = 0
  /\ UNCHANGED <<st, backoff, late, partial, tx, wire, nick, silence, pinged,
                 dead, conns, cursor, cinit, appended, said>>

Next ==
  \/ DriveResolve \/ Connected \/ Handshake
  \/ Welcome \/ NickTaken \/ ServerLine \/ PartialLine \/ DrainTx
  \/ ConnectionFails
  \/ TickReady \/ TickDrop \/ TickConnect \/ BackoffOver
  \/ TimePasses \/ Dies \/ Deliver \/ RotateDeliveries

\* The reactor ticks and the resolver ends; time does not stop.
Fairness ==
  /\ WF_vars(TickReady) /\ WF_vars(TickDrop)
  /\ WF_vars(DriveResolve) /\ WF_vars(BackoffOver) /\ WF_vars(TimePasses)

Spec == Init /\ [][Next]_vars /\ Fairness

-----------------------------------------------------------------------------
(* Properties                                                              *)

TypeOK ==
  /\ st \in PreReady \cup {"disconnected", "resolving", "ready"}
  /\ partial \in {"none", "fresh", "stale"} /\ silence \in 0..2
  /\ Len(tx) <= TxCap /\ nick \in 0..Nicks
  /\ st \in {"disconnected", "resolving"} => tx = <<>> /\ wire = {}

\* irc_close_conn empties txbuf and replies are only read while ready: no
\* reply queued on one connection is written on the next one, ahead of its
\* registration.
SpeaksAfterRegistering ==
  /\ "say" \in wire => "user" \in wire
  /\ \A i \in DOMAIN tx : IsReply(tx[i]) =>
       "user" \in wire \/ \E j \in 1..(i - 1) : tx[j] = Line("user")

\* The cursor moves past what was read once and for all: over all connections
\* the server reads replies in order and none twice, and a reply it has not
\* read is unread in the log, in txbuf, or was lost with the log, for want of
\* room, or with its connection.
SaidOnceInOrder ==
  /\ \A i, j \in DOMAIN said : i < j => said[i] < said[j]
  /\ lost \cap Range(said) = {}
  /\ 1..appended = Range(said) \cup lost \cup RepliesIn(tx) \cup Unread

\* irc_tick, "zombie connection: reconnect" and "Give the pre-READY states a
\* hard deadline": a connection whose peer is gone is given up.
DeadConnectionIsDropped == dead ~> st = "disconnected"
=============================================================================
