-------------------------- MODULE DiscordGateway --------------------------
(***************************************************************************)
(* The inbound half of the Discord adapter (adapters/discord): connecting  *)
(* the gateway socket, HELLO, IDENTIFY and RESUME, the sequence number,    *)
(* heartbeats, and the publication of messages on the bus.  Discord itself *)
(* is the environment: a session with a log of numbered dispatches.        *)
(***************************************************************************)
EXTENDS Naturals, FiniteSets, SequencesExt

CONSTANTS
  MaxMsgs,      \* bound: messages sent to the bot
  MaxSessions   \* bound: sessions Discord opens

VARIABLES
  gw,           \* gw_state
  wait,         \* next_reconnect_ms lies in the future
  hb,           \* heartbeat_interval_ms > 0
  ackPending,   \* heartbeat_ack_pending
  sid, seq,     \* session_id (0: empty) and sequence
  elig,         \* resume_eligible
  chan,         \* frames on their way to the adapter
  dead,         \* the connection carries nothing any more, unannounced
  srv,          \* Discord: id, validity and dispatch log of the session
  bound,        \* Discord's session is attached to the open connection
  published,    \* user_message envelopes on the bus, in order
  judged,       \* messages the adapter has published, filtered or refused
  sent          \* messages so far

vars == <<gw, wait, hb, ackPending, sid, seq, elig, chan, dead, srv, bound,
          published, judged, sent>>

NoSession == [id |-> 0, valid |-> FALSE, log |-> <<>>]

Init ==
  /\ gw = "off" /\ wait = FALSE /\ hb = FALSE /\ ackPending = FALSE
  /\ sid = 0 /\ seq = 0 /\ elig = FALSE
  /\ chan = <<>> /\ dead = FALSE /\ srv = NoSession /\ bound = FALSE
  /\ published = <<>> /\ judged = {} /\ sent = 0

inbound == <<sid, seq, elig, published, judged>>
remote == <<srv, sent>>

\* dc_close_gateway_with_cause: the session survives the connection.
CloseGateway ==
  /\ gw' = "off" /\ wait' = TRUE /\ ackPending' = FALSE
  /\ chan' = <<>> /\ dead' = FALSE /\ bound' = FALSE
  /\ UNCHANGED hb

-----------------------------------------------------------------------------
(* Connecting                                                              *)

Stays == UNCHANGED <<hb, ackPending, chan, dead, bound, inbound, remote>>

\* The reconnect delay is over.
BackoffOver == wait /\ wait' = FALSE /\ UNCHANGED gw /\ Stays

StartConnect ==
  /\ gw = "off" /\ ~wait
  /\ \/ gw' = "resolving" /\ UNCHANGED wait
     \/ wait' = TRUE /\ UNCHANGED gw            \* resolve start failed
  /\ Stays

\* dc_drive_resolve: resolved, failed, or past its deadline.
DriveResolve ==
  /\ gw = "resolving"
  /\ \/ gw' = "tcp" /\ UNCHANGED wait
     \/ gw' = "off" /\ wait' = TRUE
  /\ Stays

\* The HTTP upgrade is answered; Discord greets with HELLO.
Upgraded == gw = "ws" /\ gw' = "open" /\ chan' = <<[op |-> "hello"]>>

\* dc_drive_gateway up to the upgrade.
Handshake ==
  /\ \/ gw = "tcp" /\ gw' = "tls" /\ UNCHANGED chan
     \/ gw = "tls" /\ gw' = "ws" /\ UNCHANGED chan
     \/ Upgraded
  /\ UNCHANGED <<wait, hb, ackPending, dead, bound, inbound, remote>>

\* A failing connect, handshake, read, write or frame, a close frame, and the
\* timeout of an upgrade or of half a frame.
ConnectionFails ==
  /\ gw \in {"tcp", "tls", "ws", "open"}
  /\ CloseGateway /\ UNCHANGED <<inbound, remote>>

-----------------------------------------------------------------------------
(* Frames                                                                  *)

Dispatches(from) ==
  [i \in 1..(Len(srv.log) - from) |->
     [op |-> "msg", m |-> srv.log[from + i], s |-> from + i]]

\* What Discord does with IDENTIFY: a new session; its READY is dispatch 1.
Identified ==
  /\ IF srv.id < MaxSessions
     THEN /\ srv' = [id |-> srv.id + 1, valid |-> TRUE, log |-> <<0>>]
          /\ bound' = TRUE
          /\ chan' = Tail(chan) \o <<[op |-> "ready", sid |-> srv.id + 1, s |-> 1]>>
     ELSE UNCHANGED <<srv, bound>> /\ chan' = Tail(chan)

\* What Discord does with RESUME: the missed dispatches, or invalid session.
Resumed ==
  /\ UNCHANGED srv
  /\ IF srv.valid /\ srv.id = sid /\ seq <= Len(srv.log)
     THEN /\ bound' = TRUE
          /\ chan' = Tail(chan) \o Dispatches(seq) \o <<[op |-> "resumed"]>>
     ELSE /\ UNCHANGED bound
          /\ chan' = Tail(chan) \o <<[op |-> "invalid", again |-> FALSE]>>

Identifies == ~elig \/ sid = 0

\* op 10
Hello ==
  /\ hb' = TRUE /\ ackPending' = FALSE
  /\ IF dead THEN chan' = <<>> /\ UNCHANGED <<srv, bound>>
     ELSE IF Identifies THEN Identified ELSE Resumed
  /\ UNCHANGED <<gw, wait, dead, inbound, sent>>

\* No token, or no room for the answer to HELLO: the connection is given up.
HelloRefused ==
  /\ hb' = TRUE /\ gw' = "off" /\ wait' = TRUE /\ ackPending' = FALSE
  /\ chan' = <<>> /\ dead' = FALSE /\ bound' = FALSE
  /\ UNCHANGED <<inbound, remote>>

\* op 9: a session that cannot be resumed is forgotten.
Invalid(again) ==
  /\ elig' = again
  /\ IF again THEN UNCHANGED <<sid, seq>> ELSE sid' = 0 /\ seq' = 0

\* The sequence of the last frame read, not of the one handled.
SequenceOfBuffer(f) ==
  seq' = LET S == {chan[i].s : i \in {j \in DOMAIN chan : chan[j].op = "msg"}}
         IN CHOOSE x \in S \cup {f.s} : \A y \in S \cup {f.s} : y <= x

\* a->sequence = c.sequence, before the dispatch is looked at.
Sequence(f) == seq' = f.s

\* A message the adapter does not take: unreadable, its own, a bot's, empty,
\* from elsewhere, or one that does not mention it.
Filtered == UNCHANGED published

\* MESSAGE_CREATE: filtered, published, or refused by the bus.
PublishMessage(m) ==
  published' = Append(published, m) \/ UNCHANGED published

Dispatched(m) ==
  /\ Filtered \/ PublishMessage(m)
  /\ judged' = judged \cup {m}

\* READY starts a session that can be resumed.
Ready(f) == sid' = f.sid /\ elig' = TRUE

\* The next whole frame in the buffer.
NextFrame == Head(chan)

\* One text frame, in order.
Receive ==
  /\ gw = "open" /\ chan # <<>>
  /\ LET f == NextFrame IN
     \/ f.op = "hello" /\ (Hello \/ HelloRefused)
     \/ /\ f.op = "ready" /\ Sequence(f) /\ Ready(f)
        /\ chan' = Tail(chan)
        /\ UNCHANGED <<gw, wait, hb, ackPending, dead, bound, remote, published, judged>>
     \/ /\ f.op = "resumed" /\ elig' = TRUE /\ chan' = Tail(chan)
        /\ UNCHANGED <<gw, wait, hb, ackPending, dead, bound, remote, sid, seq,
                       published, judged>>
     \/ /\ f.op = "msg" /\ Sequence(f) /\ Dispatched(f.m)
        /\ chan' = Tail(chan)
        /\ UNCHANGED <<gw, wait, hb, ackPending, dead, bound, remote, sid, elig>>
     \/ /\ f.op = "ack" /\ ackPending' = FALSE /\ chan' = Tail(chan)
        /\ UNCHANGED <<gw, wait, hb, dead, bound, remote, inbound>>
     \/ /\ f.op = "invalid" /\ Invalid(f.again) /\ CloseGateway
        /\ UNCHANGED <<published, judged, remote>>
     \/ /\ f.op = "reconnect" /\ CloseGateway                       \* op 7
        /\ UNCHANGED <<inbound, remote>>

\* dc_heartbeat_due that never looks at the missing acknowledgement.
HeartbeatBlind ==
  /\ gw = "open" /\ hb
  /\ ackPending' = TRUE
  /\ chan' = IF dead \/ ackPending THEN chan ELSE Append(chan, [op |-> "ack"])
  /\ UNCHANGED <<gw, wait, hb, dead, bound, inbound, remote>>

\* dc_heartbeat_due: the second beat without an acknowledgement closes. The
\* interval survives a reconnect, so a beat may come before HELLO.
Heartbeat ==
  /\ gw = "open" /\ hb
  /\ IF ackPending THEN CloseGateway /\ UNCHANGED <<inbound, remote>>
     ELSE /\ ackPending' = TRUE
          /\ chan' = IF dead THEN chan ELSE Append(chan, [op |-> "ack"])
          /\ UNCHANGED <<gw, wait, hb, dead, bound, inbound, remote>>

-----------------------------------------------------------------------------
(* Discord and the network                                                 *)

NewMessage ==
  /\ sent < MaxMsgs /\ sent' = sent + 1
  /\ srv' = IF srv.valid THEN [srv EXCEPT !.log = Append(@, sent')] ELSE srv
  /\ chan' = IF bound /\ ~dead
             THEN Append(chan, [op |-> "msg", m |-> sent', s |-> Len(srv'.log)])
             ELSE chan
  /\ UNCHANGED <<gw, wait, hb, ackPending, dead, bound, inbound>>

\* Discord asks for a reconnect, or for one without the session.
ServerClose ==
  /\ bound /\ ~dead /\ bound' = FALSE
  /\ \E f \in {[op |-> "reconnect"], [op |-> "invalid", again |-> TRUE],
               [op |-> "invalid", again |-> FALSE]} : chan' = Append(chan, f)
  /\ UNCHANGED <<gw, wait, hb, ackPending, dead, inbound, remote>>

SessionExpires ==
  /\ srv.valid /\ ~bound
  /\ srv' = [srv EXCEPT !.valid = FALSE]
  /\ UNCHANGED <<gw, wait, hb, ackPending, chan, dead, bound, inbound, sent>>

\* The path goes silent; what was not read is lost.
NetworkDies ==
  /\ gw = "open" /\ ~dead /\ dead' = TRUE /\ chan' = <<>> /\ bound' = FALSE
  /\ UNCHANGED <<gw, wait, hb, ackPending, inbound, remote>>

Next ==
  \/ BackoffOver \/ StartConnect \/ DriveResolve \/ Handshake
  \/ ConnectionFails \/ Receive \/ Heartbeat
  \/ NewMessage \/ ServerClose \/ SessionExpires \/ NetworkDies

\* The reactor drives what is ready; deadlines and backoffs pass.
Fairness == WF_vars(BackoffOver) /\ WF_vars(Receive) /\ WF_vars(Heartbeat)

Spec == Init /\ [][Next]_vars /\ Fairness

-----------------------------------------------------------------------------
(* Properties                                                              *)

TypeOK ==
  /\ gw \in {"off", "resolving", "tcp", "tls", "ws", "open"}
  /\ sid \in 0..MaxSessions /\ seq \in 0..(MaxMsgs + 1)
  /\ elig => sid # 0
  /\ judged \subseteq 1..MaxMsgs

\* dc_handle_gateway_json takes the sequence before it dispatches: however
\* often the gateway is lost and resumed, no message reaches the bus twice,
\* and messages keep their order.
PublishedOnce ==
  \A i, j \in DOMAIN published : i < j => published[i] < published[j]

\* The sequence never runs ahead of the frames: everything a RESUME will not
\* ask for again has been judged.
SequenceIsJudged ==
  sid = srv.id /\ seq <= Len(srv.log)
    => \A i \in 2..seq : srv.log[i] \in judged

\* A session that is still resumable is resumed, never identified anew: the
\* messages of an outage are not skipped while Discord holds them.
HeldSessionIsResumed ==
  [][srv.id # srv'.id => ~srv.valid \/ sid # srv.id]_vars

\* dc_heartbeat_due: an open connection that has gone silent is closed at the
\* second beat, and the adapter connects again.
SilenceIsNoticed == (gw = "open" /\ dead /\ hb) ~> (gw = "off" /\ ~wait)
=============================================================================
