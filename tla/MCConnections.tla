--------------------------- MODULE MCConnections ---------------------------
(***************************************************************************)
(* Small instances, for TLC, of the parts of the gateway that live on a     *)
(* connection, beside a process or on a directory: the message bus, with the*)
(* constants the configuration gives, and the WebSocket listener, the       *)
(* Discord gateway, the Telegram poll, the IRC connection, the detached     *)
(* worker and the janitor. They share no state, so one behaviour is about   *)
(* one of them: which is chosen in Init from Which and never changes.       *)
(***************************************************************************)
EXTENDS Bus

CONSTANTS Which

\* Each publisher sends one message.
OneEach == [p \in Publishers |-> 1]

VARIABLES
  which,      \* the component this behaviour is about
  wtConn, wtListening,
  dgGw, dgWait, dgHb, dgAckPending, dgSid, dgSeq, dgElig, dgChan, dgDead,
  dgSrv, dgBound, dgPublished, dgJudged, dgSent,
  tiArrived, tiAcked, tiOffset, tiDisk, tiPoll, tiAsked, tiPending,
  tiResolved, tiFile, tiPublished, tiJudged, tiCrashes, tiFaults,
  irSt, irBackoff, irLate, irPartial, irTx, irWire, irNick, irSilence,
  irPinged, irDead, irDlog, irOld, irCursor, irCinit, irSaid, irLost,
  irConns, irAppended, irRotated,
  wpKind, wpFile, wpExit, wpMade, wpRunner, wpChild, wpGw, wpMine, wpKilled,
  wpClaims, wpTries, wpSawExit, wpStatuses, wpAborts, wpFaults,
  jaRule, jaUntilTick, jaUntilRun, jaStore, jaHeld, jaHusks, jaAway, jaMade,
  jaSlots, jaGen, jaGzip, jaOvertaken, jaCut, jaOpen, jaDone, jaArchived,
  jaAged, jaKills

Wt == INSTANCE WsTransport WITH
  Clients <- {1}, TxCap <- 3, TxInitial <- 1, Records <- 1, conn <- wtConn,
  listening <- wtListening

Dg == INSTANCE DiscordGateway WITH
  MaxMsgs <- 2, MaxSessions <- 2, gw <- dgGw, wait <- dgWait, hb <- dgHb,
  ackPending <- dgAckPending, sid <- dgSid, seq <- dgSeq, elig <- dgElig,
  chan <- dgChan, dead <- dgDead, srv <- dgSrv, bound <- dgBound,
  published <- dgPublished, judged <- dgJudged, sent <- dgSent

Ti == INSTANCE TelegramInbound WITH
  Updates <- <<"text", "media", "other", "text">>, MaxCrashes <- 1,
  MaxFaults <- 2, arrived <- tiArrived, acked <- tiAcked, offset <- tiOffset,
  disk <- tiDisk, poll <- tiPoll, asked <- tiAsked, pending <- tiPending,
  resolved <- tiResolved, file <- tiFile, published <- tiPublished,
  judged <- tiJudged, crashes <- tiCrashes, faults <- tiFaults

Ir == INSTANCE IrcAdapter WITH
  Replies <- 1, TxCap <- 2, Nicks <- 0, UseTls <- TRUE, MaxConns <- 2,
  OldLines <- 2, st <- irSt, backoff <- irBackoff, late <- irLate,
  partial <- irPartial, tx <- irTx, wire <- irWire, nick <- irNick,
  silence <- irSilence, pinged <- irPinged, dead <- irDead, dlog <- irDlog,
  old <- irOld, cursor <- irCursor, cinit <- irCinit, said <- irSaid,
  lost <- irLost, conns <- irConns, appended <- irAppended,
  rotated <- irRotated

Wp == INSTANCE WorkerProcess WITH
  Tools <- {"codex", "claude"}, MaxStatus <- 2, MaxAborts <- 1,
  MaxFaults <- 1, kind <- wpKind, file <- wpFile, exit <- wpExit,
  made <- wpMade, runner <- wpRunner, child <- wpChild, gw <- wpGw,
  mine <- wpMine, killed <- wpKilled, claims <- wpClaims, tries <- wpTries,
  sawExit <- wpSawExit, statuses <- wpStatuses, aborts <- wpAborts,
  faults <- wpFaults

Ja == INSTANCE Janitor WITH
  Rules <- {"runs", "workers", "bus", "log", "archive"}, Keep <- 2,
  ScanCap <- 4, TickEvery <- 1, Interval <- 1, MaxEntries <- 5, LogKeep <- 2,
  MaxRotations <- 4, Tasks <- {1, 2}, MaxKills <- 1, rule <- jaRule,
  untilTick <- jaUntilTick, untilRun <- jaUntilRun, store <- jaStore,
  held <- jaHeld, husks <- jaHusks, away <- jaAway, made <- jaMade,
  slots <- jaSlots, gen <- jaGen, gzip <- jaGzip, overtaken <- jaOvertaken,
  cut <- jaCut, open <- jaOpen, done <- jaDone, archived <- jaArchived,
  aged <- jaAged, kills <- jaKills

wtVars == <<wtConn, wtListening>>
dgVars == <<dgGw, dgWait, dgHb, dgAckPending, dgSid, dgSeq, dgElig, dgChan, dgDead,
  dgSrv, dgBound, dgPublished, dgJudged, dgSent>>
tiVars == <<tiArrived, tiAcked, tiOffset, tiDisk, tiPoll, tiAsked, tiPending,
  tiResolved, tiFile, tiPublished, tiJudged, tiCrashes, tiFaults>>
irVars == <<irSt, irBackoff, irLate, irPartial, irTx, irWire, irNick, irSilence,
  irPinged, irDead, irDlog, irOld, irCursor, irCinit, irSaid, irLost,
  irConns, irAppended, irRotated>>
wpVars == <<wpKind, wpFile, wpExit, wpMade, wpRunner, wpChild, wpGw, wpMine, wpKilled,
  wpClaims, wpTries, wpSawExit, wpStatuses, wpAborts, wpFaults>>
jaVars == <<jaRule, jaUntilTick, jaUntilRun, jaStore, jaHeld, jaHusks, jaAway, jaMade,
  jaSlots, jaGen, jaGzip, jaOvertaken, jaCut, jaOpen, jaDone, jaArchived,
  jaAged, jaKills>>
mcVars == <<which, vars, wtVars, dgVars, tiVars, irVars, wpVars, jaVars>>

Components == {"bu", "wt", "dg", "ti", "ir", "wp", "ja"}

MCInit ==
  /\ which \in Which
  /\ Init
  /\ Wt!Init
  /\ Dg!Init
  /\ Ti!Init
  /\ Ir!Init
  /\ Wp!Init
  /\ Ja!Init
  /\ which # "ja" => jaRule = "runs"

WtNext ==
  /\ which = "wt" /\ Wt!Next
  /\ UNCHANGED <<which, vars, dgVars, tiVars, irVars, wpVars, jaVars>>

DgNext ==
  /\ which = "dg" /\ Dg!Next
  /\ UNCHANGED <<which, vars, wtVars, tiVars, irVars, wpVars, jaVars>>

TiNext ==
  /\ which = "ti" /\ Ti!Next
  /\ UNCHANGED <<which, vars, wtVars, dgVars, irVars, wpVars, jaVars>>

\* Bound: a connection goes dead or is left with a partial line.
IrNext ==
  /\ which = "ir" /\ Ir!Next /\ ~(irDead' /\ irPartial' # "none")
  /\ UNCHANGED <<which, vars, wtVars, dgVars, tiVars, wpVars, jaVars>>

WpNext ==
  /\ which = "wp" /\ Wp!Next
  /\ UNCHANGED <<which, vars, wtVars, dgVars, tiVars, irVars, jaVars>>

JaNext ==
  /\ which = "ja" /\ Ja!Next
  /\ UNCHANGED <<which, vars, wtVars, dgVars, tiVars, irVars, wpVars>>

BuNext ==
  /\ which = "bu" /\ Next
  /\ UNCHANGED <<which, wtVars, dgVars, tiVars, irVars, wpVars, jaVars>>

MCNext == BuNext \/ WtNext \/ DgNext \/ TiNext \/ IrNext \/ WpNext \/ JaNext

MCFairness ==
  /\ WF_vars(which = "bu" /\ Loop)
  /\ WF_vars(which = "bu" /\ RunEnds)
  /\ WF_wtVars(which = "wt" /\ Wt!StartListener)
  /\ WF_wtVars(which = "wt" /\ Wt!Tick(1))
  /\ WF_dgVars(which = "dg" /\ Dg!BackoffOver)
  /\ WF_dgVars(which = "dg" /\ Dg!Receive)
  /\ WF_dgVars(which = "dg" /\ Dg!Heartbeat)
  /\ WF_tiVars(which = "ti" /\ Ti!Tick)
  /\ WF_tiVars(which = "ti" /\ Ti!PollAnswered)
  /\ WF_tiVars(which = "ti" /\ Ti!FileAnswered)
  /\ WF_irVars(which = "ir" /\ Ir!TickReady)
  /\ WF_irVars(which = "ir" /\ Ir!TickDrop)
  /\ WF_irVars(which = "ir" /\ Ir!DriveResolve)
  /\ WF_irVars(which = "ir" /\ Ir!BackoffOver)
  /\ WF_irVars(which = "ir" /\ Ir!TimePasses)
  /\ WF_wpVars(which = "wp" /\ Wp!RunnerStep)
  /\ WF_wpVars(which = "wp" /\ Wp!ChildExits)
  /\ WF_jaVars(which = "ja" /\ Ja!Tick)
  /\ WF_jaVars(which = "ja" /\ Ja!Elapse)

MCSpec == MCInit /\ [][MCNext]_mcVars /\ MCFairness

-----------------------------------------------------------------------------
(* Properties of the components, under the names the runs check.           *)

\* What comes in over a connection is taken up once and in order, and nothing
\* is acknowledged before it is judged: one response per HTTP request
\* (ws_adapter.c), one envelope per Discord event and a sequence number only
\* of a judged one (discord_gateway.c), a Telegram offset only past judged
\* updates (telegram_adapter.c), IRC lines said once, in order and after
\* registering (irc_adapter.c).
ChannelsInOrder ==
  /\ which = "wt" => Wt!OneResponse /\ Wt!AnsweredWillClose
  /\ which = "dg" => Dg!PublishedOnce /\ Dg!SequenceIsJudged
  /\ which = "ti" => Ti!AckedIsJudged /\ Ti!PublishedInOrder
  /\ which = "ir" => Ir!SpeaksAfterRegistering /\ Ir!SaidOnceInOrder

\* runner_finalize_and_submit: a detached worker submits one claim, which
\* says what its child really did, although every call it makes may fail.
ClaimsAreReal ==
  /\ which = "wp" =>
       /\ Wp!SuccessIsReal
       /\ Wp!OneClaim
       /\ Wp!ExitIsSeen
       /\ Wp!FailureIsReal

\* A tick of each adapter finds what has become of its connection: a client
\* that never upgrades is dropped and an answer drains (ws_adapter.c), a held
\* Discord session is resumed and a silent one noticed, fetched Telegram
\* updates are judged, a dead IRC connection is dropped, and a worker whose
\* child ended claims it.
ConnectionsEnd ==
  /\ Wt!StrangersLeave
  /\ Wt!AnswersDrain
  /\ Dg!HeldSessionIsResumed
  /\ Dg!SilenceIsNoticed
  /\ Ti!UpdatesJudged
  /\ Ir!DeadConnectionIsDropped
  /\ Wp!WorkIsClaimed

\* janitor_tick: what is still needed is kept, the oldest entry that may go
\* is the one that goes, the newest rotations and every completed task
\* survive, and passes bring a store down to its size.
RetentionIsSafe ==
  /\ [](which = "ja" => Ja!RotatedKept /\ Ja!CompletedKept)
  /\ Ja!HeldKept
  /\ Ja!OldestFirst
  /\ Ja!StoreIsBounded

\* task_tasks_archive_prune: archived tasks older than keep_days are dropped.
ArchiveIsPruned == Ja!ArchiveIsPruned

\* Every component's state has its type.
TypesOK ==
  /\ TypeOK
  /\ which = "wt" => Wt!TypeOK
  /\ which = "dg" => Dg!TypeOK
  /\ which = "ti" => Ti!TypeOK
  /\ which = "ir" => Ir!TypeOK
  /\ which = "wp" => Wp!TypeOK
  /\ which = "ja" => Ja!TypeOK

=============================================================================
