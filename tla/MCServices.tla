----------------------------- MODULE MCServices -----------------------------
(***************************************************************************)
(* Small instances, for TLC, of the parts of the gateway that answer, own,  *)
(* control and watch: the WebSocket sessions, the Discord and Telegram      *)
(* senders, the synchronous clients, the work controller, the affairs, the  *)
(* operation store when it is full and the model calls; and the owner lock, *)
(* with the constants the configuration gives. They share no state, so one  *)
(* behaviour is about one of them: which is chosen in Init from Which and   *)
(* never changes.                                                           *)
(***************************************************************************)
EXTENDS OwnerLock

CONSTANTS
  Which, m1, m2, NoMsg

VARIABLES
  which,      \* the component this behaviour is about
  wsOnline, wsSlots, wsOrg, wsRs, wsBuslog, wsProgress, wsDlog, wsOld,
  wsCursor, wsClient, wsNoReply, wsReplied, wsUnread, wsFaults, wsTicked,
  drDlog, drOld, drCursor, drOutq, drRest, drWait, drServerRetries,
  drAmbiguousRetries, drAnswer, drPosted, drRefused, drGone, drSkipped,
  drAppended, drFaults,
  toDlog, toOld, toCursor, toOutq, toSend, toWait, toChat, toRefused, toGone,
  toLost, toAppended, toFaults,
  syOwner, syPhase, syInbox, syRuns, syNextId, syLog, syLast, syPc, syCursor,
  syHave, sySettled, syResult, syEnded, syTold, syFollow, syFlips, syRotated,
  wcLog, wcTask, wcLedger, wcWakes, wcRun, wcOps, wcRuns, wcAsks, wcCrashes,
  wcFails, wcTold, wcAnswered, wcStranded,
  afStore, afNow, afInbox, afRuns, afLog, afGw, afTick, afCli, afRefused,
  afCut, afRaced, afArmed, afFired, afReqs, afCmds, afCrashes, afFaults,
  moStore, moBirth, moBirths, moToken, moHandle, moTimer, moActs, moResults,
  moFirst, moEnv, moSent, moInbox, moProcessed, moCrun, moWorker, moJob,
  moMem, moTodo, moPc, moCur, moClaim, moOut, moBack, moLapse, moClosed,
  moCrashes, moShutdowns, moFaults,
  mlLimit, mlEnv, mlNow, mlBack, mlLock, mlFile, mlMem, mlPc, mlUsage,
  mlTries, mlAdmitted, mlOn, mlBilled, mlFaults

Ws == INSTANCE WsSession WITH
  Msgs <- {m1, m2}, Watched <- {m1}, NoMsg <- NoMsg, Inflight <- 1,
  ProgressCap <- 1, StreamCap <- 1, PendingCap <- 1, MaxOrigins <- 2,
  MaxReplies <- 1, MaxFaults <- 1, OldLines <- 5, online <- wsOnline,
  slots <- wsSlots, org <- wsOrg, rs <- wsRs, buslog <- wsBuslog,
  progress <- wsProgress, dlog <- wsDlog, old <- wsOld, cursor <- wsCursor,
  client <- wsClient, noReply <- wsNoReply, replied <- wsReplied,
  unread <- wsUnread, faults <- wsFaults, ticked <- wsTicked

Dr == INSTANCE DiscordRest WITH
  Chunks <- <<1, 2>>, QueueMax <- 2, AmbiguousMax <- 1, MaxFaults <- 1,
  OldLines <- 3, dlog <- drDlog, old <- drOld, cursor <- drCursor,
  outq <- drOutq, rest <- drRest, wait <- drWait,
  serverRetries <- drServerRetries, ambiguousRetries <- drAmbiguousRetries,
  answer <- drAnswer, posted <- drPosted, refused <- drRefused,
  gone <- drGone, skipped <- drSkipped, appended <- drAppended,
  faults <- drFaults

To == INSTANCE TelegramOutbox WITH
  Chunks <- <<2, 1, 1>>, QueueMax <- 2, MaxLost <- 1, MaxFaults <- 1,
  OldLines <- 4, dlog <- toDlog, old <- toOld, cursor <- toCursor,
  outq <- toOutq, send <- toSend, wait <- toWait, chat <- toChat,
  refused <- toRefused, gone <- toGone, lost <- toLost,
  appended <- toAppended, faults <- toFaults

Sy == INSTANCE SyncChannel WITH
  Clients <- {"c1"}, Backlog <- {"b"}, IntakePerTick <- 4, MaxOldLines <- 0,
  MaxFollow <- 1, MaxFlips <- 1, owner <- syOwner, phase <- syPhase,
  inbox <- syInbox, runs <- syRuns, nextId <- syNextId, log <- syLog,
  last <- syLast, pc <- syPc, cursor <- syCursor, have <- syHave,
  settled <- sySettled, result <- syResult, ended <- syEnded, told <- syTold,
  follow <- syFollow, flips <- syFlips, rotated <- syRotated

Wc == INSTANCE WorkController WITH
  StepLimit <- 2, RepairLimit <- 3, MaxRepairs <- 1, StepMax <- 4,
  RevMax <- 3,
  Acts <- {"local", "outside", "worker", "work", "complete", "block"},
  MaxPasses <- 2, MaxAsks <- 1, MaxCrashes <- 1, MaxFails <- 1, log <- wcLog,
  task <- wcTask, ledger <- wcLedger, wakes <- wcWakes, run <- wcRun,
  ops <- wcOps, runs <- wcRuns, asks <- wcAsks, crashes <- wcCrashes,
  fails <- wcFails, told <- wcTold, answered <- wcAnswered,
  stranded <- wcStranded

Af == INSTANCE Affairs WITH
  OpenIds <- {101}, CliIds <- {1},
  Home <- [a \in {1, 101} |-> <<"chat", "irc", "bot">>],
  Kinds <- {"open", "defer", "close", "note", "bump"}, MaxItems <- 2,
  NoteMax <- 1, DueMax <- 1, CountMax <- 1, MaxNow <- 1, MaxReqs <- 2,
  MaxCli <- 1, MaxCrashes <- 1, MaxFaults <- 1, store <- afStore,
  now <- afNow, inbox <- afInbox, runs <- afRuns, log <- afLog, gw <- afGw,
  tick <- afTick, cli <- afCli, refused <- afRefused, cut <- afCut,
  raced <- afRaced, armed <- afArmed, fired <- afFired, reqs <- afReqs,
  cmds <- afCmds, crashes <- afCrashes, faults <- afFaults

Mo == INSTANCE ManagedOperation WITH
  Ops <- {"a", "b", "c"}, Detached <- {"a"}, Outside <- {"a"},
  Bound <- {"a"}, KeepFinished <- 1, MaxItems <- 2, MaxClaims <- 1,
  MaxWorkerClaims <- 1, MaxBirths <- 3, MaxCrashes <- 0, MaxShutdowns <- 0,
  MaxFaults <- 0, FaultPoints <- {}, store <- moStore, birth <- moBirth,
  births <- moBirths, token <- moToken, handle <- moHandle, timer <- moTimer,
  acts <- moActs, results <- moResults, first <- moFirst, env <- moEnv,
  sent <- moSent, inbox <- moInbox, processed <- moProcessed, crun <- moCrun,
  worker <- moWorker, job <- moJob, mem <- moMem, todo <- moTodo, pc <- moPc,
  cur <- moCur, claim <- moClaim, out <- moOut, back <- moBack,
  lapse <- moLapse, closed <- moClosed, crashes <- moCrashes,
  shutdowns <- moShutdowns, faults <- moFaults

Ml == INSTANCE ModelCall WITH
  Calls <- {"a", "b"}, Streamers <- {"a"},
  Limits <- {[rpm |-> 1, daily |-> 2, usd |-> 4], [rpm |-> 0, daily |-> 1, usd |-> 5], [rpm |-> -1, daily |-> -1, usd |-> -1]},
  Overrides <- {[timeout |-> 50, retries |-> -1]}, Ceiling <- 3,
  Costs <- {1, 2}, Minutes <- 2, MinutesPerDay <- 2, MaxBack <- 1,
  MaxFaults <- 1, limit <- mlLimit, env <- mlEnv, now <- mlNow,
  back <- mlBack, lock <- mlLock, file <- mlFile, mem <- mlMem, pc <- mlPc,
  usage <- mlUsage, tries <- mlTries, admitted <- mlAdmitted, on <- mlOn,
  billed <- mlBilled, faults <- mlFaults

wsVars == <<wsOnline, wsSlots, wsOrg, wsRs, wsBuslog, wsProgress, wsDlog, wsOld,
  wsCursor, wsClient, wsNoReply, wsReplied, wsUnread, wsFaults, wsTicked>>
drVars == <<drDlog, drOld, drCursor, drOutq, drRest, drWait, drServerRetries,
  drAmbiguousRetries, drAnswer, drPosted, drRefused, drGone, drSkipped,
  drAppended, drFaults>>
toVars == <<toDlog, toOld, toCursor, toOutq, toSend, toWait, toChat, toRefused, toGone,
  toLost, toAppended, toFaults>>
syVars == <<syOwner, syPhase, syInbox, syRuns, syNextId, syLog, syLast, syPc, syCursor,
  syHave, sySettled, syResult, syEnded, syTold, syFollow, syFlips, syRotated>>
wcVars == <<wcLog, wcTask, wcLedger, wcWakes, wcRun, wcOps, wcRuns, wcAsks, wcCrashes,
  wcFails, wcTold, wcAnswered, wcStranded>>
afVars == <<afStore, afNow, afInbox, afRuns, afLog, afGw, afTick, afCli, afRefused,
  afCut, afRaced, afArmed, afFired, afReqs, afCmds, afCrashes, afFaults>>
moVars == <<moStore, moBirth, moBirths, moToken, moHandle, moTimer, moActs, moResults,
  moFirst, moEnv, moSent, moInbox, moProcessed, moCrun, moWorker, moJob,
  moMem, moTodo, moPc, moCur, moClaim, moOut, moBack, moLapse, moClosed,
  moCrashes, moShutdowns, moFaults>>
mlVars == <<mlLimit, mlEnv, mlNow, mlBack, mlLock, mlFile, mlMem, mlPc, mlUsage,
  mlTries, mlAdmitted, mlOn, mlBilled, mlFaults>>
mcVars == <<which, vars, wsVars, drVars, toVars, syVars, wcVars, afVars, moVars, mlVars>>

Components == {"ow", "ws", "dr", "to", "sy", "wc", "af", "mo", "ml"}

MCInit ==
  /\ which \in Which
  /\ Init
  /\ Ws!Init
  /\ Dr!Init
  /\ To!Init
  /\ Sy!Init
  /\ which # "sy" => syOwner = "none" /\ syLog = <<>>
  /\ Wc!Init
  /\ Af!Init
  /\ Mo!Init
  /\ Ml!Init
  /\ which # "ml" => mlLimit.rpm = 0

WsNext ==
  /\ which = "ws" /\ Ws!Next
  /\ UNCHANGED <<which, vars, drVars, toVars, syVars, wcVars, afVars, moVars, mlVars>>

DrNext ==
  /\ which = "dr" /\ Dr!Next
  /\ UNCHANGED <<which, vars, wsVars, toVars, syVars, wcVars, afVars, moVars, mlVars>>

ToNext ==
  /\ which = "to" /\ To!Next
  /\ UNCHANGED <<which, vars, wsVars, drVars, syVars, wcVars, afVars, moVars, mlVars>>

SyNext ==
  /\ which = "sy" /\ Sy!Next
  /\ UNCHANGED <<which, vars, wsVars, drVars, toVars, wcVars, afVars, moVars, mlVars>>

WcNext ==
  /\ which = "wc" /\ Wc!Next
  /\ UNCHANGED <<which, vars, wsVars, drVars, toVars, syVars, afVars, moVars, mlVars>>

\* Bound: one crash or one failed write.
AfNext ==
  /\ which = "af" /\ Af!Next /\ afCrashes' + afFaults' <= 1
  /\ UNCHANGED <<which, vars, wsVars, drVars, toVars, syVars, wcVars, moVars, mlVars>>

MoNext ==
  /\ which = "mo" /\ Mo!Next
  /\ UNCHANGED <<which, vars, wsVars, drVars, toVars, syVars, wcVars, afVars, mlVars>>

MlNext ==
  /\ which = "ml" /\ Ml!Next
  /\ UNCHANGED <<which, vars, wsVars, drVars, toVars, syVars, wcVars, afVars, moVars>>

\* Bound: at most three of the commands have got beyond their first look.
FewCommands == Cardinality({p \in Commands : pc[p] # "looks"}) <= 3

OwNext ==
  /\ which = "ow" /\ Next /\ FewCommands'
  /\ UNCHANGED <<which, wsVars, drVars, toVars, syVars, wcVars, afVars, moVars, mlVars>>

MCNext == OwNext \/ WsNext \/ DrNext \/ ToNext \/ SyNext \/ WcNext \/ AfNext \/ MoNext \/ MlNext

MCSpec == MCInit /\ [][MCNext]_mcVars

-----------------------------------------------------------------------------
(* Properties of the components, under the names the runs check.           *)

\* provider_limit.c, llm_http_call: the ledger of a day is what its calls
\* cost or may still cost, no interleaving and no clock set back admits a
\* call too many, a reservation is returned only for a call nobody charged
\* for, and text already shown forbids another attempt.
LimitsHold ==
  /\ which = "ml" =>
       /\ Ml!LedgerIsExact
       /\ Ml!WithinLimits
       /\ Ml!BudgetHeld
       /\ Ml!ReleasedWasFree
       /\ Ml!ShownOnce
       /\ Ml!RetriesFitJob

\* A client that waits is answered with its own reply: one envelope per
\* client id, the first reply whole, no reply only where none was written, a
\* cancel that sticks (ws_adapter.c); an answer that is the caller's and an
\* empty one only at the end (channel.c); and into a chat the replies in
\* their order, in a bounded number of copies, every chunk posted, queued or
\* accounted for (discord_outbox.c, telegram_outbox.c).
ClientsAnswered ==
  /\ which = "ws" =>
       /\ Ws!OneEnvelopePerId
       /\ Ws!FirstReplyIsWhole
       /\ Ws!NoReplyMeansNone
       /\ Ws!CancelSticks
  /\ which = "sy" => Sy!AnswerIsMine /\ Sy!EmptyIsFinal
  /\ which = "dr" =>
       /\ Dr!PostedInOrder
       /\ Dr!CopiesBounded
       /\ Dr!RepliesAccounted
  /\ which = "to" => To!ChatInOrder /\ To!ChunksAccounted

\* Long-lived work is neither lost nor done twice: the controller's budget is
\* exact, repairs are bounded, a consequence selects once and is told once,
\* nothing follows a terminal line, a replay agrees and open work is moved
\* (work_state.c); an affair's effects apply once, a schedule yields one
\* review that can act (affair_watcher_module.c); and a full operation store,
\* which drops its oldest finished record, leaves each operation its one
\* terminal truth (purge_finished_over_cap).
WorkIsKept ==
  /\ which = "wc" =>
       /\ Wc!BudgetIsExact
       /\ Wc!RepairsBounded
       /\ Wc!OneSelectionPerConsequence
       /\ Wc!OutcomeToldOnce
       /\ Wc!TerminalIsLast
       /\ Wc!ReplayAgrees
       /\ Wc!OpenWorkIsMoved
  /\ which = "af" =>
       /\ Af!EffectsApplyOnce
       /\ Af!OneReviewPerArming
       /\ Af!WatcherReviewsCanAct
  /\ which = "mo" => Mo!OneTerminalTruth /\ Mo!FinishedIsTold

\* embedded_owner_wait: a hosting client reports how its own run ended.
HostSaysHowItEnded == Sy!HostSaysHowItEnded

\* rt_action_runner_recover_started: a local action that was started before a
\* crash is replayed.
LocalReplayRuns == which = "wc" => Wc!LocalReplayRuns

\* Every component's state has its type.
TypesOK ==
  /\ TypeOK
  /\ which = "ws" => Ws!TypeOK
  /\ which = "dr" => Dr!TypeOK
  /\ which = "to" => To!TypeOK
  /\ which = "sy" => Sy!TypeOK
  /\ which = "wc" => Wc!TypeOK
  /\ which = "af" => Af!TypeOK
  /\ which = "mo" => Mo!TypeOK
  /\ which = "ml" => Ml!TypeOK

=============================================================================
