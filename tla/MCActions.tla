------------------------------ MODULE MCActions ------------------------------
(***************************************************************************)
(* Small instances, for TLC, of what an action leaves behind: the ledger   *)
(* of a run's requests, with the constants the configuration gives, and    *)
(* the record of a managed operation, Mo, raced by everything that can end *)
(* it.  They share no state here, so one behaviour is about one of them:   *)
(* which is chosen in Init and never changes.                              *)
(***************************************************************************)
EXTENDS MCActionLedger

VARIABLES
  which,      \* the component this behaviour is about
  moStore, moBirth, moBirths, moToken, moHandle, moTimer, moActs, moResults,
  moFirst, moEnv, moSent, moInbox, moProcessed, moCrun, moWorker, moJob,
  moMem, moTodo, moPc, moCur, moClaim, moOut, moBack, moLapse, moClosed,
  moCrashes, moShutdowns, moFaults

Mo == INSTANCE ManagedOperation WITH
  Ops <- {"o"}, Detached <- {"o"}, Outside <- {"o"}, Bound <- {"o"},
  KeepFinished <- 1, MaxItems <- 2, MaxClaims <- 3, MaxWorkerClaims <- 2,
  MaxBirths <- 1, MaxCrashes <- 1, MaxShutdowns <- 1, MaxFaults <- 1,
  FaultPoints <- {"append", "sync", "store", "publish", "persist"},
  store <- moStore, birth <- moBirth, births <- moBirths, token <- moToken,
  handle <- moHandle, timer <- moTimer, acts <- moActs,
  results <- moResults, first <- moFirst, env <- moEnv, sent <- moSent,
  inbox <- moInbox, processed <- moProcessed, crun <- moCrun,
  worker <- moWorker, job <- moJob, mem <- moMem, todo <- moTodo,
  pc <- moPc, cur <- moCur, claim <- moClaim, out <- moOut, back <- moBack,
  lapse <- moLapse, closed <- moClosed, crashes <- moCrashes,
  shutdowns <- moShutdowns, faults <- moFaults

moVars == <<moStore, moBirth, moBirths, moToken, moHandle, moTimer, moActs,
            moResults, moFirst, moEnv, moSent, moInbox, moProcessed, moCrun,
            moWorker, moJob, moMem, moTodo, moPc, moCur, moClaim, moOut,
            moBack, moLapse, moClosed, moCrashes, moShutdowns, moFaults>>
mcVars == <<which, vars, moVars>>

MCInit == which \in {"ledger", "mo"} /\ Init /\ Mo!Init

LedgerNext == which = "ledger" /\ Next /\ UNCHANGED <<which, moVars>>
MoNext == which = "mo" /\ Mo!Next /\ UNCHANGED <<which, vars>>
MCNext == LedgerNext \/ MoNext

\* The fairness of ActionLedger.
MCFairness ==
  WF_vars(which = "ledger" /\ (Deciding \/ Acting \/ Ends \/ Restarting))

MCSpec == MCInit /\ [][MCNext]_mcVars /\ MCFairness

\* rt_run_step_ready: whatever it meets, a run ends.
LedgerRunEnds == which = "ledger" => RunEnds

\* Each state has its type; and with two worker claims, the action, an abort
\* and the deadline racing, the invariant behind an operation's single terminal
\* truth holds (terminalize_in_run, completion_claim_disposition).
TypesOK == IF which = "mo" THEN Mo!IInv ELSE TypeOK
=============================================================================
