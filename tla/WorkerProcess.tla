--------------------------- MODULE WorkerProcess ----------------------------
(***************************************************************************)
(* One managed worker of runtime/action_runtime_workers.c: the gateway     *)
(* side of manage_codex and manage_claude (start, status, abort), the      *)
(* detached runner that supervises the provider's command line, and that   *)
(* child.  Gateway and runner are processes of their own and share three   *)
(* things on disk, each replaced atomically: state.json, which both write, *)
(* the exit_code file, which the runner writes, and the file the task      *)
(* named as its deliverable.  The runner ends by claiming completion       *)
(* through the bus (module ManagedOperation takes the claim from there).   *)
(*                                                                         *)
(* A path is modelled by how many times the working directory was put in   *)
(* front of it: 0 as the task named it, 1 resolved from the workspace.     *)
(***************************************************************************)
EXTENDS Integers, FiniteSets

CONSTANTS Tools,       \* the kinds of worker: subset of {"codex", "claude"}
          MaxStatus,   \* bound: status calls
          MaxAborts,   \* bound: abort calls
          MaxFaults    \* bound: failed writes, killed runners, gateway stops

VARIABLES kind,       \* the tool, whether its working directory is below the
                      \* workspace, whether the task names a file deliverable
          file,       \* state.json, or "absent" as its state
          exit,       \* exit_code: "absent", "pending" (-1), "zero", "other"
          made,       \* the deliverable is on disk
          runner,     \* the supervising process
          child,      \* the provider's command line
          gw,         \* what the gateway is doing
          mine,       \* the gateway's copy of the state between its steps
          killed,     \* the runner was terminated
          claims,     \* completion claims published: "succeeded", "failed", "abort"
          tries,      \* the runner's publication attempts
          sawExit,    \* the exit code was recorded before this status call began
          statuses, aborts, faults

vars == <<kind, file, exit, made, runner, child, gw, mine, killed, claims, tries,
          sawExit, statuses, aborts, faults>>

Absent == [st |-> "absent", names |-> FALSE, depth |-> 0, pid |-> FALSE]

Terminal == {"succeeded", "failed"}

Alive == runner \notin {"none", "gone"}

(***************************************************************************)
(* Is the named deliverable found?  The launch directory is recorded, so   *)
(* manage_codex looks below it.  manage_claude resolves the path it has    *)
(* from the workspace, putting the working directory in front once more.   *)
(***************************************************************************)
Depth(d) == IF kind.nested THEN d + 1 ELSE d

Found(s) == made /\ (kind.tool = "codex" \/ Depth(s.depth) = Depth(0))

\* The exit code has the last word.
JudgedByExit(s, found) == s

\* A named deliverable that is not on disk overrides a zero exit.
Judged(s, found) ==
    IF s.names /\ s.st = "succeeded" /\ ~ found
      THEN [s EXCEPT !.st = "failed", !.names = FALSE] ELSE s

-----------------------------------------------------------------------------
NoKind == [tool |-> "none", nested |-> FALSE, names |-> FALSE]

Init == /\ kind = NoKind
        /\ file = Absent /\ exit = "absent" /\ made = FALSE
        /\ runner = "none" /\ child = "none" /\ gw = "idle"
        /\ mine = Absent /\ killed = FALSE
        /\ claims = <<0, 0, 0>> /\ tries = 0 /\ sawExit = FALSE
        /\ statuses = 0 /\ aborts = 0 /\ faults = 0

\* Every launch: the tool, its directory, and whether the words of the task
\* name a file to deliver.
Kinds == [tool : Tools, nested : BOOLEAN, names : BOOLEAN]

Fresh(k) == [st |-> "running", names |-> k.names, depth |-> 0, pid |-> TRUE]

(***************************************************************************)
(* op=start: the runner is forked, its pid comes back through the pipe,    *)
(* and only then is state.json written.  A pipe or fork that fails leaves  *)
(* nothing behind.                                                         *)
(***************************************************************************)
Spawn == /\ gw = "idle" /\ runner = "none"
         /\ kind' \in Kinds
         /\ runner' = "boot" /\ gw' = "spawned" /\ mine' = Fresh(kind')
         /\ UNCHANGED <<file, exit, made, child, killed, claims, tries, sawExit, statuses, aborts, faults>>

SaveStarted == /\ gw = "spawned"
               /\ file' = mine /\ gw' = "idle" /\ mine' = Absent
               /\ UNCHANGED <<kind, exit, made, runner, child, killed, claims, tries,
                              sawExit, statuses, aborts, faults>>

(***************************************************************************)
(* The runner: prompt, exit file at -1, child.  A prompt that cannot be    *)
(* written ends it with no exit code; a child that cannot be forked is an  *)
(* exit of 127.                                                            *)
(***************************************************************************)
RunnerBoots ==
    /\ runner = "boot"
    /\ \/ exit' = "pending" /\ runner' = "waits" /\ child' = "runs" /\ faults' = faults
       \/ /\ faults < MaxFaults /\ faults' = faults + 1
          /\ \/ exit' = "other" /\ runner' = "final"
             \/ exit' = exit /\ runner' = "gone"
          /\ child' = child
    /\ UNCHANGED <<kind, file, made, gw, mine, killed, claims, tries, sawExit, statuses,
                   aborts>>

ChildDelivers == /\ child = "runs" /\ ~ made /\ made' = TRUE
                 /\ UNCHANGED <<kind, file, exit, runner, child, gw, mine, killed, claims,
                                tries, sawExit, statuses, aborts, faults>>

\* An exit code, or a signal: 128 + signal is not zero either.
ChildExits == /\ child = "runs" /\ child' \in {"zero", "other"}
              /\ UNCHANGED <<kind, file, exit, made, runner, gw, mine, killed, claims,
                             tries, sawExit, statuses, aborts, faults>>

RunnerReaps == /\ runner = "waits" /\ child \in {"zero", "other"}
               /\ exit' = child /\ runner' = "final"
               /\ UNCHANGED <<kind, file, made, child, gw, mine, killed, claims, tries,
                              sawExit, statuses, aborts, faults>>

(***************************************************************************)
(* runner_finalize_and_submit: the honest terminal state, then the claim,  *)
(* tried three times a second apart.  The runner's copy of the state never *)
(* held its own pid.                                                       *)
(***************************************************************************)
Verdict == Judged([Fresh(kind) EXCEPT !.st = IF exit = "zero" THEN "succeeded" ELSE "failed",
                                !.pid = FALSE], made)

RunnerFinalizes == /\ runner = "final"
                   /\ file' = Verdict
                   /\ runner' = IF Verdict.st = "succeeded" THEN "wins" ELSE "loses"
                   /\ tries' = 0
                   /\ UNCHANGED <<kind, exit, made, child, gw, mine, killed, claims,
                                  sawExit, statuses, aborts, faults>>

Claim(k) == [claims EXCEPT ![k] = @ + 1]

Claimed == Claim(IF runner = "wins" THEN 1 ELSE 2)

ClaimSettled == runner' = "gone"

RunnerClaims == /\ runner \in {"wins", "loses"}
                /\ claims' = Claimed
                /\ tries' = tries + 1
                /\ ClaimSettled
                /\ UNCHANGED <<kind, file, exit, made, child, gw, mine, killed,
                               sawExit, statuses, aborts, faults>>

RunnerClaimFails == /\ runner \in {"wins", "loses"} /\ faults < MaxFaults
                    /\ faults' = faults + 1
                    /\ tries' = tries + 1
                    /\ runner' = IF tries + 1 < 3 THEN runner ELSE "gone"
                    /\ UNCHANGED <<kind, file, exit, made, child, gw, mine, killed, claims,
                                   sawExit, statuses, aborts>>

\* The host may end the runner; the child then has no one to report to.
RunnerKilled == /\ Alive /\ faults < MaxFaults /\ faults' = faults + 1
                /\ runner' = "gone" /\ killed' = TRUE
                /\ UNCHANGED <<kind, file, exit, made, child, gw, mine, claims, tries,
                               sawExit, statuses, aborts>>

(***************************************************************************)
(* op=status: load, refresh, write.  The recorded exit code is preferred   *)
(* to process liveness; a dead runner that recorded none is a failure.     *)
(***************************************************************************)
StatusLoads == /\ gw = "idle" /\ statuses < MaxStatus /\ file.st # "absent"
               /\ statuses' = statuses + 1
               /\ mine' = file /\ gw' = "probing"
               /\ sawExit' = (exit \in {"zero", "other"})
               /\ UNCHANGED <<kind, file, exit, made, runner, child, killed, claims, tries,
                              aborts, faults>>

ByExit(s) == IF s.st # "running" THEN s
             ELSE IF exit = "zero" THEN [s EXCEPT !.st = "succeeded"]
             ELSE [s EXCEPT !.st = "failed"]

Reread(s) == ByExit(s)

Recorded == exit \in {"zero", "other"}

PrefersExit == Recorded

\* manage_claude stores the path where it found it.
Delivered(s) ==
    IF ~ s.names THEN s
    ELSE IF Found(s)
      THEN IF kind.tool = "claude" THEN [s EXCEPT !.depth = Depth(@)] ELSE s
    ELSE Judged(s, FALSE)

StatusProbes == /\ gw = "probing"
                /\ IF mine.st # "running" \/ PrefersExit
                     THEN mine' = Delivered(ByExit(mine)) /\ gw' = "saving"
                     ELSE mine' = mine /\ gw' = "checking"
                /\ UNCHANGED <<kind, file, exit, made, runner, child, killed, claims, tries,
                               sawExit, statuses, aborts, faults>>

(***************************************************************************)
(* No exit code: a living runner is still running.  A dead one may have    *)
(* recorded its code since, so the file is read again.                     *)
(***************************************************************************)
StatusChecks == /\ gw = "checking"
                /\ mine' = IF mine.pid /\ Alive THEN mine ELSE Delivered(Reread(mine))
                /\ gw' = "saving"
                /\ UNCHANGED <<kind, file, exit, made, runner, child, killed, claims, tries,
                               sawExit, statuses, aborts, faults>>

StatusSaves == /\ gw = "saving"
               /\ file' = mine
               /\ gw' = "idle" /\ mine' = Absent
               /\ UNCHANGED <<kind, exit, made, runner, child, killed, claims, tries,
                              sawExit, statuses, aborts, faults>>

(***************************************************************************)
(* op=abort: the runner the state names is terminated, the state becomes   *)
(* failed whatever it was, and an abort claim is submitted.                *)
(***************************************************************************)
AbortKills == /\ gw = "idle" /\ aborts < MaxAborts /\ file.st # "absent"
              /\ aborts' = aborts + 1
              /\ IF file.pid /\ Alive THEN runner' = "gone" /\ killed' = TRUE
                                      ELSE UNCHANGED <<runner, killed>>
              /\ mine' = [file EXCEPT !.st = "failed"] /\ gw' = "aborting"
              /\ UNCHANGED <<kind, file, exit, made, child, claims, tries, sawExit,
                             statuses, faults>>

AbortSaves == /\ gw = "aborting"
              /\ file' = mine /\ mine' = Absent /\ gw' = "idle"
              /\ claims' = Claim(3)
              /\ UNCHANGED <<kind, exit, made, runner, child, killed, tries, sawExit,
                             statuses, aborts, faults>>

\* The gateway may stop between its steps; the runner is in a session of its own.
GatewayStops == /\ gw # "idle" /\ faults < MaxFaults /\ faults' = faults + 1
                /\ gw' = "idle" /\ mine' = Absent
                /\ UNCHANGED <<kind, file, exit, made, runner, child, killed, claims, tries,
                               sawExit, statuses, aborts>>

RunnerStep == RunnerBoots \/ RunnerReaps \/ RunnerFinalizes \/ RunnerClaims

Next == Spawn \/ SaveStarted \/ RunnerBoots \/ ChildDelivers \/ ChildExits \/ RunnerReaps
        \/ RunnerFinalizes \/ RunnerClaims \/ RunnerClaimFails \/ RunnerKilled
        \/ StatusLoads \/ StatusProbes \/ StatusChecks \/ StatusSaves \/ AbortKills \/ AbortSaves
        \/ GatewayStops

Spec == Init /\ [][Next]_vars

FairSpec == Spec /\ WF_vars(RunnerStep) /\ WF_vars(ChildExits)

-----------------------------------------------------------------------------
States == {"absent", "running"} \cup Terminal

\* The type of the state.
TypeOK == /\ file.st \in States /\ mine.st \in States
          /\ exit \in {"absent", "pending", "zero", "other"}
          /\ made \in BOOLEAN /\ killed \in BOOLEAN /\ sawExit \in BOOLEAN
          /\ runner \in {"none", "boot", "waits", "final", "wins", "loses", "gone"}
          /\ child \in {"none", "runs", "zero", "other"}
          /\ gw \in {"idle", "spawned", "probing", "checking", "saving", "aborting"}
          /\ tries \in 0..3 /\ statuses \in 0..MaxStatus
          /\ aborts \in 0..MaxAborts /\ faults \in 0..MaxFaults

(***************************************************************************)
(* A success, claimed or recorded, is a zero exit with the named           *)
(* deliverable on disk, however the gateway's and the runner's writes of   *)
(* state.json interleaved.                                                 *)
(***************************************************************************)
SuccessIsReal == (file.st = "succeeded" \/ claims[1] > 0) => exit = "zero" /\ (kind.names => made)

(***************************************************************************)
(* The runner claims completion at most once, for one of the two outcomes. *)
(***************************************************************************)
OneClaim == claims[1] + claims[2] <= 1

(***************************************************************************)
(* state.json may fall back to running when the gateway writes back what   *)
(* it read before the runner finished, but a status call that begins after *)
(* the exit code was recorded never answers running.                       *)
(***************************************************************************)
ExitIsSeen == gw = "saving" /\ sawExit => mine.st # "running"

(***************************************************************************)
(* A recorded failure nobody asked for is a failure: never a worker that   *)
(* exited with zero and left the named file where the task put it.  Not so *)
(* for a manage_claude task in a directory below the workspace, whose      *)
(* second status call looks for the file one directory too deep.           *)
(***************************************************************************)
FailureIsReal == file.st = "failed" /\ aborts = 0 /\ ~ (kind.tool = "claude" /\ kind.nested)
                 => ~ (exit = "zero" /\ (kind.names => made))

(***************************************************************************)
(* The same of every worker: "a named deliverable that's not on disk means *)
(* the op didn't actually succeed" is the only thing that overrides a zero *)
(* exit.                                                                   *)
(***************************************************************************)
OnlyMissingFails == file.st = "failed" /\ aborts = 0
                    => ~ (exit = "zero" /\ (kind.names => made))

(***************************************************************************)
(* A runner nobody kills claims completion in the end, unless its three    *)
(* publications fail.                                                      *)
(***************************************************************************)
WorkIsClaimed ==
    runner = "waits" ~> (claims[1] + claims[2] > 0 \/ killed \/ tries = 3)
=============================================================================
