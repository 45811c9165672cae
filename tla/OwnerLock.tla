----------------------------- MODULE OwnerLock ------------------------------
(***************************************************************************)
(* Who owns the runtime (gateway/gateway.c, channel/channel.c): the        *)
(* gateway start, stop and status commands and the synchronous clients,    *)
(* which host an embedded owner when no gateway answers.  They are         *)
(* processes of their own and meet at an flock and two small files that    *)
(* name the running gateway and its floop.                                 *)
(*                                                                         *)
(* A lock belongs to an open file description, which fork shares: it falls *)
(* when LOCK_UN is called through any descriptor of it or when the last    *)
(* descriptor is closed.  The description is named for the process that    *)
(* opened it; the gateway a command forks has the command's name too.      *)
(***************************************************************************)
EXTENDS Integers, FiniteSets

CONSTANTS Starters,    \* `gateway start` and `gateway run` commands, and their gateways
          Askers,      \* `gateway status` commands
          Stoppers,    \* `gateway stop` commands
          Clients,     \* synchronous clients with no --floop
          MaxCrashes   \* bound: daemons that die without clearing up

Commands == Starters \cup Askers \cup Stoppers \cup Clients

ASSUME NamesAssumption ==
  "free" \notin Commands /\ "none" \notin Starters /\ Starters \cap Clients = {}
ASSUME CrashesAssumption == MaxCrashes \in Nat

VARIABLES lock,       \* the description that holds the flock, or "free"
          open,       \* descriptors of each starter's description
          pidFile,    \* the process gateway.pid names, or "none"
          loopFile,   \* the floop file is there
          pc,         \* each command: where it is
          seen,       \* the pid a command has read
          daemon,     \* each starter's gateway: what it is doing
          stop,       \* the daemons that have been signalled
          crashes

vars == <<lock, open, pidFile, loopFile, pc, seen, daemon, stop, crashes>>

Up(p) == daemon[p] \in {"boot", "named", "serves", "stopping", "clears"}

Goes(p, to) == pc' = [pc EXCEPT ![p] = to]

Init == /\ lock = "free" /\ open = [p \in Starters |-> {}]
        /\ pidFile = "none" /\ loopFile = FALSE
        /\ pc = [p \in Commands |-> "looks"]
        /\ seen = [p \in Commands |-> "none"]
        /\ daemon = [p \in Starters |-> "none"]
        /\ stop = {} /\ crashes = 0

(***************************************************************************)
(* Where a command goes once it knows whether a gateway runs.              *)
(***************************************************************************)
Answer(p, running) ==
    IF p \in Starters THEN IF daemon[p] # "none"
                             THEN IF running THEN "closes" ELSE "waits"
                           ELSE IF running THEN "refused" ELSE "locks"
    ELSE IF p \in Stoppers THEN IF running THEN "signals" ELSE "refused"
    ELSE IF p \in Clients THEN IF running THEN "asks" ELSE "locks"
    ELSE "answered"

(***************************************************************************)
(* gateway_running: the pid file, the process it names, the lock.  A live  *)
(* pid whose lock can be taken is stale; so is a dead one.  The files of a *)
(* stale gateway are removed, some time after they were read.  With no     *)
(* gateway in the files, gateway_running_pid asks the status socket; the   *)
(* parent of a new daemon does not.                                        *)
(***************************************************************************)
Serving == {d \in Starters : daemon[d] = "serves"}

Unfound(p) == IF p \in Starters /\ daemon[p] # "none"
                THEN Goes(p, Answer(p, FALSE)) /\ seen' = seen
              ELSE \/ /\ Serving = {}
                      /\ Goes(p, Answer(p, FALSE)) /\ seen' = seen
                   \/ \E d \in Serving : /\ Goes(p, Answer(p, TRUE))
                                         /\ seen' = [seen EXCEPT ![p] = d]

Looks(p) ==
    /\ pc[p] = "looks"
    /\ \/ /\ pidFile = "none" /\ Unfound(p)
       \/ /\ pidFile # "none"
          /\ seen' = [seen EXCEPT ![p] = pidFile]
          /\ Goes(p, IF Up(pidFile) THEN "probes" ELSE "unlinks")
    /\ UNCHANGED <<lock, open, pidFile, loopFile, daemon, stop, crashes>>

Probes(p) == /\ pc[p] = "probes"
             /\ IF lock = "free" THEN lock' = p /\ Goes(p, "frees")
                                 ELSE lock' = lock /\ Goes(p, Answer(p, TRUE))
             /\ UNCHANGED <<open, pidFile, loopFile, seen, daemon, stop, crashes>>

\* The probe keeps the lock it got.
ProbeKept == lock' = lock

ProbeReturned == lock' = "free"

Frees(p) == /\ pc[p] = "frees"
            /\ ProbeReturned /\ Goes(p, "unlinks")
            /\ UNCHANGED <<open, pidFile, loopFile, seen, daemon, stop, crashes>>

Unlinks(p) == /\ pc[p] = "unlinks"
              /\ pidFile' = "none" /\ loopFile' = FALSE
              /\ Goes(p, "socket")
              /\ UNCHANGED <<lock, open, seen, daemon, stop, crashes>>

Socket(p) == /\ pc[p] = "socket" /\ Unfound(p)
             /\ UNCHANGED <<lock, open, pidFile, loopFile, daemon, stop, crashes>>

(***************************************************************************)
(* gateway_start: the lock without waiting, then the daemon, which has the *)
(* descriptor too.  The parent looks for the new gateway up to thirty      *)
(* times and closes its descriptor without unlocking.                      *)
(***************************************************************************)
Locks(p) == /\ p \in Starters /\ pc[p] = "locks"
            /\ IF lock = "free" THEN lock' = p /\ Goes(p, "forks")
                                ELSE lock' = lock /\ Goes(p, "refused")
            /\ UNCHANGED <<open, pidFile, loopFile, seen, daemon, stop, crashes>>

Forks(p) == /\ pc[p] = "forks"
            /\ daemon' = [daemon EXCEPT ![p] = "boot"]
            /\ open' = [open EXCEPT ![p] = {"parent", "child"}]
            /\ Goes(p, "looks")
            /\ UNCHANGED <<lock, pidFile, loopFile, seen, stop, crashes>>

\* gateway_run_foreground: the same lock, no fork, one descriptor.
RunsHere(p) == /\ pc[p] = "forks"
               /\ daemon' = [daemon EXCEPT ![p] = "boot"]
               /\ open' = [open EXCEPT ![p] = {"child"}]
               /\ Goes(p, "started")
               /\ UNCHANGED <<lock, pidFile, loopFile, seen, stop, crashes>>

\* Another look, or the thirtieth has failed.
Waits(p) == /\ pc[p] = "waits"
            /\ (Goes(p, "looks") \/ Goes(p, "closes"))
            /\ UNCHANGED <<lock, open, pidFile, loopFile, seen, daemon, stop, crashes>>

Closed(p, who) == /\ open' = [open EXCEPT ![p] = @ \ {who}]
                  /\ lock' = IF lock = p /\ open[p] = {who} THEN "free" ELSE lock

\* The parent unlocks: the daemon shares the open file, and loses the lock.
ParentUnlocks(p) == /\ open' = [open EXCEPT ![p] = @ \ {"parent"}]
                    /\ lock' = IF lock = p THEN "free" ELSE lock

ParentLock(p) == Closed(p, "parent")

Closes(p) == /\ pc[p] = "closes" /\ ParentLock(p)
             /\ Goes(p, "started")
             /\ UNCHANGED <<pidFile, loopFile, seen, daemon, stop, crashes>>

(***************************************************************************)
(* The daemon: its two files, the reactor until a signal, and on the way   *)
(* out the files if they are still its own, then the lock.                 *)
(***************************************************************************)
DaemonIs(p, to) == daemon' = [daemon EXCEPT ![p] = to]

NamesPid(p) == /\ daemon[p] = "boot"
               /\ pidFile' = p /\ DaemonIs(p, "named")
               /\ UNCHANGED <<lock, open, loopFile, pc, seen, stop, crashes>>

NamesLoop(p) == /\ daemon[p] = "named"
                /\ loopFile' = TRUE /\ DaemonIs(p, "serves")
                /\ UNCHANGED <<lock, open, pidFile, pc, seen, stop, crashes>>

Stops(p) == /\ daemon[p] = "serves" /\ p \in stop
            /\ DaemonIs(p, "stopping")
            /\ UNCHANGED <<lock, open, pidFile, loopFile, pc, seen, stop, crashes>>

Leaves(p) == /\ daemon[p] = "stopping"
             /\ DaemonIs(p, IF pidFile \in {p, "none"} THEN "clears" ELSE "unlocks")
             /\ UNCHANGED <<lock, open, pidFile, loopFile, pc, seen, stop, crashes>>

Clears(p) == /\ daemon[p] = "clears"
             /\ pidFile' = "none" /\ loopFile' = FALSE /\ DaemonIs(p, "unlocks")
             /\ UNCHANGED <<lock, open, pc, seen, stop, crashes>>

Unlocks(p) == /\ daemon[p] = "unlocks"
              /\ lock' = IF lock = p THEN "free" ELSE lock
              /\ open' = [open EXCEPT ![p] = @ \ {"child"}]
              /\ DaemonIs(p, "gone")
              /\ UNCHANGED <<pidFile, loopFile, pc, seen, stop, crashes>>

Crashes(p) == /\ crashes < MaxCrashes /\ Up(p)
              /\ crashes' = crashes + 1
              /\ Closed(p, "child") /\ DaemonIs(p, "gone")
              /\ UNCHANGED <<pidFile, loopFile, pc, seen, stop>>

(***************************************************************************)
(* gateway_stop: the signal, up to sixty looks at the process, then the    *)
(* files, unless they name another gateway by now.                         *)
(***************************************************************************)
Signals(p) == /\ pc[p] = "signals"
              /\ stop' = stop \cup {seen[p]} /\ Goes(p, "watches")
              /\ UNCHANGED <<lock, open, pidFile, loopFile, seen, daemon, crashes>>

Watches(p) == /\ pc[p] = "watches"
              /\ Goes(p, IF daemon[seen[p]] # "gone" THEN "refused"
                         ELSE IF pidFile \in {seen[p], "none"} THEN "tidies" ELSE "answered")
              /\ UNCHANGED <<lock, open, pidFile, loopFile, seen, daemon, stop, crashes>>

Tidies(p) == /\ pc[p] = "tidies"
             /\ pidFile' = "none" /\ loopFile' = FALSE /\ Goes(p, "answered")
             /\ UNCHANGED <<lock, open, seen, daemon, stop, crashes>>

(***************************************************************************)
(* A client asks a live gateway for its floop, or waits for the lock and   *)
(* runs the runtime itself until its answer is there.                      *)
(***************************************************************************)
Asks(p) == /\ pc[p] = "asks"
           /\ Goes(p, IF loopFile THEN "answered" ELSE "refused")
           /\ UNCHANGED <<lock, open, pidFile, loopFile, seen, daemon, stop, crashes>>

Owns(p) == /\ p \in Clients /\ pc[p] = "locks" /\ lock = "free"
           /\ lock' = p /\ Goes(p, "hosts")
           /\ UNCHANGED <<open, pidFile, loopFile, seen, daemon, stop, crashes>>

Hosted(p) == /\ pc[p] = "hosts"
             /\ lock' = "free" /\ Goes(p, "answered")
             /\ UNCHANGED <<open, pidFile, loopFile, seen, daemon, stop, crashes>>

Command(p) == Looks(p) \/ Probes(p) \/ Frees(p) \/ Unlinks(p) \/ Socket(p) \/ Locks(p)
              \/ Forks(p) \/ RunsHere(p) \/ Waits(p) \/ Closes(p) \/ Signals(p) \/ Watches(p)
              \/ Tidies(p) \/ Asks(p) \/ Owns(p) \/ Hosted(p)

Daemon(p) == NamesPid(p) \/ NamesLoop(p) \/ Stops(p) \/ Leaves(p) \/ Clears(p) \/ Unlocks(p)

Next == \/ \E p \in Commands : Command(p)
        \/ \E p \in Starters : Daemon(p) \/ Crashes(p)

Spec == Init /\ [][Next]_vars

-----------------------------------------------------------------------------
Places == {"looks", "probes", "frees", "unlinks", "socket", "locks", "forks",
           "waits", "closes", "signals", "watches", "tidies", "asks", "hosts",
           "answered", "refused", "started"}

\* The type of the state.
TypeOK == /\ lock \in Commands \cup {"free"}
          /\ open \in [Starters -> SUBSET {"parent", "child"}]
          /\ pidFile \in Starters \cup {"none"} /\ loopFile \in BOOLEAN
          /\ pc \in [Commands -> Places]
          /\ seen \in [Commands -> Starters \cup {"none"}]
          /\ daemon \in [Starters -> {"none", "boot", "named", "serves", "stopping",
                                     "clears", "unlocks", "gone"}]
          /\ stop \subseteq Starters /\ crashes \in 0..MaxCrashes

(***************************************************************************)
(* One runtime owner at a time: the gateways that have been forked and not *)
(* yet released the lock, and the clients hosting the runtime themselves,  *)
(* are never two, whoever probes the lock or closes a shared descriptor.   *)
(***************************************************************************)
Owners == {p \in Starters : Up(p) \/ daemon[p] = "unlocks"}
          \cup {p \in Clients : pc[p] = "hosts"}

OneOwner == \A p, q \in Owners : p = q

(***************************************************************************)
(* No command that ends leaves the lock behind: when no gateway is up and  *)
(* no command is between its first look and its end, the next owner can    *)
(* have it.                                                                *)
(***************************************************************************)
UnderWay(p) ==
    /\ pc[p] \notin {"answered", "refused", "started"}
    /\ pc[p] # "looks" \/ (p \in Starters /\ daemon[p] # "none")

LockIsReturned == Owners = {} /\ (\A p \in Commands : ~ UnderWay(p)) => lock = "free"

(***************************************************************************)
(* The inductive invariant behind the two: whoever acts as the owner holds *)
(* the lock, a gateway through a descriptor of its own, and whoever holds  *)
(* the lock is an owner or still under way.                                *)
(***************************************************************************)
OwnersHoldLock ==
    /\ \A p \in Starters : Up(p) \/ daemon[p] = "unlocks" => lock = p /\ "child" \in open[p]
    /\ \A p \in Commands : pc[p] \in {"hosts", "frees", "forks"} => lock = p
    /\ \A p \in Commands : pc[p] = "hosts" => p \in Clients
    /\ \A p \in Starters : pc[p] = "frees" => ~ (Up(p) \/ daemon[p] = "unlocks")

\* The parent of a gateway has its descriptor until it closes it; before the
\* fork there is none.
ParentsWait ==
    /\ \A p \in Commands : pc[p] = "forks" => p \in Starters
    /\ \A p \in Commands : pc[p] \in {"waits", "closes"} => p \in Starters /\ daemon[p] # "none"
    /\ \A p \in Starters : pc[p] \in {"locks", "forks"} => daemon[p] = "none"
    /\ \A p \in Starters : daemon[p] = "none" => open[p] = {}
    /\ \A p \in Starters : "child" \in open[p] => Up(p) \/ daemon[p] = "unlocks"
    /\ \A p \in Starters : "parent" \in open[p] =>
         pc[p] \in {"looks", "probes", "frees", "unlinks", "socket", "waits", "closes"}

HoldersAreUnderWay ==
    \A p \in Commands : lock = p =>
      \/ pc[p] \in {"hosts", "frees", "forks"}
      \/ p \in Starters /\ open[p] # {}

SignalsName ==
    \A p \in Commands : pc[p] \in {"probes", "signals", "watches"} => seen[p] \in Starters

IInv == TypeOK /\ OwnersHoldLock /\ ParentsWait /\ HoldersAreUnderWay /\ SignalsName
=============================================================================
