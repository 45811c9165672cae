------------------------- MODULE OwnerLock_proofs ---------------------------
(***************************************************************************)
(* That the runtime has one owner and that its lock comes back, for any    *)
(* number of commands, clients and dying gateways.  The inductive          *)
(* invariant is OwnerLock's IInv; each lemma below says that one action    *)
(* preserves it, part by part.                                             *)
(***************************************************************************)
EXTENDS OwnerLock, TLAPS

\* The first states satisfy the invariant.
LEMMA InitIInv == Init => IInv
<1> SUFFICES ASSUME Init PROVE IInv
  OBVIOUS
<1>0. crashes \in 0..MaxCrashes
  BY CrashesAssumption DEF Init
<1>1. TypeOK
  BY <1>0, Zenon DEF Init, TypeOK, Places
<1>2. OwnersHoldLock /\ ParentsWait /\ SignalsName
  BY DEF Init, OwnersHoldLock, ParentsWait, SignalsName, Up, Commands
<1>3. HoldersAreUnderWay
  BY NamesAssumption DEF Init, HoldersAreUnderWay
<1> QED BY <1>1, <1>2, <1>3 DEF IInv

\* Looks preserves the inductive invariant.
LEMMA LooksStep == ASSUME IInv, NEW p \in Commands, Looks(p) PROVE IInv'
<1>1. TypeOK'
  BY DEF IInv, TypeOK, Looks, Goes, Answer, Unfound, Serving, Up, Places
<1>2. OwnersHoldLock'
  BY DEF IInv, TypeOK, OwnersHoldLock, ParentsWait, HoldersAreUnderWay, SignalsName,
         Looks, Goes, Answer, Unfound, Serving, Up, Commands
<1>3. ParentsWait'
  BY DEF IInv, TypeOK, OwnersHoldLock, ParentsWait, HoldersAreUnderWay, SignalsName,
         Looks, Goes, Answer, Unfound, Serving, Up, Commands
<1>4. HoldersAreUnderWay'
  BY DEF IInv, TypeOK, HoldersAreUnderWay, Looks, Goes, Answer, Unfound, Serving, Up
<1>5. SignalsName'
  BY DEF IInv, TypeOK, SignalsName, Looks, Goes, Answer, Unfound, Serving, Up
<1> QED BY <1>1, <1>2, <1>3, <1>4, <1>5 DEF IInv

\* Probes preserves the inductive invariant.
LEMMA ProbesStep == ASSUME IInv, NEW p \in Commands, Probes(p) PROVE IInv'
<1>1. TypeOK'
  BY DEF IInv, TypeOK, Probes, Goes, Answer, Places
<1>2. OwnersHoldLock'
  BY NamesAssumption
  DEF IInv, TypeOK, OwnersHoldLock, ParentsWait, HoldersAreUnderWay, SignalsName,
      Probes, Goes, Answer, Up, Commands
<1>3. ParentsWait'
  BY DEF IInv, TypeOK, OwnersHoldLock, ParentsWait, HoldersAreUnderWay, SignalsName,
         Probes, Goes, Answer, Up, Commands
<1>4. HoldersAreUnderWay'
  BY DEF IInv, TypeOK, HoldersAreUnderWay, Probes, Goes, Answer
<1>5. SignalsName'
  BY DEF IInv, TypeOK, SignalsName, Probes, Goes, Answer
<1> QED BY <1>1, <1>2, <1>3, <1>4, <1>5 DEF IInv

\* Frees preserves the inductive invariant.
LEMMA FreesStep == ASSUME IInv, NEW p \in Commands, Frees(p) PROVE IInv'
<1>1. TypeOK'
  BY DEF IInv, TypeOK, Frees, Goes, ProbeReturned, Places
<1>2. OwnersHoldLock'
  BY DEF IInv, TypeOK, OwnersHoldLock, Frees, Goes, ProbeReturned, Up
<1>3. ParentsWait'
  BY DEF IInv, TypeOK, ParentsWait, Frees, Goes, ProbeReturned, Up
<1>4. HoldersAreUnderWay'
  BY NamesAssumption
  DEF IInv, TypeOK, OwnersHoldLock, ParentsWait, HoldersAreUnderWay, SignalsName,
      Frees, Goes, ProbeReturned, Up, Commands
<1>5. SignalsName'
  BY DEF IInv, TypeOK, SignalsName, Frees, Goes, ProbeReturned
<1> QED BY <1>1, <1>2, <1>3, <1>4, <1>5 DEF IInv

\* Unlinks preserves the inductive invariant.
LEMMA UnlinksStep == ASSUME IInv, NEW p \in Commands, Unlinks(p) PROVE IInv'
<1>1. TypeOK'
  BY DEF IInv, TypeOK, Unlinks, Goes, Places
<1>2. OwnersHoldLock'
  BY DEF IInv, TypeOK, OwnersHoldLock, Unlinks, Goes, Up
<1>3. ParentsWait'
  BY DEF IInv, TypeOK, ParentsWait, Unlinks, Goes, Up
<1>4. HoldersAreUnderWay'
  BY DEF IInv, TypeOK, HoldersAreUnderWay, Unlinks, Goes
<1>5. SignalsName'
  BY DEF IInv, TypeOK, SignalsName, Unlinks, Goes
<1> QED BY <1>1, <1>2, <1>3, <1>4, <1>5 DEF IInv

\* Socket preserves the inductive invariant.
LEMMA SocketStep == ASSUME IInv, NEW p \in Commands, Socket(p) PROVE IInv'
<1>1. TypeOK'
  BY DEF IInv, TypeOK, Socket, Goes, Answer, Unfound, Serving, Places
<1>2. OwnersHoldLock'
  BY DEF IInv, TypeOK, OwnersHoldLock, ParentsWait, HoldersAreUnderWay, SignalsName,
         Socket, Goes, Answer, Unfound, Serving, Up, Commands
<1>3. ParentsWait'
  BY DEF IInv, TypeOK, OwnersHoldLock, ParentsWait, HoldersAreUnderWay, SignalsName,
         Socket, Goes, Answer, Unfound, Serving, Up, Commands
<1>4. HoldersAreUnderWay'
  BY DEF IInv, TypeOK, HoldersAreUnderWay, Socket, Goes, Answer, Unfound, Serving
<1>5. SignalsName'
  BY DEF IInv, TypeOK, SignalsName, Socket, Goes, Answer, Unfound, Serving
<1> QED BY <1>1, <1>2, <1>3, <1>4, <1>5 DEF IInv

\* Locks preserves the inductive invariant.
LEMMA LocksStep == ASSUME IInv, NEW p \in Commands, Locks(p) PROVE IInv'
<1>1. TypeOK'
  BY DEF IInv, TypeOK, Locks, Goes, Places
<1>2. OwnersHoldLock'
  BY NamesAssumption
  DEF IInv, TypeOK, OwnersHoldLock, ParentsWait, HoldersAreUnderWay, SignalsName,
      Locks, Goes, Up, Commands
<1>3. ParentsWait'
  BY DEF IInv, TypeOK, OwnersHoldLock, ParentsWait, HoldersAreUnderWay, SignalsName,
         Locks, Goes, Up, Commands
<1>4. HoldersAreUnderWay'
  BY DEF IInv, TypeOK, HoldersAreUnderWay, Locks, Goes
<1>5. SignalsName'
  BY DEF IInv, TypeOK, SignalsName, Locks, Goes
<1> QED BY <1>1, <1>2, <1>3, <1>4, <1>5 DEF IInv

\* Forks preserves the inductive invariant.
LEMMA ForksStep == ASSUME IInv, NEW p \in Commands, Forks(p) PROVE IInv'
<1>1. TypeOK'
  BY DEF IInv, TypeOK, Forks, Goes, Places
<1>2. OwnersHoldLock'
  BY DEF IInv, TypeOK, OwnersHoldLock, Forks, Goes, Up
<1>3. ParentsWait'
  BY DEF IInv, TypeOK, ParentsWait, Forks, Goes, Up
<1>4. HoldersAreUnderWay'
  BY DEF IInv, TypeOK, OwnersHoldLock, ParentsWait, HoldersAreUnderWay, SignalsName,
         Forks, Goes, Up, Commands
<1>5. SignalsName'
  BY DEF IInv, TypeOK, SignalsName, Forks, Goes
<1> QED BY <1>1, <1>2, <1>3, <1>4, <1>5 DEF IInv

\* RunsHere preserves the inductive invariant.
LEMMA RunsHereStep == ASSUME IInv, NEW p \in Commands, RunsHere(p) PROVE IInv'
<1>1. TypeOK'
  BY DEF IInv, TypeOK, RunsHere, Goes, Places
<1>2. OwnersHoldLock'
  BY DEF IInv, TypeOK, OwnersHoldLock, RunsHere, Goes, Up
<1>3. ParentsWait'
  BY DEF IInv, TypeOK, ParentsWait, RunsHere, Goes, Up
<1>4. HoldersAreUnderWay'
  BY DEF IInv, TypeOK, OwnersHoldLock, ParentsWait, HoldersAreUnderWay, SignalsName,
         RunsHere, Goes, Up, Commands
<1>5. SignalsName'
  BY DEF IInv, TypeOK, SignalsName, RunsHere, Goes
<1> QED BY <1>1, <1>2, <1>3, <1>4, <1>5 DEF IInv

\* Waits preserves the inductive invariant.
LEMMA WaitsStep == ASSUME IInv, NEW p \in Commands, Waits(p) PROVE IInv'
<1>1. TypeOK'
  BY DEF IInv, TypeOK, Waits, Goes, Places
<1>2. OwnersHoldLock'
  BY DEF IInv, TypeOK, OwnersHoldLock, ParentsWait, HoldersAreUnderWay, SignalsName,
         Waits, Goes, Up, Commands
<1>3. ParentsWait'
  BY DEF IInv, TypeOK, OwnersHoldLock, ParentsWait, HoldersAreUnderWay, SignalsName,
         Waits, Goes, Up, Commands
<1>4. HoldersAreUnderWay'
  BY DEF IInv, TypeOK, HoldersAreUnderWay, Waits, Goes
<1>5. SignalsName'
  BY DEF IInv, TypeOK, SignalsName, Waits, Goes
<1> QED BY <1>1, <1>2, <1>3, <1>4, <1>5 DEF IInv

\* Closes preserves the inductive invariant.
LEMMA ClosesStep == ASSUME IInv, NEW p \in Commands, Closes(p) PROVE IInv'
<1>1. TypeOK'
  BY DEF IInv, TypeOK, Closes, Goes, ParentLock, Closed, Places
<1>2. OwnersHoldLock'
  BY DEF IInv, TypeOK, OwnersHoldLock, Closes, Goes, ParentLock, Closed, Up
<1>3. ParentsWait'
  BY DEF IInv, TypeOK, ParentsWait, Closes, Goes, ParentLock, Closed, Up
<1>4. HoldersAreUnderWay'
  BY NamesAssumption
  DEF IInv, TypeOK, OwnersHoldLock, ParentsWait, HoldersAreUnderWay, SignalsName,
      Closes, Goes, ParentLock, Closed, Up, Commands
<1>5. SignalsName'
  BY DEF IInv, TypeOK, SignalsName, Closes, Goes, ParentLock, Closed
<1> QED BY <1>1, <1>2, <1>3, <1>4, <1>5 DEF IInv

\* Signals preserves the inductive invariant.
LEMMA SignalsStep == ASSUME IInv, NEW p \in Commands, Signals(p) PROVE IInv'
<1>1. TypeOK'
  BY DEF IInv, TypeOK, OwnersHoldLock, ParentsWait, HoldersAreUnderWay, SignalsName,
         Signals, Goes, Up, Places, Commands
<1>2. OwnersHoldLock'
  BY DEF IInv, TypeOK, OwnersHoldLock, Signals, Goes, Up
<1>3. ParentsWait'
  BY DEF IInv, TypeOK, ParentsWait, Signals, Goes, Up
<1>4. HoldersAreUnderWay'
  BY DEF IInv, TypeOK, HoldersAreUnderWay, Signals, Goes
<1>5. SignalsName'
  BY DEF IInv, TypeOK, SignalsName, Signals, Goes
<1> QED BY <1>1, <1>2, <1>3, <1>4, <1>5 DEF IInv

\* Watches preserves the inductive invariant.
LEMMA WatchesStep == ASSUME IInv, NEW p \in Commands, Watches(p) PROVE IInv'
<1>1. TypeOK'
  BY DEF IInv, TypeOK, Watches, Goes, Places
<1>2. OwnersHoldLock'
  BY DEF IInv, TypeOK, OwnersHoldLock, Watches, Goes, Up
<1>3. ParentsWait'
  BY DEF IInv, TypeOK, ParentsWait, Watches, Goes, Up
<1>4. HoldersAreUnderWay'
  BY DEF IInv, TypeOK, HoldersAreUnderWay, Watches, Goes
<1>5. SignalsName'
  BY DEF IInv, TypeOK, SignalsName, Watches, Goes
<1> QED BY <1>1, <1>2, <1>3, <1>4, <1>5 DEF IInv

\* Tidies preserves the inductive invariant.
LEMMA TidiesStep == ASSUME IInv, NEW p \in Commands, Tidies(p) PROVE IInv'
<1>1. TypeOK'
  BY DEF IInv, TypeOK, Tidies, Goes, Places
<1>2. OwnersHoldLock'
  BY DEF IInv, TypeOK, OwnersHoldLock, Tidies, Goes, Up
<1>3. ParentsWait'
  BY DEF IInv, TypeOK, ParentsWait, Tidies, Goes, Up
<1>4. HoldersAreUnderWay'
  BY DEF IInv, TypeOK, HoldersAreUnderWay, Tidies, Goes
<1>5. SignalsName'
  BY DEF IInv, TypeOK, SignalsName, Tidies, Goes
<1> QED BY <1>1, <1>2, <1>3, <1>4, <1>5 DEF IInv

\* Asks preserves the inductive invariant.
LEMMA AsksStep == ASSUME IInv, NEW p \in Commands, Asks(p) PROVE IInv'
<1>1. TypeOK'
  BY DEF IInv, TypeOK, Asks, Goes, Places
<1>2. OwnersHoldLock'
  BY DEF IInv, TypeOK, OwnersHoldLock, Asks, Goes, Up
<1>3. ParentsWait'
  BY DEF IInv, TypeOK, ParentsWait, Asks, Goes, Up
<1>4. HoldersAreUnderWay'
  BY DEF IInv, TypeOK, HoldersAreUnderWay, Asks, Goes
<1>5. SignalsName'
  BY DEF IInv, TypeOK, SignalsName, Asks, Goes
<1> QED BY <1>1, <1>2, <1>3, <1>4, <1>5 DEF IInv

\* Owns preserves the inductive invariant.
LEMMA OwnsStep == ASSUME IInv, NEW p \in Commands, Owns(p) PROVE IInv'
<1>1. TypeOK'
  BY DEF IInv, TypeOK, Owns, Goes, Places
<1>2. OwnersHoldLock'
  BY NamesAssumption
  DEF IInv, TypeOK, OwnersHoldLock, ParentsWait, HoldersAreUnderWay, SignalsName,
      Owns, Goes, Up, Commands
<1>3. ParentsWait'
  BY DEF IInv, TypeOK, ParentsWait, Owns, Goes, Up
<1>4. HoldersAreUnderWay'
  BY DEF IInv, TypeOK, HoldersAreUnderWay, Owns, Goes
<1>5. SignalsName'
  BY DEF IInv, TypeOK, SignalsName, Owns, Goes
<1> QED BY <1>1, <1>2, <1>3, <1>4, <1>5 DEF IInv

\* Hosted preserves the inductive invariant.
LEMMA HostedStep == ASSUME IInv, NEW p \in Commands, Hosted(p) PROVE IInv'
<1>1. TypeOK'
  BY DEF IInv, TypeOK, Hosted, Goes, Places
<1>2. OwnersHoldLock'
  BY NamesAssumption
  DEF IInv, TypeOK, OwnersHoldLock, ParentsWait, HoldersAreUnderWay, SignalsName,
      Hosted, Goes, Up, Commands
<1>3. ParentsWait'
  BY DEF IInv, TypeOK, ParentsWait, Hosted, Goes, Up
<1>4. HoldersAreUnderWay'
  BY NamesAssumption
  DEF IInv, TypeOK, OwnersHoldLock, ParentsWait, HoldersAreUnderWay, SignalsName,
      Hosted, Goes, Up, Commands
<1>5. SignalsName'
  BY DEF IInv, TypeOK, SignalsName, Hosted, Goes
<1> QED BY <1>1, <1>2, <1>3, <1>4, <1>5 DEF IInv

\* NamesPid preserves the inductive invariant.
LEMMA NamesPidStep == ASSUME IInv, NEW p \in Starters, NamesPid(p) PROVE IInv'
<1>1. TypeOK'
  BY DEF IInv, TypeOK, NamesPid, DaemonIs, Places, Commands
<1>2. OwnersHoldLock'
  BY DEF IInv, TypeOK, OwnersHoldLock, NamesPid, DaemonIs, Up, Commands
<1>3. ParentsWait'
  BY DEF IInv, TypeOK, ParentsWait, NamesPid, DaemonIs, Up, Commands
<1>4. HoldersAreUnderWay'
  BY DEF IInv, TypeOK, HoldersAreUnderWay, NamesPid, DaemonIs, Commands
<1>5. SignalsName'
  BY DEF IInv, TypeOK, SignalsName, NamesPid, DaemonIs, Commands
<1> QED BY <1>1, <1>2, <1>3, <1>4, <1>5 DEF IInv

\* NamesLoop preserves the inductive invariant.
LEMMA NamesLoopStep == ASSUME IInv, NEW p \in Starters, NamesLoop(p) PROVE IInv'
<1>1. TypeOK'
  BY DEF IInv, TypeOK, NamesLoop, DaemonIs, Places, Commands
<1>2. OwnersHoldLock'
  BY DEF IInv, TypeOK, OwnersHoldLock, NamesLoop, DaemonIs, Up, Commands
<1>3. ParentsWait'
  BY DEF IInv, TypeOK, ParentsWait, NamesLoop, DaemonIs, Up, Commands
<1>4. HoldersAreUnderWay'
  BY DEF IInv, TypeOK, HoldersAreUnderWay, NamesLoop, DaemonIs, Commands
<1>5. SignalsName'
  BY DEF IInv, TypeOK, SignalsName, NamesLoop, DaemonIs, Commands
<1> QED BY <1>1, <1>2, <1>3, <1>4, <1>5 DEF IInv

\* Stops preserves the inductive invariant.
LEMMA StopsStep == ASSUME IInv, NEW p \in Starters, Stops(p) PROVE IInv'
<1>1. TypeOK'
  BY DEF IInv, TypeOK, Stops, DaemonIs, Places, Commands
<1>2. OwnersHoldLock'
  BY DEF IInv, TypeOK, OwnersHoldLock, Stops, DaemonIs, Up, Commands
<1>3. ParentsWait'
  BY DEF IInv, TypeOK, ParentsWait, Stops, DaemonIs, Up, Commands
<1>4. HoldersAreUnderWay'
  BY DEF IInv, TypeOK, HoldersAreUnderWay, Stops, DaemonIs, Commands
<1>5. SignalsName'
  BY DEF IInv, TypeOK, SignalsName, Stops, DaemonIs, Commands
<1> QED BY <1>1, <1>2, <1>3, <1>4, <1>5 DEF IInv

\* Leaves preserves the inductive invariant.
LEMMA LeavesStep == ASSUME IInv, NEW p \in Starters, Leaves(p) PROVE IInv'
<1>1. TypeOK'
  BY DEF IInv, TypeOK, Leaves, DaemonIs, Places, Commands
<1>2. OwnersHoldLock'
  BY DEF IInv, TypeOK, OwnersHoldLock, Leaves, DaemonIs, Up, Commands
<1>3. ParentsWait'
  BY DEF IInv, TypeOK, ParentsWait, Leaves, DaemonIs, Up, Commands
<1>4. HoldersAreUnderWay'
  BY DEF IInv, TypeOK, HoldersAreUnderWay, Leaves, DaemonIs, Commands
<1>5. SignalsName'
  BY DEF IInv, TypeOK, SignalsName, Leaves, DaemonIs, Commands
<1> QED BY <1>1, <1>2, <1>3, <1>4, <1>5 DEF IInv

\* Clears preserves the inductive invariant.
LEMMA ClearsStep == ASSUME IInv, NEW p \in Starters, Clears(p) PROVE IInv'
<1>1. TypeOK'
  BY DEF IInv, TypeOK, Clears, DaemonIs, Places, Commands
<1>2. OwnersHoldLock'
  BY DEF IInv, TypeOK, OwnersHoldLock, Clears, DaemonIs, Up, Commands
<1>3. ParentsWait'
  BY DEF IInv, TypeOK, ParentsWait, Clears, DaemonIs, Up, Commands
<1>4. HoldersAreUnderWay'
  BY DEF IInv, TypeOK, HoldersAreUnderWay, Clears, DaemonIs, Commands
<1>5. SignalsName'
  BY DEF IInv, TypeOK, SignalsName, Clears, DaemonIs, Commands
<1> QED BY <1>1, <1>2, <1>3, <1>4, <1>5 DEF IInv

\* Unlocks preserves the inductive invariant.
LEMMA UnlocksStep == ASSUME IInv, NEW p \in Starters, Unlocks(p) PROVE IInv'
<1>1. TypeOK'
  BY DEF IInv, TypeOK, Unlocks, DaemonIs, Places, Commands
<1>2. OwnersHoldLock'
  BY NamesAssumption
  DEF IInv, TypeOK, OwnersHoldLock, ParentsWait, HoldersAreUnderWay, SignalsName,
      Unlocks, DaemonIs, Up, Commands
<1>3. ParentsWait'
  BY DEF IInv, TypeOK, ParentsWait, Unlocks, DaemonIs, Up, Commands
<1>4. HoldersAreUnderWay'
  BY NamesAssumption
  DEF IInv, TypeOK, OwnersHoldLock, ParentsWait, HoldersAreUnderWay, SignalsName,
      Unlocks, DaemonIs, Up, Commands
<1>5. SignalsName'
  BY DEF IInv, TypeOK, SignalsName, Unlocks, DaemonIs, Commands
<1> QED BY <1>1, <1>2, <1>3, <1>4, <1>5 DEF IInv

\* Crashes preserves the inductive invariant.
LEMMA CrashesStep == ASSUME IInv, NEW p \in Starters, Crashes(p) PROVE IInv'
<1>1. TypeOK'
  BY CrashesAssumption
  DEF IInv, TypeOK, Crashes, Closed, DaemonIs, Places, Commands
<1>2. OwnersHoldLock'
  BY NamesAssumption
  DEF IInv, TypeOK, OwnersHoldLock, ParentsWait, HoldersAreUnderWay, SignalsName,
      Crashes, Closed, DaemonIs, Up, Commands
<1>3. ParentsWait'
  BY DEF IInv, TypeOK, ParentsWait, Crashes, Closed, DaemonIs, Up, Commands
<1>4. HoldersAreUnderWay'
  BY NamesAssumption
  DEF IInv, TypeOK, OwnersHoldLock, ParentsWait, HoldersAreUnderWay, SignalsName,
      Crashes, Closed, DaemonIs, Up, Commands
<1>5. SignalsName'
  BY DEF IInv, TypeOK, SignalsName, Crashes, Closed, DaemonIs, Commands
<1> QED BY <1>1, <1>2, <1>3, <1>4, <1>5 DEF IInv

\* A step that changes nothing preserves it.
LEMMA StutterStep == ASSUME IInv, UNCHANGED vars PROVE IInv'
  BY DEF IInv, TypeOK, OwnersHoldLock, ParentsWait, HoldersAreUnderWay, SignalsName,
         Up, vars

\* Every step preserves the inductive invariant.
LEMMA Inductive == IInv /\ [Next]_vars => IInv'
<1> SUFFICES ASSUME IInv, [Next]_vars PROVE IInv'
  OBVIOUS
<1>1. ASSUME NEW p \in Commands, Command(p) PROVE IInv'
  BY <1>1, LooksStep, ProbesStep, FreesStep, UnlinksStep, SocketStep, LocksStep, ForksStep,
     RunsHereStep, WaitsStep, ClosesStep, SignalsStep, WatchesStep, TidiesStep, AsksStep,
     OwnsStep, HostedStep DEF Command
<1>2. ASSUME NEW p \in Starters, Daemon(p) \/ Crashes(p) PROVE IInv'
  BY <1>2, NamesPidStep, NamesLoopStep, StopsStep, LeavesStep, ClearsStep, UnlocksStep,
     CrashesStep DEF Daemon
<1>3. CASE UNCHANGED vars
  BY <1>3, StutterStep
<1> QED BY <1>1, <1>2, <1>3 DEF Next

\* The inductive invariant holds in every reachable state.
THEOREM AlwaysIInv == Spec => []IInv
  BY InitIInv, Inductive, PTL DEF Spec

\* Type correctness: whatever the commands, gateways and clients do, the state
\* keeps its type.
THEOREM TypeCorrect == Spec => []TypeOK
<1>1. IInv => TypeOK
  BY DEF IInv
<1> QED BY AlwaysIInv, <1>1, PTL

\* Two gateways, or a gateway and a client that hosts the runtime, are never
\* owners at once: gateway_start, gateway_run_foreground and the embedded owner
\* of channel.c all own through the one lock, and neither a probe nor the
\* parent's close takes it from a running gateway.
THEOREM OneRuntimeOwner == Spec => []OneOwner
<1>1. ASSUME IInv PROVE OneOwner
  <2>1. \A p \in Owners : lock = p
    BY <1>1 DEF IInv, OwnersHoldLock, Owners, Commands
  <2> QED BY <2>1 DEF OneOwner
<1> QED BY AlwaysIInv, <1>1, PTL

\* gateway_running gives the lock back after its probe, and a gateway that
\* leaves or dies takes it along: with no command between its first look and
\* its end and no owner left, the lock is free.
THEOREM LockComesBack == Spec => []LockIsReturned
<1>1. ASSUME IInv PROVE LockIsReturned
  <2> SUFFICES ASSUME Owners = {}, \A p \in Commands : ~ UnderWay(p)
               PROVE  lock = "free"
    BY Zenon DEF LockIsReturned
  <2>0. \A p \in Commands : \/ pc[p] \in {"answered", "refused", "started"}
                            \/ pc[p] = "looks" /\ (p \in Starters => daemon[p] = "none")
    BY Zenon DEF UnderWay
  <2>1. ASSUME NEW p \in Starters PROVE open[p] = {}
    <3>1. CASE daemon[p] = "none"
      BY <1>1, <3>1 DEF IInv, ParentsWait
    <3>2. CASE daemon[p] # "none"
      <4>1. "child" \notin open[p]
        BY <1>1 DEF IInv, ParentsWait, Owners
      <4>2. "parent" \notin open[p]
        BY <1>1, <2>0, <3>2 DEF IInv, ParentsWait, Commands
      <4> QED BY <1>1, <4>1, <4>2 DEF IInv, TypeOK
    <3> QED BY <3>1, <3>2
  <2>2. \A p \in Commands : lock # p
    BY <1>1, <2>0, <2>1 DEF IInv, HoldersAreUnderWay
  <2> QED BY <1>1, <2>2 DEF IInv, TypeOK
<1> QED BY AlwaysIInv, <1>1, PTL
=============================================================================
