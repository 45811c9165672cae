----------------------- MODULE ManagedOperation_proofs -----------------------
(***************************************************************************)
(* For every set of operations, every bound and every choice of failing    *)
(* calls: an operation has at most one terminal truth outside the named    *)
(* lapses, a finished record has one, and only a told record is dropped.   *)
(***************************************************************************)
EXTENDS ManagedOperation, TLAPS

USE DEF Claims, Tokens, Nobody

\* The type invariant, by the part of the state it is about.
StoreType ==
  /\ store \in [Ops -> {"none", "running", "finished"}]
  /\ birth \in [Ops -> 0..MaxBirths] /\ births \in 0..MaxBirths
  /\ token \in [Ops -> Tokens] /\ handle \in [Ops -> BOOLEAN]
  /\ timer \in [Ops -> 0..MaxClaims]

LogType ==
  /\ acts \in [Ops -> {"requested", "started", "closed"}]
  /\ results \in [Ops -> Nat] /\ first \in [Claims -> {"none", "bare", "named"}]

BusType ==
  /\ env \in [Claims -> [op : Ops \cup {Nobody},
                         cause : {"none", "worker", "timeout"}, tok : Tokens]]
  /\ sent \in 0..MaxClaims /\ inbox \subseteq Claims /\ processed \subseteq Claims
  /\ crun \in [Claims -> {"none", "live", "over"}]

MemoryType ==
  /\ worker \subseteq Ops \X Tokens
  /\ job \in [Ops -> {"queued", "running", "done", "lost"}]
  /\ mem \in [Claims -> {"none", "waiting", "ready", "lost"}]
  /\ todo \subseteq Claims

ControlType ==
  /\ pc \in {"up", "alloc", "bind", "launch", "terminal", "drive", "result",
             "flip", "pump", "claims", "batch", "admit", "commit", "cflip",
             "down", "recover", "refused"}
  /\ cur \in Ops \cup {Nobody} /\ claim \in 0..MaxClaims
  /\ out \in {"none", "running", "finished", "failed", "blocked"}
  /\ back \in {"up", "claims", "batch", "recover"}

HistoryType ==
  /\ lapse \in [Ops -> SUBSET {"reducer", "deferred", "purged"}]
  /\ closed \subseteq Ops
  /\ crashes \in Nat /\ shutdowns \in Nat /\ faults \in Nat

\* The parts together are the type invariant.
LEMMA TypeParts ==
  TypeOK <=> /\ StoreType /\ LogType /\ BusType /\ MemoryType /\ ControlType
             /\ HistoryType
BY ZenonT(40) DEF TypeOK, StoreType, LogType, BusType, MemoryType, ControlType, HistoryType

\* A part whose variables a step leaves alone keeps its type.
LEMMA SameTypes ==
  /\ StoreType /\ UNCHANGED storeVars => StoreType'
  /\ LogType /\ UNCHANGED logVars => LogType'
  /\ BusType /\ UNCHANGED busVars => BusType'
  /\ MemoryType /\ UNCHANGED <<worker, memory>> => MemoryType'
  /\ ControlType /\ UNCHANGED control => ControlType'
  /\ HistoryType /\ UNCHANGED <<history, bounds>> => HistoryType'
<1>1. StoreType /\ UNCHANGED storeVars => StoreType'
  BY ZenonT(40) DEF StoreType, storeVars
<1>2. LogType /\ UNCHANGED logVars => LogType'
  BY ZenonT(40) DEF LogType, logVars
<1>3. BusType /\ UNCHANGED busVars => BusType'
  BY ZenonT(40) DEF BusType, busVars
<1>4. MemoryType /\ UNCHANGED <<worker, memory>> => MemoryType'
  BY ZenonT(40) DEF MemoryType, memory
<1>5. ControlType /\ UNCHANGED control => ControlType'
  BY ZenonT(40) DEF ControlType, control
<1>6. HistoryType /\ UNCHANGED <<history, bounds>> => HistoryType'
  BY ZenonT(40) DEF HistoryType, history, bounds
<1>7. QED
  BY ZenonT(40), <1>1, <1>2, <1>3, <1>4, <1>5, <1>6

\* A failing call counts one fault.
LEMMA FaultType ==
  ASSUME HistoryType, NEW point, Fault(point)
  PROVE  faults' \in Nat
BY DEF HistoryType, Fault

\* The ways the thread moves on keep the control state typed.
LEMMA Moves ==
  ASSUME ControlType
  PROVE  /\ Return => ControlType' /\ pc' = back
         /\ Fail => ControlType'
         /\ \A where \in {"alloc", "bind", "launch", "drive", "result", "flip",
                          "claims", "batch", "commit", "cflip", "recover",
                          "refused"} : Goto(where) => ControlType'
<1>1. Return => ControlType' /\ pc' = back
  BY OperationAssumption DEF ControlType, Return, Idle
<1>2. Fail => ControlType'
  BY ZenonT(40) DEF ControlType, Fail
<1>3. ASSUME NEW where \in {"alloc", "bind", "launch", "drive", "result", "flip",
                            "claims", "batch", "commit", "cflip", "recover",
                            "refused"}, Goto(where)
      PROVE  ControlType'
  BY ZenonT(40), <1>3 DEF ControlType, Goto
<1>4. QED
  BY ZenonT(40), <1>1, <1>2, <1>3

-----------------------------------------------------------------------------
(* What the store's writes do *)

\* An operation keeps its record and its history, or loses a told record.
Kept(o) == store'[o] = store[o] /\ lapse'[o] = lapse[o]
Dropped(o) == store'[o] = "none" /\ lapse'[o] = lapse[o] \cup {"purged"}

\* Writing the table without the records in `gone' drops exactly those.
LEMMA WriteEffect ==
  ASSUME StoreType, HistoryType,
         NEW s \in [Ops -> {"none", "running", "finished"}],
         NEW gone \in SUBSET Ops, Write(s, gone)
  PROVE  /\ store' \in [Ops -> {"none", "running", "finished"}]
         /\ token' \in [Ops -> Tokens] /\ handle' \in [Ops -> BOOLEAN]
         /\ timer' \in [Ops -> 0..MaxClaims]
         /\ lapse' \in [Ops -> SUBSET {"reducer", "deferred", "purged"}]
         /\ \A o \in Ops : timer'[o] \in {timer[o], 0}
         /\ \A o \in gone : Dropped(o)
         /\ \A o \in Ops \ gone : store'[o] = s[o] /\ lapse'[o] = lapse[o]
<1> USE DEF StoreType, HistoryType, Write
<1>1. store' \in [Ops -> {"none", "running", "finished"}]
  BY ZenonT(40)
<1>2. token' \in [Ops -> Tokens]
  BY OperationAssumption
<1>3. handle' \in [Ops -> BOOLEAN]
  <2>1. handle' = [o \in Ops |-> handle[o] /\ o \notin gone]
    BY ZenonT(40)
  <2>2. QED
    BY ZenonT(40), <2>1, Zenon
<1>4. timer' \in [Ops -> 0..MaxClaims]
  BY OperationAssumption
<1>5. lapse' \in [Ops -> SUBSET {"reducer", "deferred", "purged"}]
  BY ZenonT(40)
<1>6. \A o \in Ops : timer'[o] \in {timer[o], 0}
  BY ZenonT(40)
<1>7. \A o \in gone : Dropped(o)
  BY ZenonT(40) DEF Dropped
<1>8. \A o \in Ops \ gone : store'[o] = s[o] /\ lapse'[o] = lapse[o]
  BY ZenonT(40)
<1>9. QED
  BY ZenonT(40), <1>1, <1>2, <1>3, <1>4, <1>5, <1>6, <1>7, <1>8

\* The retention cap only drops finished records.
LEMMA OverCapEffect ==
  ASSUME NEW s, NEW gone \in SUBSET Ops, OverCap(s, gone)
  PROVE  \A o \in gone : s[o] = "finished"
BY ZenonT(40) DEF OverCap, OldestFinished, Finished

\* Finishing a record: it is finished or dropped at once, the others are kept
\* or, if finished, dropped.
LEMMA FinishEffect ==
  ASSUME StoreType, HistoryType, NEW o \in Ops, Finish(o)
  PROVE  /\ StoreType' /\ lapse' \in [Ops -> SUBSET {"reducer", "deferred", "purged"}]
         /\ \A p \in Ops : timer'[p] \in {timer[p], 0}
         /\ \A p \in Ops \ {o} : Kept(p) \/ (store[p] = "finished" /\ Dropped(p))
         /\ store[o] # "running" => Kept(o)
         /\ store[o] = "running" =>
              (store'[o] = "finished" /\ lapse'[o] = lapse[o]) \/ Dropped(o)
<1>1. CASE store[o] = "running"
  <2> DEFINE s == [store EXCEPT ![o] = "finished"]
  <2>1. PICK gone \in SUBSET Ops : OverCap(s, gone) /\ Write(s, gone)
    BY ZenonT(40), <1>1 DEF Finish
  <2>2. UNCHANGED <<birth, births>>
    BY ZenonT(40), <1>1 DEF Finish
  <2>3. s \in [Ops -> {"none", "running", "finished"}]
    BY ZenonT(40) DEF StoreType
  <2>4. \A p \in Ops : s[p] = IF p = o THEN "finished" ELSE store[p]
    BY ZenonT(40) DEF StoreType
  <2>5. \A p \in gone : s[p] = "finished"
    BY ZenonT(40), <2>1, OverCapEffect
  <2> HIDE DEF s
  <2>6. QED
    BY <1>1, <2>1, <2>2, <2>3, <2>4, <2>5, WriteEffect DEF StoreType, Kept
<1>2. CASE store[o] # "running"
  BY ZenonT(40), <1>2 DEF Finish, StoreType, HistoryType, storeVars, Kept
<1>3. QED
  BY ZenonT(40), <1>1, <1>2

\* Inserting a record: it runs, the others are kept or, if finished, dropped.
LEMMA InsertEffect ==
  ASSUME StoreType, HistoryType, NEW o \in Ops, store[o] = "none", Insert(o)
  PROVE  /\ StoreType' /\ lapse' \in [Ops -> SUBSET {"reducer", "deferred", "purged"}]
         /\ \A p \in Ops : timer'[p] \in {timer[p], 0}
         /\ \A p \in Ops \ {o} : Kept(p) \/ (store[p] = "finished" /\ Dropped(p))
         /\ store'[o] = "running" /\ lapse'[o] = lapse[o]
<1> DEFINE s == [store EXCEPT ![o] = "running"]
           rest(gone) == [p \in Ops |-> IF p \in gone THEN "none" ELSE s[p]]
<1>1. PICK gone, over \in SUBSET Ops :
        /\ \A p \in gone : store[p] = "finished"
        /\ OverCap(rest(gone), over) /\ Write(s, gone \cup over)
  BY ZenonT(40) DEF Insert, OldestFinished, Finished
<1>2. birth' \in [Ops -> 0..MaxBirths] /\ births' \in 0..MaxBirths
  BY OperationAssumption DEF Insert, StoreType
<1>3. s \in [Ops -> {"none", "running", "finished"}]
  BY ZenonT(40) DEF StoreType
<1>4. \A p \in Ops : s[p] = IF p = o THEN "running" ELSE store[p]
  BY ZenonT(40) DEF StoreType
<1>5. \A p \in over : rest(gone)[p] = "finished"
  BY ZenonT(40), <1>1, OverCapEffect
<1>6. \A p \in over : s[p] = "finished"
  BY ZenonT(40), <1>5
<1> HIDE DEF s
<1>7. \A p \in gone \cup over : p # o /\ store[p] = "finished"
  BY ZenonT(40), <1>1, <1>4, <1>6
<1>8. gone \cup over \in SUBSET Ops
  BY ZenonT(40)
<1>9. QED
  BY <1>1, <1>2, <1>3, <1>4, <1>7, <1>8, WriteEffect DEF StoreType, Kept

-----------------------------------------------------------------------------
(* What leaves a part of the invariant alone *)

\* A step away from the log, the store and their windows keeps the gate.
LEMMA QuietGate ==
  ASSUME GateInv, FinishedIsTold, UNCHANGED <<store, results, closed, lapse>>,
         pc \notin {"flip", "cflip"}, pc' \notin {"flip", "cflip"}
  PROVE  GateInv' /\ FinishedIsTold'
BY ZenonT(40) DEF GateInv, FinishedIsTold, Truths, Telling

\* What ClaimInv says of a claim, and of a deadline, each by itself.
LEMMA ClaimFacts ==
  ASSUME ClaimInv
  PROVE  /\ \A c \in Claims : c > sent => env[c] = NoClaim /\ crun[c] = "none"
         /\ \A c \in Claims : c \in inbox \cup processed => env[c].op \in Ops
         /\ \A c \in Claims : crun[c] = "live" => env[c].op \in Ops
         /\ \A o \in Ops : timer[o] <= sent
         /\ \A o \in Ops : timer[o] # 0 => env[timer[o]].op \in {Nobody, o}
BY ZenonT(40) DEF ClaimInv

\* A step that leaves bus and claim runs alone keeps what is known of them.
LEMMA QuietClaims ==
  ASSUME BusType, StoreType, ClaimInv,
         UNCHANGED <<env, sent, inbox, processed, crun, mem, first>>,
         \A o \in Ops : timer'[o] \in {timer[o], 0},
         \A o \in Ops : lapse[o] \subseteq lapse'[o],
         pc \notin {"commit", "cflip"}
  PROVE  ClaimInv'
<1>1. \A c \in Claims :
       /\ c > sent' => env'[c] = NoClaim /\ crun'[c] = "none"
       /\ c \in inbox' \cup processed' \/ crun'[c] = "live" => env'[c].op \in Ops
       /\ mem'[c] # "none" => crun'[c] = "live"
       /\ mem'[c] = "waiting" => first'[c] = "none"
       /\ crun'[c] = "live" /\ first'[c] = "none" => "deferred" \in lapse'[env'[c].op]
  BY ZenonT(40) DEF ClaimInv
<1>2. \A o \in Ops :
       /\ timer'[o] <= sent'
       /\ timer'[o] # 0 => env'[timer'[o]].op \in {Nobody, o}
  BY DEF ClaimInv, BusType, StoreType
<1>3. \A o, p \in Ops : timer'[o] = timer'[p] /\ timer'[o] # 0 => o = p
  BY ZenonT(40) DEF ClaimInv
<1>4. QED
  BY ZenonT(40), <1>1, <1>2, <1>3 DEF ClaimInv

\* With the thread idle or in a loop nothing is asked of what it works on.
LEMMA QuietThread ==
  ASSUME pc' \in {"up", "claims", "batch", "recover", "down", "refused"}
  PROVE  ThreadInv'
BY ZenonT(40) DEF ThreadInv

\* The parts of the inductive invariant.
LEMMA IInvParts ==
  IInv <=> /\ StoreType /\ LogType /\ BusType /\ MemoryType /\ ControlType
           /\ HistoryType /\ GateInv /\ FinishedIsTold /\ ThreadInv /\ ClaimInv
BY ZenonT(40), TypeParts DEF IInv

\* The same parts, in the next state.
LEMMA IInvPartsNext ==
  IInv' <=> /\ StoreType' /\ LogType' /\ BusType' /\ MemoryType' /\ ControlType'
            /\ HistoryType' /\ GateInv' /\ FinishedIsTold' /\ ThreadInv' /\ ClaimInv'
BY ZenonT(40) DEF IInv, TypeOK, StoreType, LogType, BusType, MemoryType, ControlType, HistoryType

-----------------------------------------------------------------------------
(* The producing run *)

\* emit_started keeps the invariant: nothing is told yet.
LEMMA StartAction_Inv ==
  ASSUME IInv, NEW o \in Ops, StartAction(o)
  PROVE  IInv'
<1> USE IInvParts
<1>1. UNCHANGED <<storeVars, results, first, busVars, worker, mem, todo, history, stops>>
      /\ pc = "up"
  BY ZenonT(40) DEF StartAction
<1>2. acts' \in [Ops -> {"requested", "started", "closed"}]
  BY ZenonT(40) DEF StartAction, LogType
<1>3. job' \in [Ops -> {"queued", "running", "done", "lost"}]
  BY ZenonT(40) DEF StartAction, MemoryType, memory
<1>4. faults' \in Nat
  BY ZenonT(40), FaultType DEF StartAction, HistoryType
<1>5. ControlType' /\ pc' \in {"alloc", "up"} /\ (pc' = "alloc" => cur' \in Ops)
  BY ZenonT(40) DEF StartAction, ControlType, Call, control
<1>6. StoreType' /\ LogType' /\ BusType' /\ MemoryType' /\ HistoryType'
  BY ZenonT(40), <1>1, <1>2, <1>3, <1>4, SameTypes DEF LogType, MemoryType, HistoryType, history, stops
<1>7. GateInv' /\ FinishedIsTold'
  BY ZenonT(40), <1>1, <1>5, QuietGate DEF storeVars, history
<1>8. ClaimInv'
  BY ZenonT(40), <1>1, QuietClaims DEF storeVars, history, busVars
<1>9. ThreadInv'
  BY ZenonT(40), <1>1, <1>5 DEF ThreadInv
<1>10. QED
  BY ZenonT(40), <1>5, <1>6, <1>7, <1>8, <1>9, IInvPartsNext

\* A call into the terminal path, as a refused request, a completed job and a
\* recovered outside-world action make it.
LEMMA CallTerminal ==
  ASSUME IInv, pc \notin {"flip", "cflip", "commit"}, NEW o \in Ops,
         NEW outcome \in {"running", "finished", "failed", "blocked"},
         NEW returnTo \in {"up", "recover"}, Call("terminal", o, outcome, returnTo)
  PROVE  ControlType' /\ ThreadInv' /\ pc' = "terminal"
BY ZenonT(40), IInvParts DEF Call, ControlType, ThreadInv

\* A request refused by validation only enters the terminal path.
LEMMA RejectAction_Inv ==
  ASSUME IInv, NEW o \in Ops, RejectAction(o)
  PROVE  IInv'
<1> USE IInvParts
<1>1. UNCHANGED <<storeVars, logVars, busVars, worker, memory, history, bounds>>
      /\ pc = "up" /\ Call("terminal", o, "failed", "up")
  BY ZenonT(40) DEF RejectAction
<1>2. ControlType' /\ ThreadInv' /\ pc' = "terminal"
  BY ZenonT(40), <1>1, CallTerminal
<1>3. GateInv' /\ FinishedIsTold' /\ ClaimInv'
  BY ZenonT(40), <1>1, <1>2, QuietGate, QuietClaims DEF storeVars, logVars, busVars, memory, history
<1>4. QED
  BY ZenonT(40), <1>1, <1>2, <1>3, SameTypes, IInvPartsNext

\* So does an action whose process ended, whatever it reported.
LEMMA CompleteJob_Inv ==
  ASSUME IInv, NEW o \in Ops, CompleteJob(o)
  PROVE  IInv'
<1> USE IInvParts
<1>1. UNCHANGED <<storeVars, logVars, busVars, worker, memory, history, bounds>>
      /\ pc = "up"
  BY ZenonT(40) DEF CompleteJob
<1>2. ControlType' /\ ThreadInv' /\ pc' = "terminal"
  BY ZenonT(40), <1>1, CallTerminal DEF CompleteJob, Outcomes
<1>3. GateInv' /\ FinishedIsTold' /\ ClaimInv'
  BY ZenonT(40), <1>1, <1>2, QuietGate, QuietClaims DEF storeVars, logVars, busVars, memory, history
<1>4. QED
  BY ZenonT(40), <1>1, <1>2, <1>3, SameTypes, IInvPartsNext

\* A new record opens the gate of an operation of which nothing was told.
LEMMA Insert_Inv ==
  ASSUME IInv, pc \in {"alloc", "drive"}, cur \in Ops, store[cur] = "none",
         Insert(cur), Goto("bind"), UNCHANGED <<closed, faults>>,
         UNCHANGED <<logVars, busVars, worker, memory, stops>>
  PROVE  IInv'
<1> USE IInvParts
<1>1. /\ StoreType' /\ lapse' \in [Ops -> SUBSET {"reducer", "deferred", "purged"}]
      /\ \A p \in Ops : timer'[p] \in {timer[p], 0}
      /\ \A p \in Ops \ {cur} : Kept(p) \/ (store[p] = "finished" /\ Dropped(p))
      /\ store'[cur] = "running" /\ lapse'[cur] = lapse[cur]
  BY ZenonT(40), InsertEffect
<1>2. ControlType' /\ pc' = "bind" /\ cur' = cur
  BY ZenonT(40), Moves DEF Goto
<1>3. \A p \in Ops : lapse[p] \subseteq lapse'[p]
  BY ZenonT(40), <1>1 DEF Kept, Dropped
<1>4. ClaimInv'
  BY ZenonT(40), <1>1, <1>3, QuietClaims DEF busVars, logVars, memory
<1>5. ThreadInv'
  BY ZenonT(40), <1>1, <1>2 DEF ThreadInv
<1>6. GateInv' /\ FinishedIsTold'
  BY SMTT(60), <1>1, <1>2 DEF GateInv, FinishedIsTold, Truths, Telling, Kept, Dropped, logVars
<1>7. HistoryType'
  BY ZenonT(40), <1>1 DEF HistoryType, stops
<1>8. QED
  BY ZenonT(40), <1>1, <1>2, <1>4, <1>5, <1>6, <1>7, SameTypes, IInvPartsNext

\* rt_operation_allocate_for_call keeps the invariant: a new record finds
\* nothing told, an old one is left as it is.
LEMMA Allocate_Inv ==
  ASSUME IInv, Allocate
  PROVE  IInv'
<1> USE IInvParts
<1>1. UNCHANGED <<logVars, busVars, worker, memory, stops>> /\ pc = "alloc"
      /\ cur \in Ops
  BY ZenonT(40) DEF Allocate, ThreadInv
<1>2. CASE store[cur] = "none" /\ Insert(cur) /\ Goto("bind") /\ UNCHANGED <<closed, faults>>
  BY ZenonT(40), <1>1, <1>2, Insert_Inv
<1>3. CASE /\ UNCHANGED <<storeVars, history>> /\ faults' \in Nat
           /\ \/ Goto("launch") \/ (store[cur] = "running" /\ Goto("bind")) \/ Fail
  <2>1. ControlType' /\ pc' \in {"launch", "bind", "terminal"} /\ cur' = cur
        /\ (pc' = "bind" => store[cur] = "running")
    BY ZenonT(40), <1>3, Moves DEF Goto, Fail
  <2>2. GateInv' /\ FinishedIsTold' /\ ClaimInv'
    BY ZenonT(40), <1>1, <1>3, <2>1, QuietGate, QuietClaims DEF storeVars, logVars, busVars, memory, history
  <2>3. ThreadInv'
    BY ZenonT(40), <1>1, <1>3, <2>1 DEF ThreadInv, storeVars
  <2>4. HistoryType'
    BY ZenonT(40), <1>1, <1>3 DEF HistoryType, stops, history
  <2>5. QED
    BY ZenonT(40), <1>1, <1>3, <2>1, <2>2, <2>3, <2>4, SameTypes, IInvPartsNext
<1>4. QED
  BY ZenonT(40), <1>2, <1>3, FaultType DEF Allocate, HistoryType

\* rt_operation_bind_secret writes only the capability.
LEMMA BindSecret_Inv ==
  ASSUME IInv, BindSecret
  PROVE  IInv'
<1> USE IInvParts
<1>1. UNCHANGED <<store, birth, births, handle, timer, logVars, busVars, worker,
                  memory, history, stops>>
      /\ pc = "bind" /\ cur \in Ops /\ store[cur] = "running"
  BY ZenonT(40) DEF BindSecret, ThreadInv
<1>2. token' \in [Ops -> Tokens]
  BY ZenonT(40), <1>1 DEF BindSecret, StoreType
<1>3. faults' \in Nat
  BY ZenonT(40), FaultType DEF BindSecret, HistoryType
<1>4. /\ ControlType'
      /\ \/ pc' \in {"drive", "launch", "terminal"} /\ cur' = cur
         \/ pc' \in {"up", "claims", "batch", "recover"}
  <2>1. CASE Return
    BY ZenonT(40), <2>1, Moves DEF ControlType
  <2>2. CASE Goto(IF out = "failed" THEN "drive" ELSE "launch") \/ Fail
    BY ZenonT(40), <2>2, Moves DEF Goto, Fail
  <2>3. QED
    BY ZenonT(40), <2>1, <2>2 DEF BindSecret
<1>5. StoreType' /\ HistoryType'
  BY ZenonT(40), <1>1, <1>2, <1>3 DEF StoreType, HistoryType, history, stops
<1>6. GateInv' /\ FinishedIsTold' /\ ClaimInv'
  BY ZenonT(40), <1>1, <1>4, QuietGate, QuietClaims DEF logVars, busVars, memory, history
<1>7. ThreadInv'
  BY ZenonT(40), <1>1, <1>4 DEF ThreadInv
<1>8. QED
  BY ZenonT(40), <1>1, <1>4, <1>5, <1>6, <1>7, SameTypes, IInvPartsNext

\* Launching the action changes only the outside world and the job table.
LEMMA Launch_Inv ==
  ASSUME IInv, Launch
  PROVE  IInv'
<1> USE IInvParts
<1>1. UNCHANGED <<storeVars, logVars, busVars, mem, todo, history, bounds>>
      /\ pc = "launch" /\ cur \in Ops
  BY ZenonT(40) DEF Launch, ThreadInv
<1>2. job' \in [Ops -> {"queued", "running", "done", "lost"}]
  BY ZenonT(40), <1>1 DEF Launch, MemoryType
<1>3. worker' \subseteq Ops \X Tokens
  BY SMTT(60), <1>1 DEF Launch, MemoryType, StoreType
<1>4. /\ ControlType'
      /\ \/ pc' = "terminal" /\ cur' = cur
         \/ pc' \in {"up", "claims", "batch", "recover"}
  BY ZenonT(40), Moves DEF Launch, ControlType, Fail
<1>5. MemoryType'
  BY ZenonT(40), <1>1, <1>2, <1>3 DEF MemoryType
<1>6. GateInv' /\ FinishedIsTold' /\ ClaimInv'
  BY ZenonT(40), <1>1, <1>4, QuietGate, QuietClaims DEF storeVars, logVars, busVars, history
<1>7. ThreadInv'
  BY ZenonT(40), <1>1, <1>4 DEF ThreadInv
<1>8. QED
  BY ZenonT(40), <1>1, <1>4, <1>5, <1>6, <1>7, SameTypes, IInvPartsNext

\* The action's terminal event is not the operation's.
LEMMA AppendTerminal_Inv ==
  ASSUME IInv, AppendTerminal
  PROVE  IInv'
<1> USE IInvParts
<1>1. UNCHANGED <<storeVars, results, first, busVars, worker, mem, todo, history, stops>>
      /\ pc = "terminal" /\ cur \in Ops
  BY ZenonT(40) DEF AppendTerminal, ThreadInv
<1>2. acts' \in [Ops -> {"requested", "started", "closed"}]
  BY ZenonT(40) DEF AppendTerminal, LogType
<1>3. job' \in [Ops -> {"queued", "running", "done", "lost"}]
  BY ZenonT(40) DEF AppendTerminal, MemoryType
<1>4. faults' \in Nat
  BY ZenonT(40), FaultType DEF AppendTerminal, HistoryType
<1>5. /\ ControlType'
      /\ \/ pc' = "drive" /\ cur' = cur
         \/ pc' \in {"up", "claims", "batch", "recover", "refused"}
  <2>1. Return \/ Goto("drive") \/ Goto("refused")
    BY ZenonT(40) DEF AppendTerminal
  <2>2. QED
    BY ZenonT(40), <2>1, Moves DEF ControlType, Goto
<1>6. LogType' /\ MemoryType' /\ HistoryType'
  BY ZenonT(40), <1>1, <1>2, <1>3, <1>4 DEF LogType, MemoryType, HistoryType, history, stops
<1>7. GateInv' /\ FinishedIsTold' /\ ClaimInv'
  BY ZenonT(40), <1>1, <1>5, QuietGate, QuietClaims DEF storeVars, busVars, history
<1>8. ThreadInv'
  BY ZenonT(40), <1>1, <1>5 DEF ThreadInv
<1>9. QED
  BY ZenonT(40), <1>1, <1>5, <1>6, <1>7, <1>8, SameTypes, IInvPartsNext

\* Closing a record without a result tells exactly one truth about an
\* operation of which nothing was told.
LEMMA CloseGate ==
  ASSUME IInv, NEW o \in Ops, CloseWithoutResult(o), UNCHANGED results,
         pc \notin {"flip", "cflip"}, pc' \notin {"flip", "cflip"}
  PROVE  /\ StoreType' /\ GateInv' /\ FinishedIsTold'
         /\ lapse' \in [Ops -> SUBSET {"reducer", "deferred", "purged"}]
         /\ closed' \subseteq Ops
         /\ \A p \in Ops : timer'[p] \in {timer[p], 0} /\ lapse[p] \subseteq lapse'[p]
<1> USE IInvParts
<1>1. Finish(o) /\ closed' = IF store[o] = "running" THEN closed \cup {o} ELSE closed
  BY ZenonT(40) DEF CloseWithoutResult
<1>2. /\ StoreType' /\ lapse' \in [Ops -> SUBSET {"reducer", "deferred", "purged"}]
      /\ \A p \in Ops : timer'[p] \in {timer[p], 0}
      /\ \A p \in Ops \ {o} : Kept(p) \/ (store[p] = "finished" /\ Dropped(p))
      /\ store[o] # "running" => Kept(o)
      /\ store[o] = "running" =>
           (store'[o] = "finished" /\ lapse'[o] = lapse[o]) \/ Dropped(o)
  BY ZenonT(40), <1>1, FinishEffect
<1>3. \A p \in Ops : lapse[p] \subseteq lapse'[p]
  BY <1>2 DEF Kept, Dropped
<1>4. results \in [Ops -> Nat]
  BY ZenonT(40) DEF LogType
<1>5. \A p \in Ops \ {o} : Truths(p)' = Truths(p)
  BY ZenonT(40), <1>1 DEF Truths
<1>6. store[o] # "running" => Truths(o)' = Truths(o)
  BY ZenonT(40), <1>1 DEF Truths
<1>7. store[o] = "running" => Truths(o)' = results[o] + 1
  BY ZenonT(40), <1>1 DEF Truths
<1>8. GateInv'
  <2>1. SUFFICES ASSUME NEW p \in Ops, lapse'[p] = {}
                 PROVE  \/ Truths(p)' = 0 /\ store'[p] # "finished" /\ ~Telling(p)'
                        \/ Truths(p)' = 1 /\ store'[p] = "finished" /\ ~Telling(p)'
    BY ZenonT(40) DEF GateInv
  <2>2. ~Telling(p) /\ ~Telling(p)'
    BY ZenonT(40) DEF Telling
  <2>3. lapse[p] = {} /\ ~Dropped(p)
    BY ZenonT(40), <2>1, <1>3 DEF Dropped
  <2>4. \/ Truths(p) = 0 /\ store[p] # "finished"
        \/ Truths(p) = 1 /\ store[p] = "finished"
    BY ZenonT(40), <2>2, <2>3 DEF GateInv
  <2>5. CASE p # o \/ store[o] # "running"
    BY ZenonT(40), <2>5, <2>2, <2>3, <2>4, <1>2, <1>5, <1>6 DEF Kept
  <2>6. CASE p = o /\ store[o] = "running"
    <3>1. results[o] = 0
      BY SMTT(60), <2>6, <2>4, <1>4 DEF Truths
    <3>2. QED
      BY <3>1, <2>6, <2>2, <2>3, <1>2, <1>7
  <2>7. QED
    BY ZenonT(40), <2>5, <2>6
<1>9. FinishedIsTold'
  BY <1>2, <1>4, <1>5, <1>6, <1>7 DEF FinishedIsTold, Kept, Dropped
<1>10. closed' \subseteq Ops
  BY ZenonT(40), <1>1 DEF HistoryType
<1>11. QED
  BY ZenonT(40), <1>2, <1>3, <1>8, <1>9, <1>10

\* rt_operation_driver_on_terminal keeps the invariant in each of its exits.
LEMMA Drive_Inv ==
  ASSUME IInv, Drive
  PROVE  IInv'
<1> USE IInvParts
<1>1. UNCHANGED <<logVars, busVars, worker, memory, stops>> /\ pc = "drive"
      /\ cur \in Ops
  BY ZenonT(40) DEF Drive, ThreadInv
<1>2. ASSUME Return
      PROVE  ControlType' /\ ThreadInv' /\ pc' \notin {"flip", "cflip"}
  BY ZenonT(40), <1>2, Moves, QuietThread DEF ControlType
<1>3. CASE Return /\ UNCHANGED <<storeVars, history>> /\ faults' \in Nat
  <2>1. GateInv' /\ FinishedIsTold' /\ ClaimInv'
    BY ZenonT(40), <1>1, <1>2, <1>3, QuietGate, QuietClaims
       DEF storeVars, logVars, busVars, memory, history
  <2>2. HistoryType'
    BY ZenonT(40), <1>1, <1>3 DEF HistoryType, history, stops
  <2>3. QED
    BY ZenonT(40), <1>1, <1>2, <1>3, <2>1, <2>2, SameTypes, IInvPartsNext
<1>4. CASE Return /\ CloseWithoutResult(cur) /\ UNCHANGED faults
  <2>1. /\ StoreType' /\ GateInv' /\ FinishedIsTold'
        /\ lapse' \in [Ops -> SUBSET {"reducer", "deferred", "purged"}]
        /\ closed' \subseteq Ops
        /\ \A p \in Ops : timer'[p] \in {timer[p], 0} /\ lapse[p] \subseteq lapse'[p]
    BY ZenonT(40), <1>1, <1>2, <1>4, CloseGate DEF logVars
  <2>2. ClaimInv'
    BY ZenonT(40), <1>1, <2>1, QuietClaims DEF logVars, busVars, memory
  <2>3. HistoryType'
    BY ZenonT(40), <1>1, <1>4, <2>1 DEF HistoryType, stops
  <2>4. QED
    BY ZenonT(40), <1>1, <1>2, <1>4, <2>1, <2>2, <2>3, SameTypes, IInvPartsNext
<1>5. CASE /\ store[cur] = "none" /\ Insert(cur) /\ Goto("bind")
           /\ UNCHANGED <<closed, faults>>
  BY ZenonT(40), <1>1, <1>5, Insert_Inv
<1>6. CASE /\ handle' = [handle EXCEPT ![cur] = TRUE] /\ UNCHANGED faults
           /\ Return /\ UNCHANGED <<store, birth, births, token, timer, history>>
  <2>1. StoreType'
    BY ZenonT(40), <1>6 DEF StoreType
  <2>2. HistoryType'
    BY ZenonT(40), <1>1, <1>6 DEF HistoryType, history, stops
  <2>3. GateInv' /\ FinishedIsTold' /\ ClaimInv'
    BY ZenonT(40), <1>1, <1>2, <1>6, QuietGate, QuietClaims DEF logVars, busVars, memory, history
  <2>4. QED
    BY ZenonT(40), <1>1, <1>2, <1>6, <2>1, <2>2, <2>3, SameTypes, IInvPartsNext
<1>7. CASE /\ store[cur] = "running" /\ Goto("result")
           /\ UNCHANGED <<storeVars, history, faults>>
  <2>1. ControlType' /\ pc' = "result" /\ cur' = cur
    BY ZenonT(40), <1>7, Moves DEF Goto
  <2>2. ThreadInv'
    BY ZenonT(40), <1>1, <1>7, <2>1 DEF ThreadInv, storeVars
  <2>3. GateInv' /\ FinishedIsTold' /\ ClaimInv'
    BY ZenonT(40), <1>1, <1>7, <2>1, QuietGate, QuietClaims
       DEF storeVars, logVars, busVars, memory, history
  <2>4. HistoryType'
    BY ZenonT(40), <1>1, <1>7 DEF HistoryType, history, stops
  <2>5. QED
    BY ZenonT(40), <1>1, <1>7, <2>1, <2>2, <2>3, <2>4, SameTypes, IInvPartsNext
<1>8. Fault("store") => faults' \in Nat
  BY ZenonT(40), FaultType
<1>9. faults \in Nat
  BY ZenonT(40) DEF HistoryType
<1>10. UNCHANGED <<store, birth, births, token, timer, history>> /\ UNCHANGED handle
       => UNCHANGED <<storeVars, history>>
  BY ZenonT(40) DEF storeVars
<1>11. QED
  BY ZenonT(40), <1>3, <1>4, <1>5, <1>6, <1>7, <1>8, <1>9, <1>10 DEF Drive

\* terminalize_in_run: the result is the first truth of a running record.
LEMMA AppendResult_Inv ==
  ASSUME IInv, AppendResult
  PROVE  IInv'
<1> USE IInvParts
<1>1. UNCHANGED <<storeVars, acts, first, busVars, worker, memory, closed, stops>>
      /\ pc = "result" /\ cur \in Ops /\ store[cur] = "running"
  BY ZenonT(40) DEF AppendResult, ThreadInv
<1>2. results' \in [Ops -> Nat]
  BY <1>1 DEF AppendResult, LogType
<1>3. lapse' \in [Ops -> SUBSET {"reducer", "deferred", "purged"}]
      /\ \A p \in Ops : lapse[p] \subseteq lapse'[p]
  BY ZenonT(40), <1>1 DEF AppendResult, HistoryType
<1>4. faults' \in Nat
  BY ZenonT(40), FaultType DEF AppendResult, HistoryType
<1>5. ClaimInv'
  BY ZenonT(40), <1>1, <1>3, QuietClaims DEF storeVars, busVars, memory
<1>6. LogType' /\ HistoryType'
  BY ZenonT(40), <1>1, <1>2, <1>3, <1>4 DEF LogType, HistoryType, stops
<1>7. CASE /\ results' = [results EXCEPT ![cur] = @ + 1]
           /\ Goto("flip") /\ UNCHANGED <<lapse, faults>>
  <2>1. ControlType' /\ pc' = "flip" /\ cur' = cur
    BY ZenonT(40), <1>7, Moves DEF Goto
  <2>2. results'[cur] = results[cur] + 1 /\ \A p \in Ops \ {cur} : results'[p] = results[p]
    BY ZenonT(40), <1>1, <1>7 DEF LogType
  <2>3. ThreadInv'
    BY <1>1, <2>1, <2>2 DEF ThreadInv, LogType
  <2>4. GateInv' /\ FinishedIsTold'
    BY <1>1, <1>7, <2>1, <2>2
       DEF GateInv, FinishedIsTold, Truths, Telling, LogType, storeVars
  <2>5. QED
    BY ZenonT(40), <1>1, <1>5, <1>6, <2>1, <2>3, <2>4, SameTypes, IInvPartsNext
<1>8. CASE Return /\ UNCHANGED <<results, lapse>>
  <2>1. ControlType' /\ ThreadInv' /\ pc' \notin {"flip", "cflip"}
    BY ZenonT(40), <1>8, Moves, QuietThread DEF ControlType
  <2>2. GateInv' /\ FinishedIsTold'
    BY ZenonT(40), <1>1, <1>8, <2>1, QuietGate DEF storeVars
  <2>3. QED
    BY ZenonT(40), <1>1, <1>5, <1>6, <2>1, <2>2, SameTypes, IInvPartsNext
<1>9. CASE /\ Return /\ results' = [results EXCEPT ![cur] = @ + 1]
           /\ lapse' = [lapse EXCEPT ![cur] = @ \cup {"reducer"}]
  <2>1. ControlType' /\ ThreadInv' /\ pc' \notin {"flip", "cflip"}
    BY ZenonT(40), <1>9, Moves, QuietThread DEF ControlType
  <2>2. results'[cur] = results[cur] + 1 /\ \A p \in Ops \ {cur} : results'[p] = results[p]
    BY ZenonT(40), <1>1, <1>9 DEF LogType
  <2>3. lapse'[cur] # {} /\ \A p \in Ops \ {cur} : lapse'[p] = lapse[p]
    BY ZenonT(40), <1>1, <1>9 DEF HistoryType
  <2>4. GateInv' /\ FinishedIsTold'
    BY ZenonT(40), <1>1, <2>1, <2>2, <2>3
       DEF GateInv, FinishedIsTold, Truths, Telling, LogType, storeVars
  <2>5. QED
    BY ZenonT(40), <1>1, <1>5, <1>6, <2>1, <2>4, SameTypes, IInvPartsNext
<1>10. QED
  BY ZenonT(40), <1>7, <1>8, <1>9 DEF AppendResult

\* The reducer shuts the gate of the operation just told.
LEMMA FinishGate ==
  ASSUME IInv, NEW o \in Ops, Finish(o), Telling(o), \A p \in Ops \ {o} : ~Telling(p),
         results[o] > 0, UNCHANGED <<results, closed>>, pc' \notin {"flip", "cflip"}
  PROVE  /\ StoreType' /\ GateInv' /\ FinishedIsTold'
         /\ lapse' \in [Ops -> SUBSET {"reducer", "deferred", "purged"}]
         /\ \A p \in Ops : timer'[p] \in {timer[p], 0} /\ lapse[p] \subseteq lapse'[p]
<1> USE IInvParts
<1>1. /\ StoreType' /\ lapse' \in [Ops -> SUBSET {"reducer", "deferred", "purged"}]
      /\ \A p \in Ops : timer'[p] \in {timer[p], 0}
      /\ \A p \in Ops \ {o} : Kept(p) \/ (store[p] = "finished" /\ Dropped(p))
      /\ store[o] # "running" => Kept(o)
      /\ store[o] = "running" =>
           (store'[o] = "finished" /\ lapse'[o] = lapse[o]) \/ Dropped(o)
  BY ZenonT(40), FinishEffect
<1>2. \A p \in Ops : Truths(p)' = Truths(p) /\ ~Telling(p)'
  BY ZenonT(40) DEF Truths, Telling
<1>3. \A p \in Ops : lapse[p] \subseteq lapse'[p]
  BY ZenonT(40), <1>1 DEF Kept, Dropped
<1>4. Truths(o) > 0
  BY DEF Truths, LogType
<1>5. GateInv'
  BY SMTT(60), <1>1, <1>2, <1>3 DEF GateInv, Kept, Dropped
<1>6. FinishedIsTold'
  BY SMTT(60), <1>1, <1>2, <1>4 DEF FinishedIsTold, Kept, Dropped, Truths, LogType
<1>7. QED
  BY ZenonT(40), <1>1, <1>3, <1>5, <1>6

\* A reducer that fails leaves the gate open, and that is a lapse.
LEMMA MissGate ==
  ASSUME IInv, NEW o \in Ops, \A p \in Ops \ {o} : ~Telling(p),
         UNCHANGED <<store, results, closed>>, pc' \notin {"flip", "cflip"},
         lapse' = [lapse EXCEPT ![o] = @ \cup {"reducer"}]
  PROVE  /\ GateInv' /\ FinishedIsTold'
         /\ lapse' \in [Ops -> SUBSET {"reducer", "deferred", "purged"}]
         /\ \A p \in Ops : lapse[p] \subseteq lapse'[p]
<1> USE IInvParts
<1>1. lapse'[o] = lapse[o] \cup {"reducer"} /\ \A p \in Ops \ {o} : lapse'[p] = lapse[p]
  BY ZenonT(40) DEF HistoryType
<1>2. lapse' \in [Ops -> SUBSET {"reducer", "deferred", "purged"}]
  BY ZenonT(40) DEF HistoryType
<1>3. GateInv' /\ FinishedIsTold'
  BY ZenonT(40), <1>1 DEF GateInv, FinishedIsTold, Truths, Telling
<1>4. QED
  BY ZenonT(40), <1>1, <1>2, <1>3

\* The reducer after the producing run's result.
LEMMA Flip_Inv ==
  ASSUME IInv, Flip
  PROVE  IInv'
<1> USE IInvParts
<1>1. UNCHANGED <<logVars, busVars, worker, memory, closed, stops>>
      /\ pc = "flip" /\ cur \in Ops /\ results[cur] > 0 /\ Return
  BY ZenonT(40) DEF Flip, ThreadInv
<1>2. ControlType' /\ ThreadInv' /\ pc' \notin {"flip", "cflip"}
  BY ZenonT(40), <1>1, Moves, QuietThread DEF ControlType
<1>3. Telling(cur) /\ \A p \in Ops \ {cur} : ~Telling(p)
  BY ZenonT(40), <1>1 DEF Telling
<1>4. faults' \in Nat
  BY ZenonT(40), FaultType DEF Flip, HistoryType
<1>5. /\ StoreType' /\ GateInv' /\ FinishedIsTold'
      /\ lapse' \in [Ops -> SUBSET {"reducer", "deferred", "purged"}]
      /\ \A p \in Ops : timer'[p] \in {timer[p], 0} /\ lapse[p] \subseteq lapse'[p]
  <2>1. CASE Finish(cur)
    BY ZenonT(40), <1>1, <1>2, <1>3, <2>1, FinishGate DEF logVars
  <2>2. CASE /\ UNCHANGED storeVars
             /\ lapse' = [lapse EXCEPT ![cur] = @ \cup {"reducer"}]
    BY ZenonT(40), <1>1, <1>2, <1>3, <2>2, MissGate, SameTypes DEF logVars, storeVars
  <2>3. QED
    BY ZenonT(40), <2>1, <2>2 DEF Flip
<1>6. ClaimInv'
  BY ZenonT(40), <1>1, <1>5, QuietClaims DEF logVars, busVars, memory
<1>7. HistoryType'
  BY ZenonT(40), <1>1, <1>4, <1>5 DEF HistoryType, stops
<1>8. QED
  BY ZenonT(40), <1>1, <1>2, <1>5, <1>6, <1>7, SameTypes, IInvPartsNext

-----------------------------------------------------------------------------
(* Claims *)

\* Publishing under a fresh id leaves every other envelope alone.
LEMMA FreshClaim ==
  ASSUME IInv, NEW o \in Ops, NEW tok \in Tokens, sent < MaxClaims, sent' = sent + 1,
         Publish(sent + 1, o, "worker", tok),
         UNCHANGED <<storeVars, logVars, worker, memory, control, history, bounds>>
  PROVE  IInv'
<1> USE IInvParts
<1>1. sent + 1 \in Claims /\ sent \in Nat
  BY OperationAssumption DEF BusType
<1>2. env[sent + 1] = NoClaim /\ crun[sent + 1] = "none"
  BY SMTT(60), <1>1 DEF ClaimInv
<1>3. /\ \A c \in Claims \ {sent + 1} : env'[c] = env[c]
      /\ env'[sent + 1] = [op |-> o, cause |-> "worker", tok |-> tok]
  BY ZenonT(40), <1>1 DEF Publish, BusType
<1>4. BusType'
  <2>1. env' \in [Claims -> [op : Ops \cup {Nobody},
                             cause : {"none", "worker", "timeout"}, tok : Tokens]]
    BY ZenonT(40), <1>1 DEF Publish, BusType
  <2>2. QED
    BY <1>1, <2>1 DEF Publish, BusType
<1>5. \A c \in Claims : crun[c] = "live" => env'[c] = env[c]
  BY ZenonT(40), <1>2, <1>3
<1>6. /\ pc \in {"admit", "commit", "cflip"} =>
           claim # sent + 1 /\ env'[claim] = env[claim]
      /\ inbox' = inbox \cup {sent + 1} /\ processed' = processed /\ crun' = crun
  BY SMTT(60), <1>1, <1>2, <1>3, OperationAssumption DEF ThreadInv, NoClaim, Publish
<1>7. GateInv' /\ FinishedIsTold'
  BY ZenonT(40), <1>6 DEF GateInv, FinishedIsTold, Truths, Telling, storeVars, logVars,
              control, history
<1>8. ThreadInv'
  BY ZenonT(40), <1>6 DEF ThreadInv, storeVars, logVars, control, history
<1>9. ClaimInv'
  <2>1. UNCHANGED <<pc, claim, mem, first, lapse, timer>>
    BY ZenonT(40) DEF storeVars, logVars, memory, control, history
  <2>2. \A c \in Claims :
          /\ c > sent' => env'[c] = NoClaim /\ crun'[c] = "none"
          /\ c \in inbox' \cup processed' \/ crun'[c] = "live" => env'[c].op \in Ops
    <3> SUFFICES ASSUME NEW c \in Claims
                 PROVE  /\ c > sent' => env'[c] = NoClaim /\ crun'[c] = "none"
                        /\ c \in inbox' \cup processed' \/ crun'[c] = "live"
                             => env'[c].op \in Ops
      BY ZenonT(40)
    <3>1. CASE c = sent + 1
      BY <1>1, <1>3, <3>1 DEF Publish
    <3>2. CASE c # sent + 1
      <4>1. env'[c] = env[c] /\ crun'[c] = crun[c]
        BY ZenonT(40), <1>3, <1>6, <3>2
      <4>2. c > sent' => c > sent
        BY <1>1 DEF Publish
      <4>3. c \in inbox' \cup processed' => c \in inbox \cup processed
        BY ZenonT(40), <1>6, <3>2
      <4>4. QED
        BY ZenonT(40), <4>1, <4>2, <4>3, ClaimFacts
    <3>3. QED
      BY ZenonT(40), <3>1, <3>2
  <2>3. \A c \in Claims :
          /\ mem'[c] # "none" => crun'[c] = "live"
          /\ mem'[c] = "waiting" => first'[c] = "none" \/ (pc' = "cflip" /\ claim' = c)
          /\ crun'[c] = "live" /\ first'[c] = "none" =>
               (pc' = "commit" /\ claim' = c) \/ "deferred" \in lapse'[env'[c].op]
    BY ZenonT(40), <1>5, <1>6, <2>1 DEF ClaimInv
  <2>4. \A p \in Ops : /\ timer'[p] <= sent'
                       /\ timer'[p] # 0 => env'[timer'[p]].op \in {Nobody, p}
    <3> SUFFICES ASSUME NEW p \in Ops
                 PROVE  /\ timer'[p] <= sent'
                        /\ timer'[p] # 0 => env'[timer'[p]].op \in {Nobody, p}
      BY ZenonT(40)
    <3>1. timer'[p] = timer[p] /\ timer[p] \in Nat /\ timer[p] <= sent
      BY <2>1, ClaimFacts DEF StoreType
    <3>2. timer'[p] <= sent'
      BY <1>1, <3>1
    <3>3. timer[p] # 0 => env'[timer[p]] = env[timer[p]]
      BY <1>1, <1>3, <3>1, OperationAssumption
    <3>4. QED
      BY ZenonT(40), <3>1, <3>2, <3>3, ClaimFacts
  <2>5. QED
    BY ZenonT(40), <2>1, <2>2, <2>3, <2>4 DEF ClaimInv
<1>10. QED
  BY ZenonT(40), <1>4, <1>7, <1>8, <1>9, SameTypes, IInvPartsNext

\* A detached worker's claim is a fresh envelope for a known operation.
LEMMA WorkerClaim_Inv ==
  ASSUME IInv, NEW w \in worker, WorkerClaim(w)
  PROVE  IInv'
<1>1. w[1] \in Ops /\ w[2] \in Tokens
  BY ZenonT(40), IInvParts DEF MemoryType
<1>2. QED
  BY ZenonT(40), <1>1, FreshClaim DEF WorkerClaim

\* So is an abort's, under the record's own token.
LEMMA AbortClaim_Inv ==
  ASSUME IInv, NEW o \in Ops, AbortClaim(o)
  PROVE  IInv'
<1>1. token[o] \in Tokens
  BY ZenonT(40), IInvParts DEF StoreType
<1>2. QED
  BY ZenonT(40), <1>1, FreshClaim DEF AbortClaim

\* publish_timeout_claim binds an id no envelope and no other record has.
LEMMA PumpReserve_Inv ==
  ASSUME IInv, NEW o \in Ops, PumpReserve(o)
  PROVE  IInv'
<1> USE IInvParts
<1>1. UNCHANGED <<store, birth, births, token, handle, logVars, env, inbox,
                  processed, crun, worker, memory, history, stops>>
      /\ pc = "up" /\ sent < MaxClaims /\ sent' = sent + 1
  BY ZenonT(40) DEF PumpReserve
<1>2. sent + 1 \in Claims /\ sent \in Nat
  BY <1>1, OperationAssumption DEF BusType
<1>3. env[sent + 1] = NoClaim
  BY <1>2 DEF ClaimInv
<1>4. timer' \in [Ops -> 0..MaxClaims]
  BY <1>2 DEF PumpReserve, StoreType
<1>5. faults' \in Nat
  BY ZenonT(40), FaultType DEF PumpReserve, HistoryType
<1>6. StoreType' /\ BusType' /\ HistoryType'
  BY SMTT(60), <1>1, <1>2, <1>4, <1>5 DEF StoreType, BusType, HistoryType, history, stops
<1>7. /\ \A p \in Ops \ {o} : timer'[p] = timer[p]
      /\ timer'[o] \in {timer[o], sent + 1}
      /\ ControlType' /\ pc' \in {"up", "pump"}
      /\ pc' = "pump" => cur' \in Ops /\ timer'[cur'] # 0
  <2>1. CASE timer' = [timer EXCEPT ![o] = sent + 1] /\ Call("pump", o, "none", "up")
    BY <1>2, <2>1 DEF StoreType, ControlType, Call
  <2>2. CASE UNCHANGED <<timer, control>>
    BY ZenonT(40), <1>1, <2>2, SameTypes DEF control
  <2>3. QED
    BY ZenonT(40), <2>1, <2>2 DEF PumpReserve
<1>8. GateInv' /\ FinishedIsTold'
  BY ZenonT(40), <1>1, <1>7, QuietGate DEF logVars, history
<1>9. ThreadInv'
  BY ZenonT(40), <1>1, <1>7 DEF ThreadInv
<1>10. ClaimInv'
  <2>1. \A p \in Ops : timer[p] # sent + 1
    BY SMTT(60), <1>2 DEF ClaimInv, StoreType
  <2>2. UNCHANGED <<mem, first, lapse>>
    BY ZenonT(40), <1>1 DEF logVars, memory, history
  <2>3. \A c \in Claims :
          /\ c > sent' => env'[c] = NoClaim /\ crun'[c] = "none"
          /\ c \in inbox' \cup processed' \/ crun'[c] = "live" => env'[c].op \in Ops
          /\ mem'[c] # "none" => crun'[c] = "live"
          /\ mem'[c] = "waiting" => first'[c] = "none"
          /\ crun'[c] = "live" /\ first'[c] = "none" => "deferred" \in lapse'[env'[c].op]
    BY SMTT(60), <1>1, <1>2, <2>2 DEF ClaimInv
  <2>4. \A p \in Ops : /\ timer'[p] <= sent'
                       /\ timer'[p] # 0 => env'[timer'[p]].op \in {Nobody, p}
    BY SMTT(60), <1>1, <1>2, <1>3, <1>7 DEF ClaimInv, StoreType, NoClaim
  <2>5. \A p, q \in Ops : timer'[p] = timer'[q] /\ timer'[p] # 0 => p = q
    BY SMTT(60), <1>7, <2>1 DEF ClaimInv
  <2>6. QED
    BY ZenonT(40), <2>3, <2>4, <2>5 DEF ClaimInv
<1>11. QED
  BY ZenonT(40), <1>1, <1>6, <1>7, <1>8, <1>9, <1>10, SameTypes, IInvPartsNext

\* A deadline that is due again reuses the id its record holds.
LEMMA PumpAgain_Inv ==
  ASSUME IInv, NEW o \in Ops, PumpAgain(o)
  PROVE  IInv'
<1> USE IInvParts
<1>1. UNCHANGED <<storeVars, logVars, busVars, worker, memory, history, bounds>>
      /\ pc = "up" /\ timer[o] # 0 /\ Call("pump", o, "none", "up")
  BY ZenonT(40) DEF PumpAgain
<1>2. ControlType' /\ pc' = "pump" /\ cur' = o
  BY ZenonT(40), <1>1 DEF Call, ControlType
<1>3. ThreadInv'
  BY ZenonT(40), <1>1, <1>2 DEF ThreadInv, storeVars
<1>4. GateInv' /\ FinishedIsTold' /\ ClaimInv'
  BY ZenonT(40), <1>1, <1>2, QuietGate, QuietClaims DEF storeVars, logVars, busVars, memory, history
<1>5. QED
  BY ZenonT(40), <1>1, <1>2, <1>3, <1>4, SameTypes, IInvPartsNext

\* Publishing the bound id, even again, never gives an envelope another
\* operation.
LEMMA PumpPublish_Inv ==
  ASSUME IInv, PumpPublish
  PROVE  IInv'
<1> USE IInvParts
<1>1. UNCHANGED <<storeVars, logVars, worker, memory, history, stops>>
      /\ pc = "pump" /\ cur \in Ops /\ timer[cur] # 0 /\ Return
  BY ZenonT(40) DEF PumpPublish, ThreadInv
<1>2. ControlType' /\ ThreadInv' /\ pc' \notin {"flip", "cflip"}
  BY ZenonT(40), <1>1, Moves, QuietThread DEF ControlType
<1>3. GateInv' /\ FinishedIsTold'
  BY ZenonT(40), <1>1, <1>2, QuietGate DEF storeVars, logVars, history
<1>4. faults' \in Nat
  BY ZenonT(40), FaultType DEF PumpPublish, HistoryType
<1>5. HistoryType'
  BY ZenonT(40), <1>1, <1>4 DEF HistoryType, history, stops
<1>6. CASE Publish(timer[cur], cur, "timeout", token[cur]) /\ UNCHANGED sent
  <2>1. timer[cur] \in Claims /\ token[cur] \in Tokens /\ timer[cur] <= sent
    BY SMTT(60), <1>1, OperationAssumption DEF StoreType, ClaimInv
  <2>2. /\ \A c \in Claims \ {timer[cur]} : env'[c] = env[c]
        /\ env'[timer[cur]] = [op |-> cur, cause |-> "timeout", tok |-> token[cur]]
        /\ inbox' = inbox \cup {timer[cur]} /\ processed' = processed /\ crun' = crun
    BY ZenonT(40), <1>6, <2>1 DEF Publish, BusType
  <2>3. BusType'
    <3>1. env' \in [Claims -> [op : Ops \cup {Nobody},
                               cause : {"none", "worker", "timeout"}, tok : Tokens]]
      BY ZenonT(40), <1>1, <1>6, <2>1 DEF Publish, BusType
    <3>2. QED
      BY ZenonT(40), <1>6, <2>1, <2>2, <3>1 DEF BusType
  <2>4. UNCHANGED <<mem, first, lapse, timer>>
    BY ZenonT(40), <1>1 DEF storeVars, logVars, memory, history
  <2>5. \A c \in Claims : env[c].op \in Ops => env'[c].op = env[c].op
    BY SMTT(60), <1>1, <2>1, <2>2, OperationAssumption DEF ClaimInv
  <2>6. ClaimInv'
    <3>1. \A c \in Claims :
          /\ c > sent' => env'[c] = NoClaim /\ crun'[c] = "none"
          /\ c \in inbox' \cup processed' \/ crun'[c] = "live" => env'[c].op \in Ops
      <4>1. \A c \in Claims : c > sent' => env'[c] = NoClaim /\ crun'[c] = "none"
        BY SMTT(60), <1>6, <2>1, <2>2 DEF ClaimInv, BusType
      <4>2. \A c \in Claims :
              c \in inbox' \cup processed' \/ crun'[c] = "live" => env'[c].op \in Ops
        <5> SUFFICES ASSUME NEW c \in Claims,
                            c \in inbox' \cup processed' \/ crun'[c] = "live"
                     PROVE  env'[c].op \in Ops
          BY ZenonT(40)
        <5>1. CASE c = timer[cur]
          BY <1>1, <2>2, <5>1
        <5>2. CASE c # timer[cur]
          <6>1. c \in inbox \cup processed \/ crun[c] = "live"
            BY ZenonT(40), <2>2, <5>2
          <6>2. QED
            BY ZenonT(40), <2>5, <6>1, ClaimFacts
        <5>3. QED
          BY ZenonT(40), <5>1, <5>2
      <4>3. QED
        BY ZenonT(40), <4>1, <4>2
    <3>2. \A c \in Claims :
          /\ mem'[c] # "none" => crun'[c] = "live"
          /\ mem'[c] = "waiting" => first'[c] = "none"
          /\ crun'[c] = "live" /\ first'[c] = "none" => "deferred" \in lapse'[env'[c].op]
      BY ZenonT(40), <1>1, <2>2, <2>4, <2>5 DEF ClaimInv
    <3>3. \A p \in Ops : /\ timer'[p] <= sent'
                         /\ timer'[p] # 0 => env'[timer'[p]].op \in {Nobody, p}
      BY SMTT(60), <1>1, <1>6, <2>2, <2>4, OperationAssumption DEF ClaimInv, StoreType
    <3>4. QED
      BY ZenonT(40), <2>4, <3>1, <3>2, <3>3 DEF ClaimInv
  <2>7. QED
    BY ZenonT(40), <1>1, <1>2, <1>3, <1>5, <2>3, <2>6, SameTypes, IInvPartsNext
<1>7. CASE UNCHANGED busVars
  <2>1. ClaimInv'
    BY ZenonT(40), <1>1, <1>7, QuietClaims DEF storeVars, logVars, busVars, memory, history
  <2>2. QED
    BY ZenonT(40), <1>1, <1>2, <1>3, <1>5, <1>7, <2>1, SameTypes, IInvPartsNext
<1>8. QED
  BY ZenonT(40), <1>6, <1>7 DEF PumpPublish

-----------------------------------------------------------------------------
(* Intake *)

\* A step of the loops that leaves the disk alone.
LEMMA Loop_Inv ==
  ASSUME IInv, pc \in {"up", "claims", "batch", "down", "recover"},
         pc' \in {"up", "claims", "batch", "recover"},
         UNCHANGED <<storeVars, logVars, busVars, worker, job, mem, history, bounds>>,
         ControlType', todo' \subseteq Claims
  PROVE  IInv'
<1> USE IInvParts
<1>1. GateInv' /\ FinishedIsTold' /\ ClaimInv'
  BY ZenonT(40), QuietGate, QuietClaims DEF storeVars, logVars, busVars, history
<1>2. MemoryType'
  BY ZenonT(40) DEF MemoryType
<1>3. ThreadInv'
  BY ZenonT(40), QuietThread
<1>4. QED
  BY ZenonT(40), <1>1, <1>2, <1>3, SameTypes, IInvPartsNext

\* Intake begins by listing the claim runs that wait for their first event.
LEMMA BeginIntake_Inv ==
  ASSUME IInv, BeginIntake
  PROVE  IInv'
<1>1. ControlType' /\ pc' = "claims"
  BY ZenonT(40), IInvParts, Moves DEF BeginIntake, Goto
<1>2. QED
  BY ZenonT(40), <1>1, Loop_Inv DEF BeginIntake

\* After the retries the thread turns to the inbox.
LEMMA EndRetries_Inv ==
  ASSUME IInv, EndRetries
  PROVE  IInv'
<1>1. ControlType' /\ pc' = "batch"
  BY ZenonT(40), IInvParts, Moves DEF EndRetries, Goto
<1>2. QED
  BY ZenonT(40), <1>1, Loop_Inv, IInvParts DEF EndRetries, memory, MemoryType

\* A batch ends with the thread back in the reactor loop.
LEMMA EndBatch_Inv ==
  ASSUME IInv, EndBatch
  PROVE  IInv'
<1>1. ControlType' /\ pc' = "up"
  BY ZenonT(40), IInvParts DEF EndBatch, ControlType
<1>2. QED
  BY ZenonT(40), <1>1, Loop_Inv, IInvParts DEF EndBatch, memory, MemoryType

\* A start enters recovery with the disk as it was left.
LEMMA Boot_Inv ==
  ASSUME IInv, Boot
  PROVE  IInv'
<1>1. ControlType' /\ pc' = "recover"
  BY ZenonT(40), IInvParts, Moves DEF Boot, Goto
<1>2. QED
  BY ZenonT(40), <1>1, Loop_Inv, IInvParts DEF Boot, memory, MemoryType

\* Recovery over, the reactor loop begins.
LEMMA EndRecovery_Inv ==
  ASSUME IInv, EndRecovery
  PROVE  IInv'
<1>1. ControlType' /\ pc' = "up"
  BY ZenonT(40), IInvParts DEF EndRecovery, ControlType
<1>2. QED
  BY ZenonT(40), <1>1, Loop_Inv, IInvParts DEF EndRecovery, memory, MemoryType

\* A claim run whose first event is missing goes back to the commit; its
\* operation has the lapse "deferred".
LEMMA CallCommit ==
  ASSUME IInv, pc \in {"claims", "recover"}, NEW c \in Claims,
         crun[c] = "live", first[c] = "none",
         UNCHANGED <<storeVars, env, crun, history>>,
         NEW returnTo \in {"claims", "recover"}, CallFor("commit", c, returnTo)
  PROVE  ControlType' /\ ThreadInv' /\ pc' = "commit" /\ claim' = c
<1> USE IInvParts
<1>1. ControlType' /\ pc' = "commit" /\ claim' = c /\ cur' = cur
  BY DEF CallFor, ControlType
<1>2. env[c].op \in Ops /\ "deferred" \in lapse[env[c].op]
  BY ZenonT(40) DEF ClaimInv
<1>3. ThreadInv'
  BY ZenonT(40), <1>1, <1>2 DEF ThreadInv, storeVars, history
<1>4. QED
  BY ZenonT(40), <1>1, <1>3

\* retry_waiting_inbound_claims goes back to the commit of a deferred claim
\* only.
LEMMA RetryClaim_Inv ==
  ASSUME IInv, NEW c \in Claims, RetryClaim(c)
  PROVE  IInv'
<1> USE IInvParts
<1>1. UNCHANGED <<storeVars, logVars, busVars, worker, job, mem, history, bounds>>
      /\ pc = "claims" /\ todo' = todo \ {c}
  BY ZenonT(40) DEF RetryClaim
<1>2. CASE UNCHANGED control
  BY ZenonT(40), <1>1, <1>2, Loop_Inv, SameTypes DEF control, MemoryType
<1>3. CASE mem[c] = "waiting" /\ CallFor("commit", c, "claims")
  <2>1. crun[c] = "live" /\ first[c] = "none"
    BY ZenonT(40), <1>1, <1>3 DEF ClaimInv
  <2>2. ControlType' /\ ThreadInv' /\ pc' = "commit"
    BY ZenonT(40), <1>1, <1>3, <2>1, CallCommit DEF busVars
  <2>3. GateInv' /\ FinishedIsTold' /\ ClaimInv'
    BY ZenonT(40), <1>1, <2>2, QuietGate, QuietClaims DEF storeVars, logVars, busVars, history
  <2>4. MemoryType'
    BY ZenonT(40), <1>1 DEF MemoryType
  <2>5. QED
    BY ZenonT(40), <1>1, <2>2, <2>3, <2>4, SameTypes, IInvPartsNext
<1>4. QED
  BY ZenonT(40), <1>2, <1>3 DEF RetryClaim

\* bus_drain_inbox moves an envelope; it still names its operation.
LEMMA Take_Inv ==
  ASSUME IInv, Take
  PROVE  IInv'
<1> USE IInvParts
<1>1. UNCHANGED <<storeVars, logVars, env, sent, crun, worker, memory, history, bounds>>
      /\ pc = "batch"
  BY ZenonT(40) DEF Take
<1>2. PICK c \in inbox :
        /\ inbox' = inbox \ {c} /\ processed' = processed \cup {c}
        /\ CallFor("admit", c, "batch")
  BY ZenonT(40) DEF Take
<1>3. c \in Claims /\ env[c].op \in Ops
  BY ZenonT(40), <1>2 DEF BusType, ClaimInv
<1>4. ControlType' /\ pc' = "admit" /\ claim' = c
  BY <1>2, <1>3 DEF CallFor, ControlType
<1>5. ThreadInv'
  BY ZenonT(40), <1>1, <1>3, <1>4 DEF ThreadInv
<1>6. GateInv' /\ FinishedIsTold'
  BY ZenonT(40), <1>1, <1>4, QuietGate DEF storeVars, logVars, history
<1>7. ClaimInv'
  <2>1. UNCHANGED <<mem, first, lapse, timer>>
    BY ZenonT(40), <1>1 DEF storeVars, logVars, memory, history
  <2>2. inbox' \cup processed' = inbox \cup processed
    BY ZenonT(40), <1>2
  <2>3. QED
    BY ZenonT(40), <1>1, <2>1, <2>2 DEF ClaimInv
<1>8. BusType'
  BY ZenonT(40), <1>1, <1>2, <1>3 DEF BusType
<1>9. QED
  BY ZenonT(40), <1>1, <1>4, <1>5, <1>6, <1>7, <1>8, SameTypes, IInvPartsNext

\* create_run_from_envelope: only a running record gets a claim run, and the
\* thread goes on to write its first event.
LEMMA Admit_Inv ==
  ASSUME IInv, Admit
  PROVE  IInv'
<1> USE IInvParts
<1>1. UNCHANGED <<storeVars, acts, results, env, sent, inbox, processed, worker, job,
                  todo, history, stops>>
      /\ pc = "admit" /\ claim \in Claims /\ env[claim].op \in Ops
  BY ZenonT(40) DEF Admit, ThreadInv
<1>2. faults' \in Nat
  BY ZenonT(40), FaultType DEF Admit, HistoryType
<1>3. HistoryType'
  BY ZenonT(40), <1>1, <1>2 DEF HistoryType, history, stops
<1>4. CASE Return /\ UNCHANGED <<crun, mem, first>>
  <2>1. ControlType' /\ ThreadInv' /\ pc' \notin {"flip", "cflip"}
    BY ZenonT(40), <1>4, Moves, QuietThread DEF ControlType
  <2>2. GateInv' /\ FinishedIsTold' /\ ClaimInv'
    BY ZenonT(40), <1>1, <1>4, <2>1, QuietGate, QuietClaims DEF storeVars, history
  <2>3. LogType' /\ BusType' /\ MemoryType'
    BY ZenonT(40), <1>1, <1>4 DEF LogType, BusType, MemoryType
  <2>4. QED
    BY ZenonT(40), <1>1, <1>3, <2>1, <2>2, <2>3, SameTypes, IInvPartsNext
<1>5. CASE /\ Admissible(claim)
           /\ crun' = [crun EXCEPT ![claim] = "live"]
           /\ mem' = [mem EXCEPT ![claim] = "waiting"]
           /\ first' = [first EXCEPT ![claim] = "none"] /\ Goto("commit")
  <2>1. ControlType' /\ pc' = "commit" /\ claim' = claim
    BY ZenonT(40), <1>5, Moves DEF Goto
  <2>2. store[env[claim].op] = "running"
    BY ZenonT(40), <1>5 DEF Admissible
  <2>3. ThreadInv'
    BY ZenonT(40), <1>1, <1>5, <2>1, <2>2 DEF ThreadInv, storeVars, BusType
  <2>4. GateInv' /\ FinishedIsTold'
    BY ZenonT(40), <1>1, <2>1, QuietGate DEF storeVars, history
  <2>5. LogType' /\ BusType' /\ MemoryType'
    BY ZenonT(40), <1>1, <1>5 DEF LogType, BusType, MemoryType
  <2>6. /\ crun'[claim] = "live" /\ mem'[claim] = "waiting" /\ first'[claim] = "none"
        /\ \A c \in Claims \ {claim} :
             crun'[c] = crun[c] /\ mem'[c] = mem[c] /\ first'[c] = first[c]
    BY ZenonT(40), <1>1, <1>5 DEF LogType, BusType, MemoryType
  <2>7. ClaimInv'
    <3>1. UNCHANGED <<timer, lapse>>
      BY ZenonT(40), <1>1 DEF storeVars, history
    <3>2. env[claim] # NoClaim
      BY <1>1, OperationAssumption DEF NoClaim
    <3>3. \A c \in Claims :
            /\ c > sent' => env'[c] = NoClaim /\ crun'[c] = "none"
            /\ c \in inbox' \cup processed' \/ crun'[c] = "live" => env'[c].op \in Ops
            /\ mem'[c] # "none" => crun'[c] = "live"
            /\ mem'[c] = "waiting" => first'[c] = "none"
            /\ crun'[c] = "live" /\ first'[c] = "none" =>
                 (pc' = "commit" /\ claim' = c) \/ "deferred" \in lapse'[env'[c].op]
      BY SMTT(60), <1>1, <2>1, <2>6, <3>1, <3>2 DEF ClaimInv
    <3>4. QED
      BY ZenonT(40), <1>1, <3>1, <3>3 DEF ClaimInv
  <2>8. QED
    BY ZenonT(40), <1>1, <1>3, <2>1, <2>3, <2>4, <2>5, <2>7, SameTypes, IInvPartsNext
<1>6. QED
  BY ZenonT(40), <1>4, <1>5 DEF Admit

\* commit_inbound_event: the result of a claim is the first truth of a running
\* record, unless the claim was deferred.
LEMMA CommitClaim_Inv ==
  ASSUME IInv, CommitClaim
  PROVE  IInv'
<1> USE IInvParts
<1>0. PICK o \in Ops : o = env[claim].op
  BY ZenonT(40) DEF CommitClaim, ThreadInv
<1> DEFINE Committed == /\ results' = [results EXCEPT ![o] = @ + 1]
                        /\ first' = [first EXCEPT ![claim] =
                                       IF handle[o] THEN "named" ELSE "bare"]
<1>1. UNCHANGED <<storeVars, acts, busVars, worker, job, todo, closed, stops>>
      /\ pc = "commit" /\ claim \in Claims
      /\ (store[o] = "running" \/ "deferred" \in lapse[o])
  BY ZenonT(40), <1>0 DEF CommitClaim, ThreadInv
<1>2. \/ Committed /\ Goto("cflip") /\ UNCHANGED <<mem, lapse, faults>>
      \/ /\ Fault("sync") /\ Committed
         /\ mem' = [mem EXCEPT ![claim] = "ready"]
         /\ lapse' = [lapse EXCEPT ![o] = @ \cup {"reducer"}] /\ Return
      \/ /\ Fault("append") /\ UNCHANGED <<results, first, mem>>
         /\ lapse' = [lapse EXCEPT ![o] = @ \cup {"deferred"}]
         /\ IF back = "recover" THEN Goto("refused") ELSE Return
  BY ZenonT(40), <1>0 DEF CommitClaim
<1>3. UNCHANGED <<store, timer, env, sent, inbox, processed, crun>>
  BY ZenonT(40), <1>1 DEF storeVars, busVars
<1>4. faults' \in Nat
  BY ZenonT(40), <1>2, FaultType DEF HistoryType
<1>5. ASSUME Committed
      PROVE  /\ LogType' /\ results'[o] = results[o] + 1 /\ first'[claim] # "none"
             /\ \A p \in Ops \ {o} : results'[p] = results[p]
             /\ \A c \in Claims \ {claim} : first'[c] = first[c]
  BY SMTT(60), <1>1, <1>5 DEF LogType
<1>6. CASE Committed /\ Goto("cflip") /\ UNCHANGED <<mem, lapse, faults>>
  <2>1. ControlType' /\ pc' = "cflip" /\ claim' = claim /\ cur' = cur
    BY ZenonT(40), <1>6, Moves DEF Goto
  <2>2. ThreadInv'
    BY SMTT(60), <1>0, <1>1, <1>3, <1>5, <1>6, <2>1 DEF ThreadInv, LogType
  <2>3. GateInv' /\ FinishedIsTold'
    BY SMTT(60), <1>0, <1>1, <1>3, <1>5, <1>6, <2>1
       DEF GateInv, FinishedIsTold, Truths, Telling, LogType
  <2>4. ClaimInv'
    BY ZenonT(40), <1>0, <1>1, <1>3, <1>5, <1>6, <2>1 DEF ClaimInv
  <2>5. MemoryType' /\ HistoryType'
    BY ZenonT(40), <1>1, <1>6 DEF MemoryType, HistoryType, stops
  <2>6. QED
    BY ZenonT(40), <1>1, <1>5, <1>6, <2>1, <2>2, <2>3, <2>4, <2>5, SameTypes, IInvPartsNext
<1>7. CASE /\ Fault("sync") /\ Committed
           /\ mem' = [mem EXCEPT ![claim] = "ready"]
           /\ lapse' = [lapse EXCEPT ![o] = @ \cup {"reducer"}] /\ Return
  <2>1. ControlType' /\ ThreadInv' /\ pc' \notin {"flip", "cflip"}
    BY ZenonT(40), <1>7, Moves, QuietThread DEF ControlType
  <2>2. /\ lapse'[o] = lapse[o] \cup {"reducer"}
        /\ \A p \in Ops \ {o} : lapse'[p] = lapse[p]
        /\ mem'[claim] = "ready" /\ \A c \in Claims \ {claim} : mem'[c] = mem[c]
    BY ZenonT(40), <1>1, <1>7 DEF HistoryType, MemoryType
  <2>3. GateInv' /\ FinishedIsTold'
    <3>1. \A p \in Ops \ {o} : Truths(p)' = Truths(p) /\ ~Telling(p) /\ ~Telling(p)'
      BY ZenonT(40), <1>0, <1>1, <1>5, <1>7, <2>1 DEF Truths, Telling
    <3>2. GateInv'
      BY ZenonT(40), <1>3, <2>2, <3>1 DEF GateInv
    <3>3. Truths(o)' >= 1
      BY <1>1, <1>5, <1>7 DEF Truths, LogType
    <3>4. FinishedIsTold'
      BY ZenonT(40), <1>3, <3>1, <3>3 DEF FinishedIsTold
    <3>5. QED
      BY ZenonT(40), <3>2, <3>4
  <2>4. ClaimInv'
    <3>2. \A c \in Claims :
            /\ c > sent' => env'[c] = NoClaim /\ crun'[c] = "none"
            /\ c \in inbox' \cup processed' \/ crun'[c] = "live" => env'[c].op \in Ops
            /\ mem'[c] # "none" => crun'[c] = "live"
            /\ mem'[c] = "waiting" => first'[c] = "none"
            /\ crun'[c] = "live" /\ first'[c] = "none" => "deferred" \in lapse'[env'[c].op]
      BY SMTT(60), <1>0, <1>1, <1>3, <1>5, <1>7, <2>2 DEF ClaimInv, ThreadInv
    <3>3. QED
      BY ZenonT(40), <1>3, <3>2 DEF ClaimInv
  <2>5. MemoryType' /\ HistoryType'
    BY ZenonT(40), <1>1, <1>4, <1>7 DEF MemoryType, HistoryType, stops
  <2>6. QED
    BY ZenonT(40), <1>1, <1>5, <1>7, <2>1, <2>3, <2>4, <2>5, SameTypes, IInvPartsNext
<1>8. CASE /\ Fault("append") /\ UNCHANGED <<results, first, mem>>
           /\ lapse' = [lapse EXCEPT ![o] = @ \cup {"deferred"}]
           /\ IF back = "recover" THEN Goto("refused") ELSE Return
  <2>1. ControlType' /\ ThreadInv' /\ pc' \notin {"flip", "cflip"}
    BY ZenonT(40), <1>8, Moves, QuietThread DEF ControlType, Goto
  <2>2. lapse'[o] = lapse[o] \cup {"deferred"} /\ \A p \in Ops \ {o} : lapse'[p] = lapse[p]
    BY ZenonT(40), <1>1, <1>8 DEF HistoryType
  <2>3. GateInv' /\ FinishedIsTold'
    BY ZenonT(40), <1>0, <1>1, <1>3, <1>8, <2>1, <2>2 DEF GateInv, FinishedIsTold, Truths, Telling
  <2>4. ClaimInv'
    BY SMTT(60), <1>0, <1>1, <1>3, <1>8, <2>2 DEF ClaimInv
  <2>5. LogType' /\ MemoryType' /\ HistoryType'
    BY ZenonT(40), <1>1, <1>4, <1>8 DEF LogType, MemoryType, HistoryType, stops
  <2>6. QED
    BY ZenonT(40), <1>1, <2>1, <2>3, <2>4, <2>5, SameTypes, IInvPartsNext
<1>9. QED
  BY ZenonT(40), <1>2, <1>6, <1>7, <1>8

\* The reducer after a claim's result.
LEMMA FlipClaim_Inv ==
  ASSUME IInv, FlipClaim
  PROVE  IInv'
<1> USE IInvParts
<1> DEFINE o == env[claim].op
<1>1. UNCHANGED <<logVars, busVars, worker, job, todo, closed, stops>>
      /\ pc = "cflip" /\ o \in Ops /\ results[o] > 0 /\ Return /\ claim \in Claims
      /\ mem' = [mem EXCEPT ![claim] = "ready"]
  BY ZenonT(40) DEF FlipClaim, ThreadInv
<1>2. ControlType' /\ ThreadInv' /\ pc' \notin {"flip", "cflip"}
  BY ZenonT(40), <1>1, Moves, QuietThread DEF ControlType
<1>3. Telling(o) /\ \A p \in Ops \ {o} : ~Telling(p)
  BY ZenonT(40), <1>1 DEF Telling
<1>4. faults' \in Nat
  BY ZenonT(40), FaultType DEF FlipClaim, HistoryType
<1>5. Finish(o) \/ /\ UNCHANGED storeVars
                   /\ lapse' = [lapse EXCEPT ![o] = @ \cup {"reducer"}]
  BY ZenonT(40) DEF FlipClaim
<1> HIDE DEF o
<1>6. /\ StoreType' /\ GateInv' /\ FinishedIsTold'
      /\ lapse' \in [Ops -> SUBSET {"reducer", "deferred", "purged"}]
      /\ \A p \in Ops : timer'[p] \in {timer[p], 0} /\ lapse[p] \subseteq lapse'[p]
  <2>1. CASE Finish(o)
    BY ZenonT(40), <1>1, <1>2, <1>3, <2>1, FinishGate DEF logVars
  <2>2. CASE /\ UNCHANGED storeVars
             /\ lapse' = [lapse EXCEPT ![o] = @ \cup {"reducer"}]
    BY ZenonT(40), <1>1, <1>2, <1>3, <2>2, MissGate, SameTypes DEF logVars, storeVars
  <2>3. QED
    BY ZenonT(40), <1>5, <2>1, <2>2
<1>7. MemoryType' /\ HistoryType'
  BY ZenonT(40), <1>1, <1>4, <1>6 DEF MemoryType, HistoryType, stops
<1>8. ClaimInv'
  <2>1. UNCHANGED <<env, sent, inbox, processed, crun, first>>
    BY ZenonT(40), <1>1 DEF logVars, busVars
  <2>2. mem'[claim] = "ready" /\ \A c \in Claims \ {claim} : mem'[c] = mem[c]
    BY ZenonT(40), <1>1 DEF MemoryType
  <2>3. \A c \in Claims :
          /\ c > sent' => env'[c] = NoClaim /\ crun'[c] = "none"
          /\ c \in inbox' \cup processed' \/ crun'[c] = "live" => env'[c].op \in Ops
          /\ mem'[c] = "waiting" => first'[c] = "none"
          /\ crun'[c] = "live" /\ first'[c] = "none" => "deferred" \in lapse'[env'[c].op]
    BY ZenonT(40), <1>1, <1>6, <2>1, <2>2 DEF ClaimInv
  <2>4. \A c \in Claims : mem'[c] # "none" => crun'[c] = "live"
    BY ZenonT(40), <1>1, <2>1, <2>2 DEF ClaimInv, ThreadInv
  <2>5. \A p \in Ops : /\ timer'[p] <= sent'
                       /\ timer'[p] # 0 => env'[timer'[p]].op \in {Nobody, p}
    BY SMTT(60), <1>6, <2>1 DEF ClaimInv, BusType
  <2>6. \A p, q \in Ops : timer'[p] = timer'[q] /\ timer'[p] # 0 => p = q
    BY SMTT(60), <1>6 DEF ClaimInv
  <2>7. QED
    BY ZenonT(40), <2>3, <2>4, <2>5, <2>6 DEF ClaimInv
<1>9. QED
  BY ZenonT(40), <1>1, <1>2, <1>6, <1>7, <1>8, SameTypes, IInvPartsNext

-----------------------------------------------------------------------------
(* Ends of runs, retention, crashes and restarts *)

\* A run that leaves the scheduler, or whose directory is pruned, takes
\* nothing of the gate with it.
LEMMA RunEnds ==
  ASSUME IInv, pc = "up", NEW c \in Claims, NEW over \in {"none", "over"},
         crun[c] # "none", mem' = [mem EXCEPT ![c] = "none"],
         crun' = [crun EXCEPT ![c] = over],
         UNCHANGED <<storeVars, logVars, env, sent, inbox, processed, worker, job,
                     todo, control, history, crashes, faults>>,
         shutdowns' \in Nat
  PROVE  IInv'
<1> USE IInvParts
<1>1. pc' = "up" /\ UNCHANGED <<timer, first, lapse>>
  BY ZenonT(40) DEF control, storeVars, logVars, history
<1>2. /\ mem'[c] = "none" /\ crun'[c] = over
      /\ \A d \in Claims \ {c} : mem'[d] = mem[d] /\ crun'[d] = crun[d]
  BY ZenonT(40) DEF MemoryType, BusType
<1>3. BusType' /\ MemoryType' /\ HistoryType'
  BY ZenonT(40) DEF BusType, MemoryType, HistoryType, history
<1>4. GateInv' /\ FinishedIsTold'
  BY ZenonT(40), <1>1, QuietGate DEF storeVars, logVars, history
<1>5. \A d \in Claims :
        /\ d > sent' => env'[d] = NoClaim /\ crun'[d] = "none"
        /\ d \in inbox' \cup processed' \/ crun'[d] = "live" => env'[d].op \in Ops
        /\ mem'[d] # "none" => crun'[d] = "live"
        /\ mem'[d] = "waiting" => first'[d] = "none"
        /\ crun'[d] = "live" /\ first'[d] = "none" => "deferred" \in lapse'[env'[d].op]
  BY SMTT(60), <1>1, <1>2 DEF ClaimInv
<1>6. ClaimInv'
  BY ZenonT(40), <1>1, <1>5 DEF ClaimInv
<1>7. QED
  BY ZenonT(40), <1>1, <1>3, <1>4, <1>6, SameTypes, QuietThread, IInvPartsNext

\* A claim run that completes.
LEMMA EndRun_Inv ==
  ASSUME IInv, NEW c \in Claims, EndRun(c)
  PROVE  IInv'
<1>1. crun[c] = "live" /\ shutdowns \in Nat
  BY ZenonT(40), IInvParts DEF EndRun, ClaimInv, HistoryType
<1>2. QED
  BY ZenonT(40), <1>1, RunEnds DEF EndRun, bounds

\* A claim run that is cancelled while it waits.
LEMMA CancelRun_Inv ==
  ASSUME IInv, NEW c \in Claims, CancelRun(c)
  PROVE  IInv'
<1>1. crun[c] = "live" /\ shutdowns' \in Nat
  BY SMTT(60), IInvParts DEF CancelRun, ClaimInv, HistoryType
<1>2. QED
  BY ZenonT(40), <1>1, RunEnds DEF CancelRun

\* task_runs_prune removes the directory of a finished claim run.
LEMMA PruneRun_Inv ==
  ASSUME IInv, NEW c \in Claims, PruneRun(c)
  PROVE  IInv'
<1>1. mem[c] = "none" /\ shutdowns \in Nat /\ mem \in [Claims -> {"none", "waiting", "ready", "lost"}]
  BY ZenonT(40), IInvParts DEF PruneRun, ClaimInv, HistoryType, MemoryType
<1>2. [mem EXCEPT ![c] = "none"] = mem
  BY ZenonT(40), <1>1
<1>3. mem' = [mem EXCEPT ![c] = "none"] /\ UNCHANGED <<job, todo>>
  BY ZenonT(40), <1>2 DEF PruneRun, memory
<1>4. QED
  BY ZenonT(40), <1>1, <1>3, RunEnds DEF PruneRun, bounds

\* Moving or pruning a processed envelope gives none a new operation.
LEMMA Envelopes_Inv ==
  ASSUME IInv, pc = "up",
         inbox' \cup processed' \subseteq inbox \cup processed,
         UNCHANGED <<storeVars, logVars, env, sent, crun, worker, memory,
                     control, history, bounds>>
  PROVE  IInv'
<1> USE IInvParts
<1>1. pc' = "up" /\ UNCHANGED <<timer, first, lapse, mem>>
  BY ZenonT(40) DEF control, storeVars, logVars, history, memory
<1>2. BusType'
  BY ZenonT(40) DEF BusType
<1>3. GateInv' /\ FinishedIsTold'
  BY ZenonT(40), <1>1, QuietGate DEF storeVars, logVars, history
<1>4. ClaimInv'
  BY ZenonT(40), <1>1 DEF ClaimInv
<1>5. QED
  BY ZenonT(40), <1>1, <1>2, <1>3, <1>4, SameTypes, QuietThread, IInvPartsNext

\* task_bus_processed_prune removes an envelope.
LEMMA PruneEnvelope_Inv ==
  ASSUME IInv, NEW c \in Claims, PruneEnvelope(c)
  PROVE  IInv'
BY ZenonT(40), Envelopes_Inv DEF PruneEnvelope

\* rt_ports_reconcile_orphaned_claims moves an envelope back.
LEMMA Requeue_Inv ==
  ASSUME IInv, NEW c \in Claims, Requeue(c)
  PROVE  IInv'
BY ZenonT(40), Envelopes_Inv DEF Requeue

\* A kill between the log and the store leaves the gate open, between the
\* claim run and its first event leaves the claim deferred: both are lapses.
LEMMA Crash_Inv ==
  ASSUME IInv, Crash
  PROVE  IInv'
<1> USE IInvParts
<1>1. UNCHANGED <<storeVars, logVars, busVars, worker, closed, shutdowns, faults>>
      /\ pc' = "down" /\ todo' = {}
  BY ZenonT(40) DEF Crash
<1>2. job' \in [Ops -> {"queued", "running", "done", "lost"}]
      /\ mem' \in [Claims -> {"none", "waiting", "ready", "lost"}]
      /\ \A c \in Claims : mem'[c] = IF crun[c] = "live" THEN "lost" ELSE "none"
  BY ZenonT(40) DEF Crash
<1>3. MemoryType'
  BY ZenonT(40), <1>1, <1>2 DEF MemoryType
<1>4. ControlType' /\ ThreadInv'
  BY SMTT(60), <1>1, QuietThread, OperationAssumption DEF Crash, Idle, ControlType
<1>5. /\ lapse' \in [Ops -> SUBSET {"reducer", "deferred", "purged"}]
      /\ \A o \in Ops : lapse[o] \subseteq lapse'[o]
      /\ \A o \in Ops : <<o, "reducer">> \in InFlight => "reducer" \in lapse'[o]
      /\ \A o \in Ops : <<o, "deferred">> \in InFlight => "deferred" \in lapse'[o]
  BY ZenonT(40) DEF Crash, HistoryType
<1>6. \A o \in Ops : Telling(o) => "reducer" \in lapse'[o]
  BY ZenonT(40), <1>5 DEF Telling, InFlight
<1>7. pc = "commit" => "deferred" \in lapse'[env[claim].op]
  BY ZenonT(40), <1>5 DEF InFlight, ThreadInv
<1>8. HistoryType'
  BY <1>1, <1>5 DEF Crash, HistoryType
<1>9. GateInv'
  <2>1. SUFFICES ASSUME NEW o \in Ops, lapse'[o] = {}
                 PROVE  \/ Truths(o)' = 0 /\ store'[o] # "finished" /\ ~Telling(o)'
                        \/ Truths(o)' = 1 /\ store'[o] = "finished" /\ ~Telling(o)'
    BY ZenonT(40) DEF GateInv
  <2>2. lapse[o] = {} /\ ~Telling(o) /\ ~Telling(o)'
    BY ZenonT(40), <2>1, <1>1, <1>5, <1>6 DEF Telling
  <2>3. Truths(o)' = Truths(o) /\ store'[o] = store[o]
    BY ZenonT(40), <1>1 DEF Truths, logVars, storeVars
  <2>4. QED
    BY ZenonT(40), <2>2, <2>3 DEF GateInv
<1>10. FinishedIsTold'
  BY ZenonT(40), <1>1 DEF FinishedIsTold, Truths, logVars, storeVars
<1>11. ClaimInv'
  <2>1. UNCHANGED <<env, sent, inbox, processed, crun, first, timer>>
    BY ZenonT(40), <1>1 DEF busVars, logVars, storeVars
  <2>2. \A c \in Claims :
          crun[c] = "live" /\ first[c] = "none" => "deferred" \in lapse'[env[c].op]
    BY ZenonT(40), <1>5, <1>7 DEF ClaimInv
  <2>3. \A c \in Claims : mem'[c] # "waiting" /\ (mem'[c] # "none" => crun[c] = "live")
    BY ZenonT(40), <1>2
  <2>4. QED
    BY ZenonT(40), <2>1, <2>2, <2>3 DEF ClaimInv
<1>12. QED
  BY ZenonT(40), <1>1, <1>3, <1>4, <1>8, <1>9, <1>10, <1>11, SameTypes, IInvPartsNext

\* rt_scheduler_shutdown ends the claim runs it knows.
LEMMA Shutdown_Inv ==
  ASSUME IInv, Shutdown
  PROVE  IInv'
<1> USE IInvParts
<1>1. UNCHANGED <<storeVars, results, first, env, sent, inbox, processed, worker,
                  history, crashes, faults>>
      /\ pc = "up" /\ pc' = "down" /\ todo' = {}
  BY ZenonT(40) DEF Shutdown
<1>2. LogType' /\ BusType' /\ MemoryType'
  BY ZenonT(40), <1>1 DEF Shutdown, LogType, BusType, MemoryType
<1>3. HistoryType'
  BY <1>1 DEF Shutdown, HistoryType, history
<1>4. ControlType' /\ ThreadInv'
  BY <1>1, QuietThread, OperationAssumption DEF Shutdown, Idle, ControlType
<1>5. GateInv' /\ FinishedIsTold'
  BY ZenonT(40), <1>1, QuietGate DEF storeVars, history
<1>6. ClaimInv'
  <2>1. UNCHANGED <<timer, lapse>>
    BY ZenonT(40), <1>1 DEF storeVars, history
  <2>2. \A c \in Claims : mem'[c] = "none"
                          /\ crun'[c] = IF mem[c] # "none" THEN "over" ELSE crun[c]
    BY ZenonT(40) DEF Shutdown
  <2>3. \A c \in Claims :
          /\ c > sent' => env'[c] = NoClaim /\ crun'[c] = "none"
          /\ c \in inbox' \cup processed' \/ crun'[c] = "live" => env'[c].op \in Ops
          /\ crun'[c] = "live" /\ first'[c] = "none" => "deferred" \in lapse'[env'[c].op]
    BY ZenonT(40), <1>1, <2>1, <2>2 DEF ClaimInv
  <2>4. QED
    BY ZenonT(40), <1>1, <2>1, <2>2, <2>3 DEF ClaimInv
<1>7. QED
  BY ZenonT(40), <1>1, <1>2, <1>3, <1>4, <1>5, <1>6, SameTypes, IInvPartsNext

\* rt_action_runner_recover_started: a record closed at startup is a truth.
LEMMA RecoverAction_Inv ==
  ASSUME IInv, NEW o \in Ops, RecoverAction(o)
  PROVE  IInv'
<1> USE IInvParts
<1>1. UNCHANGED <<logVars, busVars, worker, mem, todo, stops>> /\ pc = "recover"
  BY ZenonT(40) DEF RecoverAction
<1>2. CASE /\ job' = [job EXCEPT ![o] = "queued"]
           /\ UNCHANGED <<storeVars, history, faults, control>>
  <2>1. MemoryType' /\ HistoryType' /\ ControlType' /\ pc' = "recover"
    BY ZenonT(40), <1>1, <1>2 DEF MemoryType, HistoryType, ControlType, control, history, stops
  <2>2. GateInv' /\ FinishedIsTold' /\ ClaimInv'
    BY ZenonT(40), <1>1, <1>2, <2>1, QuietGate, QuietClaims DEF storeVars, logVars, busVars, history
  <2>3. QED
    BY ZenonT(40), <1>1, <1>2, <2>1, <2>2, SameTypes, QuietThread, IInvPartsNext
<1>3. CASE /\ (CloseWithoutResult(o) /\ UNCHANGED faults)
              \/ (Fault("store") /\ UNCHANGED <<storeVars, history>>)
           /\ \E outcome \in {"failed", "blocked"} :
                Call("terminal", o, outcome, "recover")
           /\ UNCHANGED job
  <2>1. ControlType' /\ ThreadInv' /\ pc' = "terminal"
    BY ZenonT(40), <1>1, <1>3, CallTerminal
  <2>2. /\ StoreType' /\ GateInv' /\ FinishedIsTold'
        /\ lapse' \in [Ops -> SUBSET {"reducer", "deferred", "purged"}]
        /\ closed' \subseteq Ops
        /\ \A p \in Ops : timer'[p] \in {timer[p], 0} /\ lapse[p] \subseteq lapse'[p]
    <3>1. CASE CloseWithoutResult(o)
      BY ZenonT(40), <1>1, <2>1, <3>1, CloseGate DEF logVars
    <3>2. CASE UNCHANGED <<storeVars, history>>
      BY ZenonT(40), <1>1, <2>1, <3>2, QuietGate, SameTypes
         DEF logVars, storeVars, history, HistoryType
    <3>3. QED
      BY ZenonT(40), <1>3, <3>1, <3>2
  <2>3. faults' \in Nat
    BY ZenonT(40), <1>3, FaultType DEF HistoryType
  <2>4. HistoryType' /\ MemoryType'
    BY ZenonT(40), <1>1, <1>3, <2>2, <2>3 DEF HistoryType, MemoryType, stops
  <2>5. ClaimInv'
    BY ZenonT(40), <1>1, <2>2, QuietClaims DEF logVars, busVars
  <2>6. QED
    BY ZenonT(40), <1>1, <2>1, <2>2, <2>4, <2>5, SameTypes, IInvPartsNext
<1>4. QED
  BY ZenonT(40), <1>2, <1>3 DEF RecoverAction

\* restore_runstate: a claim run without its first event writes it now.
LEMMA RecoverClaim_Inv ==
  ASSUME IInv, NEW c \in Claims, RecoverClaim(c)
  PROVE  IInv'
<1> USE IInvParts
<1>1. UNCHANGED <<storeVars, logVars, busVars, worker, job, todo, history, bounds>>
      /\ pc = "recover" /\ mem[c] = "lost" /\ crun[c] = "live"
  BY ZenonT(40) DEF RecoverClaim, ClaimInv
<1>2. /\ mem' \in [Claims -> {"none", "waiting", "ready", "lost"}]
      /\ \A d \in Claims \ {c} : mem'[d] = mem[d]
      /\ mem'[c] = "waiting" => first[c] = "none"
  BY ZenonT(40), <1>1 DEF RecoverClaim, MemoryType
<1>3. ControlType' /\ ThreadInv' /\ pc' \notin {"flip", "cflip"}
  <2>1. CASE Goto("refused")
    BY ZenonT(40), <2>1, Moves, QuietThread DEF Goto
  <2>2. CASE first[c] = "none" /\ CallFor("commit", c, "recover")
    BY ZenonT(40), <1>1, <2>2, CallCommit DEF busVars
  <2>3. CASE UNCHANGED control
    BY ZenonT(40), <1>1, <2>3, SameTypes, QuietThread DEF control
  <2>4. QED
    BY ZenonT(40), <2>1, <2>2, <2>3 DEF RecoverClaim
<1>4. MemoryType'
  BY ZenonT(40), <1>1, <1>2 DEF MemoryType
<1>5. GateInv' /\ FinishedIsTold'
  BY ZenonT(40), <1>1, <1>3, QuietGate DEF storeVars, logVars, history
<1>6. ClaimInv'
  <2>1. UNCHANGED <<env, sent, inbox, processed, crun, first, timer, lapse>>
    BY ZenonT(40), <1>1 DEF storeVars, logVars, busVars, history
  <2>2. \A d \in Claims :
          /\ mem'[d] # "none" => crun'[d] = "live"
          /\ mem'[d] = "waiting" => first'[d] = "none"
          /\ crun'[d] = "live" /\ first'[d] = "none" => "deferred" \in lapse'[env'[d].op]
    BY ZenonT(40), <1>1, <1>2, <2>1 DEF ClaimInv
  <2>3. QED
    BY ZenonT(40), <2>1, <2>2 DEF ClaimInv
<1>7. QED
  BY ZenonT(40), <1>1, <1>3, <1>4, <1>5, <1>6, SameTypes, IInvPartsNext

-----------------------------------------------------------------------------
(* The theorems *)

\* The invariant holds initially: nothing started, nothing told.
LEMMA InitIInv == Init => IInv
<1> SUFFICES ASSUME Init PROVE IInv
  BY ZenonT(40)
<1> USE OperationAssumption DEF Init
<1>1. StoreType /\ LogType /\ MemoryType /\ ControlType /\ HistoryType
  BY DEF StoreType, LogType, MemoryType, ControlType, HistoryType
<1>2. BusType
  BY DEF BusType, NoClaim
<1>3. GateInv /\ FinishedIsTold /\ ThreadInv
  BY DEF GateInv, FinishedIsTold, ThreadInv, Truths, Telling
<1>4. ClaimInv
  BY DEF ClaimInv
<1>5. QED
  BY ZenonT(40), <1>1, <1>2, <1>3, <1>4, IInvParts

\* Every step keeps the invariant.
LEMMA NextIInv ==
  ASSUME IInv, [Next]_vars
  PROVE  IInv'
<1>1. CASE Producing
  BY ZenonT(40), <1>1, StartAction_Inv, RejectAction_Inv, CompleteJob_Inv, Allocate_Inv,
     BindSecret_Inv, Launch_Inv, AppendTerminal_Inv, Drive_Inv, AppendResult_Inv,
     Flip_Inv DEF Producing
<1>2. CASE Claiming
  BY ZenonT(40), <1>2, WorkerClaim_Inv, AbortClaim_Inv, PumpReserve_Inv, PumpAgain_Inv,
     PumpPublish_Inv DEF Claiming
<1>3. CASE Intake
  BY ZenonT(40), <1>3, BeginIntake_Inv, EndRetries_Inv, Take_Inv, EndBatch_Inv, Admit_Inv,
     CommitClaim_Inv, FlipClaim_Inv, RetryClaim_Inv DEF Intake
<1>4. CASE Retention
  BY ZenonT(40), <1>4, EndRun_Inv, CancelRun_Inv, PruneRun_Inv, PruneEnvelope_Inv, Requeue_Inv
     DEF Retention
<1>5. CASE Restarting
  BY ZenonT(40), <1>5, Crash_Inv, Shutdown_Inv, Boot_Inv, EndRecovery_Inv, RecoverAction_Inv,
     RecoverClaim_Inv DEF Restarting
<1>6. CASE UNCHANGED vars
  <2>1. /\ UNCHANGED <<storeVars, logVars, busVars, worker, memory>>
        /\ UNCHANGED <<control, history, bounds>>
    BY ZenonT(40), <1>6 DEF vars
  <2>2. GateInv' /\ FinishedIsTold'
    <3>1. UNCHANGED <<store, results, closed, lapse, pc, cur, claim, env>>
      BY ZenonT(40), <2>1 DEF storeVars, logVars, busVars, control, history
    <3>2. \A o \in Ops : Truths(o)' = Truths(o) /\ (Telling(o)' <=> Telling(o))
      BY ZenonT(40), <3>1 DEF Truths, Telling
    <3>3. QED
      BY ZenonT(40), <3>1, <3>2 DEF IInv, GateInv, FinishedIsTold
  <2>3. ThreadInv'
    BY ZenonT(40), <2>1 DEF IInv, ThreadInv, storeVars, logVars, busVars, control, history
  <2>4. ClaimInv'
    BY ZenonT(40), <2>1 DEF IInv, ClaimInv, storeVars, logVars, busVars, memory, control, history
  <2>5. QED
    BY ZenonT(40), <2>1, <2>2, <2>3, <2>4, SameTypes, IInvParts, IInvPartsNext
<1>7. QED
  BY ZenonT(40), <1>1, <1>2, <1>3, <1>4, <1>5, <1>6 DEF Next

\* The invariant of every behaviour of the gateway and its workers.
THEOREM InductiveInvariant == Spec => []IInv
BY InitIInv, NextIInv, PTL DEF Spec

\* Every variable holds a value the code can put there.
THEOREM TypeCorrect == Spec => []TypeOK
<1>1. IInv => TypeOK
  BY ZenonT(40) DEF IInv
<1>2. QED
  BY <1>1, InductiveInvariant, PTL

\* However its action, workers, aborts and deadline race, an operation has at
\* most one terminal truth unless one of the three lapses opened its gate.
THEOREM TruthIsUnique == Spec => []OneTerminalTruth
<1>1. IInv => OneTerminalTruth
  BY DEF IInv, GateInv, OneTerminalTruth
<1>2. QED
  BY <1>1, InductiveInvariant, PTL

\* A finished record always has its operation_result or the event that closed
\* it in some log.
THEOREM FinishedHasTruth == Spec => []FinishedIsTold
<1>1. IInv => FinishedIsTold
  BY ZenonT(40) DEF IInv
<1>2. QED
  BY <1>1, InductiveInvariant, PTL

\* Finishing drops no record without its truth.
LEMMA FinishDropsTold ==
  ASSUME IInv, NEW o \in Ops, Finish(o), results' = results, closed \subseteq closed',
         store[o] = "running" => results[o] > 0 \/ o \in closed'
  PROVE  OnlyToldDropped
<1> USE IInvParts
<1>1. \A p \in Ops \ {o} : Kept(p) \/ (store[p] = "finished" /\ Dropped(p))
  BY ZenonT(40), FinishEffect
<1>2. store[o] # "running" => Kept(o)
  BY ZenonT(40), FinishEffect
<1>3. results \in [Ops -> Nat]
  BY ZenonT(40) DEF LogType
<1>4. \A p \in Ops : store[p] = "finished" => Truths(p)' > 0
  BY <1>3 DEF FinishedIsTold, Truths
<1>5. store[o] = "running" => Truths(o)' > 0
  BY <1>3 DEF Truths
<1>6. QED
  BY ZenonT(40), <1>1, <1>2, <1>4, <1>5 DEF OnlyToldDropped, Kept

\* Nor does inserting another one.
LEMMA InsertDropsTold ==
  ASSUME IInv, NEW o \in Ops, store[o] = "none", Insert(o), UNCHANGED <<results, closed>>
  PROVE  OnlyToldDropped
<1> USE IInvParts
<1>1. \A p \in Ops \ {o} : Kept(p) \/ (store[p] = "finished" /\ Dropped(p))
  BY ZenonT(40), InsertEffect
<1>2. \A p \in Ops : store[p] = "finished" => Truths(p)' > 0
  BY DEF FinishedIsTold, Truths, LogType
<1>3. QED
  BY ZenonT(40), <1>1, <1>2 DEF OnlyToldDropped, Kept

\* No step drops a record without its truth.
LEMMA NextDropsTold ==
  ASSUME IInv, [Next]_vars
  PROVE  OnlyToldDropped
<1> USE IInvParts
<1>1. ASSUME UNCHANGED store
      PROVE  OnlyToldDropped
  BY ZenonT(40), <1>1 DEF OnlyToldDropped
<1>2. CASE Allocate
  <2>1. cur \in Ops /\ UNCHANGED results
    BY ZenonT(40), <1>2 DEF Allocate, ThreadInv, logVars
  <2>2. QED
    BY ZenonT(40), <1>1, <1>2, <2>1, InsertDropsTold DEF Allocate, storeVars
<1>3. CASE Drive
  <2>1. cur \in Ops /\ UNCHANGED results
    BY ZenonT(40), <1>3 DEF Drive, ThreadInv, logVars
  <2>2. CASE CloseWithoutResult(cur)
    BY ZenonT(40), <2>1, <2>2, FinishDropsTold DEF CloseWithoutResult
  <2>3. CASE store[cur] = "none" /\ Insert(cur) /\ UNCHANGED closed
    BY ZenonT(40), <2>1, <2>3, InsertDropsTold
  <2>4. QED
    BY ZenonT(40), <1>1, <1>3, <2>2, <2>3 DEF Drive, storeVars
<1>4. CASE Flip
  <2>1. cur \in Ops /\ results[cur] > 0 /\ UNCHANGED <<results, closed>>
    BY ZenonT(40), <1>4 DEF Flip, ThreadInv, logVars
  <2>2. QED
    BY ZenonT(40), <1>1, <1>4, <2>1, FinishDropsTold DEF Flip, storeVars
<1>5. CASE FlipClaim
  <2>1. /\ env[claim].op \in Ops /\ results[env[claim].op] > 0
        /\ UNCHANGED <<results, closed>>
    BY ZenonT(40), <1>5 DEF FlipClaim, ThreadInv, logVars
  <2>2. QED
    BY ZenonT(40), <1>1, <1>5, <2>1, FinishDropsTold DEF FlipClaim, storeVars
<1>6. ASSUME NEW o \in Ops, RecoverAction(o)
      PROVE  OnlyToldDropped
  <2>1. UNCHANGED results
    BY ZenonT(40), <1>6 DEF RecoverAction, logVars
  <2>2. CASE CloseWithoutResult(o)
    BY ZenonT(40), <2>1, <2>2, FinishDropsTold DEF CloseWithoutResult
  <2>3. QED
    BY ZenonT(40), <1>1, <1>6, <2>2 DEF RecoverAction, storeVars
<1>7. CASE Producing
  BY ZenonT(40), <1>1, <1>2, <1>3, <1>4, <1>7
     DEF Producing, StartAction, RejectAction, CompleteJob, BindSecret, Launch,
         AppendTerminal, AppendResult, storeVars
<1>8. CASE Claiming
  BY ZenonT(40), <1>1, <1>8 DEF Claiming, WorkerClaim, AbortClaim, PumpReserve, PumpAgain,
                    PumpPublish, storeVars
<1>9. CASE Intake
  BY ZenonT(40), <1>1, <1>5, <1>9 DEF Intake, BeginIntake, EndRetries, Take, EndBatch, Admit,
                          CommitClaim, RetryClaim, storeVars
<1>10. CASE Retention
  BY ZenonT(40), <1>1, <1>10 DEF Retention, EndRun, CancelRun, PruneRun, PruneEnvelope, Requeue,
                     storeVars
<1>11. CASE Restarting
  BY ZenonT(40), <1>1, <1>6, <1>11 DEF Restarting, Crash, Shutdown, Boot, EndRecovery,
                           RecoverClaim, storeVars
<1>12. CASE UNCHANGED vars
  BY ZenonT(40), <1>1, <1>12 DEF vars, storeVars
<1>13. QED
  BY ZenonT(40), <1>7, <1>8, <1>9, <1>10, <1>11, <1>12 DEF Next

\* Retention, recycling and recovery never drop the record of an operation
\* that is still running without its truth in a log.
THEOREM OnlyToldRecordsGo == Spec => RunningKept
<1>1. IInv /\ [Next]_vars => [OnlyToldDropped]_vars
  BY ZenonT(40), NextDropsTold
<1>2. QED
  BY <1>1, InductiveInvariant, PTL DEF Spec, RunningKept
==============================================================================
