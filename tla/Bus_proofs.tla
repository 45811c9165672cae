----------------------------- MODULE Bus_proofs -----------------------------
(***************************************************************************)
(* That the bus keeps every committed message in an envelope of its own,   *)
(* makes one run of each and takes the oldest first, for any number of     *)
(* publishers, messages and envelopes, whoever is killed and whatever      *)
(* fails.  The inductive invariant is Bus's IInv.                          *)
(***************************************************************************)
EXTENDS Bus, FiniteSetTheorems, TLAPS

-----------------------------------------------------------------------------
(* What a step leaves alone when it leaves some variables alone.           *)

\* The gateway gives out no ids and writes no envelope: while what is in the
\* two directories together stays the same, so does all that is said of ids
\* and messages.
LEMMA GatewayFrame ==
  ASSUME IInv, Still, inbox' \cup done' = inbox \cup done
  PROVE  IdsAreGiven' /\ MessagesAreNew' /\ MessagesKept'
<1>1. IdsAreGiven'
  BY Zenon DEF IInv, IdsAreGiven, Still, pubVars
<1>2. MessagesAreNew'
  BY Zenon DEF IInv, MessagesAreNew, Still, pubVars
<1>3. MessagesKept'
  BY Zenon DEF IInv, MessagesKept, Still
<1> QED BY <1>1, <1>2, <1>3

\* A publisher that does not commit leaves the pass and the runs alone.
LEMMA PublisherFrame ==
  ASSUME IInv, Quiet, UNCHANGED <<inbox, done, body, sent>>
  PROVE  PassIsSound' /\ RunsAreCounted' /\ MessagesKept' /\ TakenOnce'
<1>0. UNCHANGED <<pc, seen, batch, left, cur, active, runs, again>>
  BY DEF Quiet, gwVars
<1>1. PassIsSound'
  BY <1>0 DEF IInv, PassIsSound
<1>2. RunsAreCounted'
  BY <1>0, Zenon DEF IInv, RunsAreCounted
<1>3. MessagesKept'
  BY Zenon DEF IInv, MessagesKept
<1>4. TakenOnce'
  BY <1>0, Zenon DEF IInv, TakenOnce
<1> QED BY <1>1, <1>2, <1>3, <1>4

\* A gateway step that touches neither the directories nor the history leaves
\* the counts of runs alone, unless it takes an envelope in hand.
LEMMA RunsFrame ==
  ASSUME IInv, UNCHANGED <<inbox, done, runs, again>>, pc' # "handle"
  PROVE  RunsAreCounted' /\ TakenOnce'
<1>1. RunsAreCounted'
  BY Zenon DEF IInv, RunsAreCounted
<1>2. TakenOnce'
  BY Zenon DEF IInv, TakenOnce
<1> QED BY <1>1, <1>2

-----------------------------------------------------------------------------
(* The publishers.                                                         *)

\* Taking the lock and reading the counter.
LEMMA ReadCounterStep ==
  ASSUME IInv, NEW p \in Publishers, ReadCounter(p) PROVE IInv'
<1>1. counter + 1 \in Ids
  BY IdsAssumption DEF IInv, TypeOK, ReadCounter, Ids
<1>2. begun' \in [Publishers -> Nat]
  BY DEF IInv, TypeOK, ReadCounter
<1>3. TypeOK'
  BY <1>1, <1>2, Zenon DEF IInv, TypeOK, ReadCounter, At, Quiet, gwVars
<1>4. IdsAreGiven'
  BY PublishersAssumption, <1>1 DEF IInv, TypeOK, IdsAreGiven, ReadCounter, At, MayLock
<1>5. MessagesAreNew'
  BY DEF IInv, TypeOK, MessagesAreNew, ReadCounter, At
<1>6. Quiet /\ UNCHANGED <<inbox, done, body, sent>>
  BY DEF ReadCounter
<1> QED BY <1>3, <1>4, <1>5, <1>6, PublisherFrame DEF IInv

\* Replacing the counter and giving up the lock.
LEMMA WriteCounterStep ==
  ASSUME IInv, NEW p \in Publishers, WriteCounter(p) PROVE IInv'
<1>1. id[p] = counter + 1 /\ id[p] \in Ids
  BY IdsAssumption DEF IInv, TypeOK, IdsAreGiven, WriteCounter, Ids
<1>2. faults' \in 0..MaxFaults
  BY BoundsAssumption DEF IInv, TypeOK, WriteCounter
<1>3. TypeOK'
  BY <1>1, <1>2, Zenon DEF IInv, TypeOK, WriteCounter, At, Quiet, gwVars
<1>4. IdsAreGiven'
  <2>1. CASE counter' = id[p] /\ At(p, "reserved", id[p])
    <3>1. \A q \in Publishers : at'[q] # "locked" /\ lock' # q
      BY <2>1, PublishersAssumption DEF IInv, TypeOK, IdsAreGiven, WriteCounter, At
    <3>2. \A i \in inbox \cup done : i < counter'
      BY <1>1, <2>1 DEF IInv, TypeOK, IdsAreGiven, Ids
    <3>3. \A q \in Publishers : at[q] \in {"reserved", "writing"} => id[q] < counter'
      BY <1>1, <2>1 DEF IInv, TypeOK, IdsAreGiven, Ids
    <3>4. /\ at' = [at EXCEPT ![p] = "reserved"] /\ id' = [id EXCEPT ![p] = id[p]]
          /\ UNCHANGED <<inbox, done, body, sent>>
      BY <2>1 DEF At, WriteCounter
    <3> QED BY <1>1, <2>1, <3>1, <3>2, <3>3, <3>4 DEF IInv, TypeOK, IdsAreGiven, Ids
  <2>2. CASE At(p, "idle", 0) /\ UNCHANGED counter
    BY <2>2, PublishersAssumption DEF IInv, TypeOK, IdsAreGiven, WriteCounter, At
  <2> QED BY <2>1, <2>2 DEF WriteCounter
<1>5. MessagesAreNew'
  BY DEF IInv, TypeOK, MessagesAreNew, WriteCounter, At
<1>6. Quiet /\ UNCHANGED <<inbox, done, body, sent>>
  BY DEF WriteCounter
<1> QED BY <1>3, <1>4, <1>5, <1>6, PublisherFrame DEF IInv

\* Looking for an envelope of that id.
LEMMA LookStep ==
  ASSUME IInv, NEW p \in Publishers, Look(p) PROVE IInv'
<1>1. TypeOK'
  BY Zenon DEF IInv, TypeOK, Look, At, Quiet, gwVars
<1>2. IdsAreGiven'
  <2>1. CASE At(p, "idle", 0)
    BY <2>1 DEF IInv, TypeOK, IdsAreGiven, Look, At
  <2>2. CASE At(p, "writing", id[p])
    BY <2>2 DEF IInv, TypeOK, IdsAreGiven, Look, At
  <2> QED BY <2>1, <2>2 DEF Look
<1>3. MessagesAreNew'
  BY DEF IInv, TypeOK, MessagesAreNew, Look, At
<1>4. Quiet /\ UNCHANGED <<inbox, done, body, sent>>
  BY DEF Look
<1> QED BY <1>1, <1>2, <1>3, <1>4, PublisherFrame DEF IInv

\* The datagram.
LEMMA SignalWakeStep ==
  ASSUME IInv, NEW p \in Publishers, SignalWake(p) PROVE IInv'
<1>1. TypeOK'
  BY Zenon DEF IInv, TypeOK, SignalWake, At, Quiet, gwVars
<1>2. IdsAreGiven'
  BY DEF IInv, TypeOK, IdsAreGiven, SignalWake, At
<1>3. MessagesAreNew'
  BY DEF IInv, TypeOK, MessagesAreNew, SignalWake, At
<1>4. Quiet /\ UNCHANGED <<inbox, done, body, sent>>
  BY DEF SignalWake
<1> QED BY <1>1, <1>2, <1>3, <1>4, PublisherFrame DEF IInv

\* A publisher is killed, and its lock goes with it.
LEMMA KillPublisherStep ==
  ASSUME IInv, NEW p \in Publishers, KillPublisher(p) PROVE IInv'
<1>1. faults' \in 0..MaxFaults
  BY BoundsAssumption DEF IInv, TypeOK, KillPublisher
<1>2. TypeOK'
  BY <1>1, Zenon DEF IInv, TypeOK, KillPublisher, At, Quiet, gwVars
<1>3. IdsAreGiven'
  BY PublishersAssumption DEF IInv, TypeOK, IdsAreGiven, KillPublisher, At
<1>4. MessagesAreNew'
  BY DEF IInv, TypeOK, MessagesAreNew, KillPublisher, At
<1>5. Quiet /\ UNCHANGED <<inbox, done, body, sent>>
  BY DEF KillPublisher
<1> QED BY <1>2, <1>3, <1>4, <1>5, PublisherFrame DEF IInv

-----------------------------------------------------------------------------
(* The gateway.                                                            *)

\* The socket is bound.
LEMMA StartStep == ASSUME IInv, Start PROVE IInv'
<1>1. TypeOK'
  BY Zenon DEF IInv, TypeOK, Start, Still, pubVars
<1>2. PassIsSound'
  BY DEF IInv, PassIsSound, Start
<1>3. RunsAreCounted' /\ TakenOnce'
  BY RunsFrame DEF Start
<1> QED BY <1>1, <1>2, <1>3, GatewayFrame DEF IInv, Start

\* The deadlines are collected.
LEMMA CollectStep == ASSUME IInv, Collect PROVE IInv'
<1>1. TypeOK'
  BY Zenon DEF IInv, TypeOK, Collect, Pending, Still, pubVars
<1>2. PassIsSound'
  BY DEF IInv, PassIsSound, Collect
<1>3. RunsAreCounted' /\ TakenOnce'
  BY RunsFrame DEF Collect
<1> QED BY <1>1, <1>2, <1>3, GatewayFrame DEF IInv, Collect

\* The poll returns.
LEMMA PollStep == ASSUME IInv, Poll PROVE IInv'
<1>1. TypeOK'
  BY Zenon DEF IInv, TypeOK, Poll, Still, pubVars
<1>2. PassIsSound'
  BY DEF IInv, PassIsSound, Poll
<1>3. RunsAreCounted' /\ TakenOnce'
  BY RunsFrame DEF Poll
<1> QED BY <1>1, <1>2, <1>3, GatewayFrame DEF IInv, Poll

\* A pass begins, with room for the runs it may make.
LEMMA TickStep == ASSUME IInv, Tick PROVE IInv'
<1> DEFINE room == Lesser(Budget, MaxActive - active)
<1>1. room \in 0..Budget /\ room + active <= MaxActive
  BY BoundsAssumption DEF IInv, TypeOK, Lesser
<1>2. \/ pc' = "collect" /\ UNCHANGED <<seen, left>>
      \/ pc' = "scan" /\ seen' = inbox /\ left' = room
  BY DEF Tick
<1> HIDE DEF room
<1>3. TypeOK'
  BY <1>1, <1>2, Zenon DEF IInv, TypeOK, Tick, Still, pubVars
<1>4. PassIsSound'
  <2>1. UNCHANGED <<inbox, done, batch, active, cur>>
    BY DEF Tick
  <2> QED BY <1>1, <1>2, <2>1 DEF IInv, PassIsSound
<1>5. RunsAreCounted' /\ TakenOnce'
  BY <1>2, RunsFrame DEF Tick
<1> QED BY <1>3, <1>4, <1>5, GatewayFrame DEF IInv, Tick

\* The directory is read: what is not cut short by the cap is complete.
LEMMA ScanStep == ASSUME IInv, Scan PROVE IInv'
<1>0. PICK late \in SUBSET (inbox \ seen) : \E names \in SUBSET (seen \cup late) :
        /\ Cardinality(names) = Lesser(ScanCap, Cardinality(seen \cup late))
        /\ batch' = names
  BY DEF Scan
<1>1. PICK names \in SUBSET (seen \cup late) :
        /\ Cardinality(names) = Lesser(ScanCap, Cardinality(seen \cup late))
        /\ batch' = names
  BY <1>0
<1>2. /\ pc = "scan" /\ pc' = "drain"
      /\ UNCHANGED <<inbox, done, wake, ready, seen, left, cur, active, runs, again, faults>>
      /\ Still
  BY DEF Scan
<1>3. seen \cup late \subseteq inbox /\ names \subseteq inbox
  BY <1>2 DEF IInv, PassIsSound
<1>4. TypeOK'
  BY <1>1, <1>2, <1>3, Zenon DEF IInv, TypeOK, Still, pubVars
<1>5. ASSUME Cardinality(inbox \cup done) <= ScanCap PROVE seen \subseteq names
  <2>0. IsFiniteSet(Ids)
    BY IdsAssumption, FS_Interval DEF Ids
  <2>1. IsFiniteSet(inbox \cup done)
    BY <2>0, FS_Subset DEF IInv, TypeOK
  <2>2. /\ IsFiniteSet(seen \cup late)
        /\ Cardinality(seen \cup late) <= Cardinality(inbox \cup done)
    BY <1>3, <2>1, FS_Subset
  <2>3. Cardinality(names) = Cardinality(seen \cup late)
    BY <1>1, <1>5, <2>1, <2>2, FS_CardinalityType, BoundsAssumption DEF Lesser
  <2> QED BY <2>2, <2>3, FS_Subset
<1>6. PassIsSound'
  BY <1>1, <1>2, <1>3, <1>5 DEF IInv, PassIsSound
<1>7. RunsAreCounted' /\ TakenOnce'
  BY <1>2, RunsFrame
<1> QED BY <1>2, <1>4, <1>6, <1>7, GatewayFrame DEF IInv

\* The next name is moved to processed/, or cannot be.
LEMMA RenameStep == ASSUME IInv, Rename PROVE IInv'
<1>1. PICK i \in Oldest(batch) :
        /\ cur' = i /\ batch' = batch \ {i} /\ left' = left - 1
        /\ \/ /\ inbox' = inbox \ {i} /\ done' = done \cup {i}
              /\ pc' = AfterRename(TRUE) /\ UNCHANGED <<faults, seen>>
           \/ /\ faults < MaxFaults /\ faults' = faults + 1
              /\ pc' = AfterRename(FALSE) /\ seen' = seen \ {i}
              /\ UNCHANGED <<inbox, done>>
  BY DEF Rename
<1>2. /\ pc = "drain" /\ left > 0
      /\ UNCHANGED <<wake, ready, active, runs, again>> /\ Still
  BY DEF Rename
<1>3. i \in batch /\ i \in inbox /\ i \notin done /\ i \in Ids
  BY DEF Oldest, IInv, TypeOK, PassIsSound
<1>4. left' \in 0..Budget /\ left' + active < MaxActive
  BY <1>1, <1>2, BoundsAssumption DEF IInv, TypeOK, PassIsSound
<1>5. CASE /\ inbox' = inbox \ {i} /\ done' = done \cup {i}
           /\ pc' = AfterRename(TRUE) /\ UNCHANGED <<faults, seen>>
  <2>1. inbox' \cup done' = inbox \cup done
    BY <1>3, <1>5
  <2>2. pc' = "handle"
    BY <1>5 DEF AfterRename
  <2>3. TypeOK'
    BY <1>1, <1>2, <1>3, <1>4, <1>5, <2>2, Zenon DEF IInv, TypeOK, Still, pubVars
  <2>4. PassIsSound'
    BY <1>1, <1>2, <1>3, <1>4, <1>5, <2>1, <2>2 DEF IInv, PassIsSound
  <2>5. RunsAreCounted'
    BY <1>1, <1>2, <1>3, <1>5 DEF IInv, RunsAreCounted
  <2>6. TakenOnce'
    BY <1>2 DEF IInv, TakenOnce
  <2> QED BY <1>2, <2>1, <2>3, <2>4, <2>5, <2>6, GatewayFrame DEF IInv
<1>6. CASE /\ faults < MaxFaults /\ faults' = faults + 1
           /\ pc' = AfterRename(FALSE) /\ seen' = seen \ {i}
           /\ UNCHANGED <<inbox, done>>
  <2>1. pc' = "drain"
    BY <1>6 DEF AfterRename
  <2>2. faults' \in 0..MaxFaults
    BY <1>6, BoundsAssumption DEF IInv, TypeOK
  <2>3. TypeOK'
    BY <1>1, <1>2, <1>3, <1>4, <1>6, <2>1, <2>2, Zenon DEF IInv, TypeOK, Still, pubVars
  <2>4. left' + active' <= MaxActive
    <3>1. active \in Int /\ MaxActive \in Int /\ left' \in Int /\ active' = active
      BY <1>2, <1>4, BoundsAssumption DEF IInv, TypeOK
    <3>2. \A a, b, c \in Int : a + b < c => a + b <= c
      OBVIOUS
    <3> QED BY <1>4, <3>1, <3>2
  <2>5. PassIsSound'
    BY <1>1, <1>2, <1>6, <2>1, <2>4 DEF IInv, PassIsSound
  <2>6. RunsAreCounted' /\ TakenOnce'
    BY <1>2, <1>6, <2>1, RunsFrame
  <2> QED BY <1>2, <1>6, <2>3, <2>5, <2>6, GatewayFrame DEF IInv
<1> QED BY <1>1, <1>5, <1>6

\* A run is made from the envelope in hand.
LEMMA HandleStep == ASSUME IInv, Handle PROVE IInv'
<1>1. cur \in Ids /\ cur \in done /\ cur \notin inbox
  BY DEF IInv, TypeOK, PassIsSound, Handle
<1>2. runs[cur] <= (IF cur \in again THEN 1 ELSE 0) /\ runs \in [Ids -> Nat]
  BY DEF IInv, TypeOK, RunsAreCounted, Handle
<1>3. active' \in 0..MaxActive /\ left + active' <= MaxActive
  <2>1. left + active < MaxActive /\ (active' = active \/ active' = active + 1)
    BY DEF IInv, PassIsSound, Handle
  <2> QED BY <2>1, BoundsAssumption DEF IInv, TypeOK
<1>4. runs' = [runs EXCEPT ![cur] = runs[cur] + 1]
  BY DEF Handle
<1>5. runs' \in [Ids -> Nat]
  BY <1>1, <1>2, <1>4
<1>6. TypeOK'
  BY <1>3, <1>5, Zenon DEF IInv, TypeOK, Handle, Still, pubVars
<1>7. PassIsSound'
  BY <1>3 DEF IInv, PassIsSound, Handle
<1>8. RunsAreCounted'
  BY <1>1, <1>2, <1>4 DEF IInv, RunsAreCounted, Handle
<1>9. TakenOnce'
  BY <1>1, <1>2, <1>4 DEF IInv, TakenOnce, Handle
<1> QED BY <1>6, <1>7, <1>8, <1>9, GatewayFrame DEF IInv, Handle

\* The pass is over.
LEMMA DrainEndsStep == ASSUME IInv, DrainEnds PROVE IInv'
<1>1. 0 \in 0..Budget
  BY BoundsAssumption
<1>2. TypeOK'
  BY <1>1, Zenon DEF IInv, TypeOK, DrainEnds, Idle, Still, pubVars
<1>3. PassIsSound'
  BY DEF IInv, PassIsSound, DrainEnds, Idle
<1>4. RunsAreCounted' /\ TakenOnce'
  BY RunsFrame DEF DrainEnds
<1> QED BY <1>2, <1>3, <1>4, GatewayFrame DEF IInv, DrainEnds

\* A run ends.
LEMMA RunEndsStep == ASSUME IInv, RunEnds PROVE IInv'
<1>1. UNCHANGED <<pc, ready, seen, batch, left, cur>> /\ pc' # "handle"
  BY DEF RunEnds, gwVars
<1>2. active' \in 0..MaxActive
  BY BoundsAssumption DEF IInv, TypeOK, RunEnds
<1>3. TypeOK'
  BY <1>1, <1>2, Zenon DEF IInv, TypeOK, RunEnds, Still, pubVars
<1>4. PassIsSound'
  BY <1>1 DEF IInv, PassIsSound, RunEnds
<1>5. RunsAreCounted' /\ TakenOnce'
  BY <1>1, RunsFrame DEF RunEnds
<1> QED BY <1>3, <1>4, <1>5, GatewayFrame DEF IInv, RunEnds

\* A processed envelope is put back, once.
LEMMA RequeueStep == ASSUME IInv, NEW i \in Ids, Requeue(i) PROVE IInv'
<1>1. /\ i \in done /\ i \notin again /\ pc = "tick"
      /\ done' = done \ {i} /\ inbox' = inbox \cup {i} /\ again' = again \cup {i}
      /\ UNCHANGED <<pc, ready, seen, batch, left, cur, active, runs>>
  BY DEF Requeue, gwVars
<1>2. inbox' \cup done' = inbox \cup done
  BY <1>1
<1>3. TypeOK'
  BY <1>1, Zenon DEF IInv, TypeOK, Requeue, Still, pubVars
<1>4. PassIsSound'
  BY <1>1, <1>2 DEF IInv, PassIsSound
<1>5. RunsAreCounted'
  BY <1>1, <1>2 DEF IInv, TypeOK, RunsAreCounted, TakenOnce
<1>6. TakenOnce'
  BY <1>1 DEF IInv, TypeOK, TakenOnce
<1> QED BY <1>2, <1>3, <1>4, <1>5, <1>6, GatewayFrame DEF IInv, Requeue

\* The gateway is killed.
LEMMA KillGatewayStep == ASSUME IInv, KillGateway PROVE IInv'
<1>1. 0 \in 0..Budget /\ 0 \in 0..MaxActive /\ faults' \in 0..MaxFaults
  BY BoundsAssumption DEF IInv, TypeOK, KillGateway
<1>2. TypeOK'
  BY <1>1, Zenon DEF IInv, TypeOK, KillGateway, Idle, Still, pubVars
<1>3. PassIsSound'
  BY DEF IInv, PassIsSound, KillGateway, Idle
<1>4. RunsAreCounted' /\ TakenOnce'
  BY RunsFrame DEF KillGateway
<1> QED BY <1>2, <1>3, <1>4, GatewayFrame DEF IInv, KillGateway

\* The envelope is committed: a new file with a new message.
LEMMA CommitStep == ASSUME IInv, NEW p \in Publishers, Commit(p) PROVE IInv'
<1> DEFINE i == id[p]
           msg == <<p, begun[p]>>
<1>1. /\ at[p] = "writing"
      /\ UNCHANGED <<lock, counter, begun, done, wake>> /\ Quiet
  BY DEF Commit
<1>2. UNCHANGED <<pc, ready, seen, batch, left, cur, active, runs, again>>
  BY <1>1 DEF Quiet, gwVars
<1>3. i \in Ids /\ i <= counter /\ i \notin inbox /\ i \notin done
  BY <1>1 DEF IInv, IdsAreGiven
<1>4. msg \in Publishers \X Nat /\ msg \notin sent /\ msg[1] = p /\ msg[2] = begun[p]
  BY <1>1 DEF IInv, TypeOK, MessagesAreNew
<1>5. CASE /\ inbox' = inbox \cup {i} /\ body' = [body EXCEPT ![i] = msg]
           /\ sent' = sent \cup {msg} /\ At(p, "signals", i) /\ UNCHANGED faults
  <2>1. msg \in (Publishers \cup {None}) \X Nat
    BY <1>4
  <2> HIDE DEF msg, i
  <2>2. TypeOK'
    BY <1>1, <1>2, <1>3, <1>4, <1>5, <2>1, Zenon DEF IInv, TypeOK, At
  <2>3. /\ body'[i] = msg
        /\ \A j \in Ids : j # i => body'[j] = body[j]
    BY <1>3, <1>5 DEF IInv, TypeOK
  <2>4. IdsAreGiven'
    <3>1. ASSUME NEW j \in inbox' \cup done' PROVE j <= counter' /\ body'[j] \in sent'
      <4>1. CASE j = i
        BY <1>1, <1>3, <1>5, <2>3, <4>1
      <4>2. CASE j \in inbox \cup done /\ j # i
        <5>1. j \in Ids /\ j <= counter /\ body[j] \in sent
          BY <4>2 DEF IInv, TypeOK, IdsAreGiven
        <5> QED BY <1>1, <1>5, <2>3, <4>2, <5>1
      <4> QED BY <1>1, <1>5, <4>1, <4>2
    <3>2. \A q \in Publishers : at'[q] = "locked" <=> lock' = q
      BY <1>1, <1>5, Zenon DEF IInv, TypeOK, IdsAreGiven, At
    <3>3. \A q \in Publishers : at'[q] = "locked" => id'[q] = counter' + 1
      BY <1>1, <1>5, Zenon DEF IInv, TypeOK, IdsAreGiven, At
    <3>4. ASSUME NEW q \in Publishers, at'[q] \in {"reserved", "writing"}
          PROVE  q # p /\ at'[q] = at[q] /\ id'[q] = id[q] /\ id[q] # i
      BY <1>1, <1>5, <3>4, Zenon DEF IInv, TypeOK, IdsAreGiven, At, i
    <3>5. \A q \in Publishers : at'[q] \in {"reserved", "writing"} =>
            id'[q] \in Ids /\ id'[q] <= counter' /\ id'[q] \notin inbox' \cup done'
      BY <1>1, <1>5, <3>4, Zenon DEF IInv, IdsAreGiven
    <3>6. \A q, r \in Publishers :
            /\ at'[q] \in {"reserved", "writing"} /\ at'[r] \in {"reserved", "writing"}
            /\ id'[q] = id'[r]
            => q = r
      BY <3>4, Zenon DEF IInv, IdsAreGiven
    <3> QED BY <3>1, <3>2, <3>3, <3>5, <3>6 DEF IdsAreGiven
  <2>5. MessagesAreNew'
    <3>1. ASSUME NEW m \in sent' PROVE m[2] <= begun'[m[1]]
      <4>1. begun[p] \in Nat
        BY DEF IInv, TypeOK
      <4> QED BY <1>1, <1>4, <1>5, <4>1 DEF IInv, MessagesAreNew
    <3>2. ASSUME NEW q \in Publishers, at'[q] \in {"locked", "reserved", "writing"}
          PROVE  <<q, begun'[q]>> \notin sent'
      <4>1. q # p /\ at'[q] = at[q]
        BY <1>5, <3>2, Zenon DEF IInv, TypeOK, At
      <4>2. <<q, begun[q]>> # msg
        BY <4>1 DEF msg
      <4> QED BY <1>1, <1>5, <3>2, <4>1, <4>2 DEF IInv, MessagesAreNew
    <3> QED BY <3>1, <3>2 DEF MessagesAreNew
  <2>6. i \notin seen /\ i \notin batch /\ (pc = "handle" => cur # i)
    BY <1>3 DEF IInv, PassIsSound
  <2>7. Cardinality(inbox' \cup done') <= ScanCap => Cardinality(inbox \cup done) <= ScanCap
    <3>1. IsFiniteSet(Ids)
      BY IdsAssumption, FS_Interval DEF Ids
    <3>2. IsFiniteSet(inbox' \cup done')
      BY <2>2, <3>1, FS_Subset DEF TypeOK
    <3>3. inbox \cup done \subseteq inbox' \cup done'
      BY <1>1, <1>5
    <3>4. Cardinality(inbox \cup done) <= Cardinality(inbox' \cup done')
      BY <3>2, <3>3, FS_Subset
    <3>5. IsFiniteSet(inbox \cup done)
      BY <3>2, <3>3, FS_Subset
    <3>6. /\ Cardinality(inbox \cup done) \in Nat
          /\ Cardinality(inbox' \cup done') \in Nat
      BY <3>2, <3>5, FS_CardinalityType
    <3> QED BY <3>4, <3>6, BoundsAssumption
  <2>8. PassIsSound'
    BY <1>1, <1>2, <1>3, <1>5, <2>6, <2>7 DEF IInv, PassIsSound
  <2>9. RunsAreCounted'
    <3>1. runs[i] = 0
      BY <1>3 DEF IInv, RunsAreCounted
    <3> QED BY <1>1, <1>2, <1>5, <3>1 DEF IInv, RunsAreCounted
  <2>10. MessagesKept'
    <3>1. ASSUME NEW m \in sent
          PROVE  \E k \in inbox' \cup done' :
                   \A j \in inbox' \cup done' : body'[j] = m <=> j = k
      <4>1. PICK k \in inbox \cup done : \A j \in inbox \cup done : body[j] = m <=> j = k
        BY DEF IInv, MessagesKept
      <4>2. \A j \in inbox \cup done : j # i /\ body'[j] = body[j]
        BY <1>3, <2>3 DEF IInv, TypeOK
      <4>3. body'[i] # m /\ k # i
        BY <1>4, <2>3, <4>2
      <4>4. k \in inbox' \cup done'
        BY <1>1, <1>5, <4>1
      <4>5. ASSUME NEW j \in inbox' \cup done' PROVE body'[j] = m <=> j = k
        <5>1. j = i \/ j \in inbox \cup done
          BY <1>1, <1>5
        <5> QED BY <4>1, <4>2, <4>3, <5>1
      <4> QED BY <4>4, <4>5
    <3>2. ASSUME NEW j \in inbox' \cup done' PROVE body'[j] = msg <=> j = i
      <4>1. CASE j = i
        BY <2>3, <4>1
      <4>2. CASE j \in inbox \cup done /\ j # i
        <5>1. j \in Ids /\ body[j] \in sent
          BY <4>2 DEF IInv, TypeOK, IdsAreGiven
        <5> QED BY <1>4, <2>3, <4>2, <5>1
      <4> QED BY <1>1, <1>5, <4>1, <4>2
    <3>3. i \in inbox'
      BY <1>5
    <3>4. \E k \in inbox' \cup done' :
            \A j \in inbox' \cup done' : body'[j] = msg <=> j = k
      BY <3>2, <3>3
    <3>5. \A m \in sent' : m \in sent \/ m = msg
      BY <1>5
    <3> QED BY <3>1, <3>4, <3>5 DEF MessagesKept
  <2>11. TakenOnce'
    BY <1>2, Zenon DEF IInv, TakenOnce
  <2> QED BY <2>2, <2>4, <2>5, <2>8, <2>9, <2>10, <2>11 DEF IInv
<1>6. CASE /\ faults < MaxFaults /\ faults' = faults + 1
           /\ At(p, "idle", 0) /\ UNCHANGED <<inbox, body, sent>>
  <2>1. faults' \in 0..MaxFaults
    BY <1>6, BoundsAssumption DEF IInv, TypeOK
  <2>2. TypeOK'
    BY <1>1, <1>2, <1>6, <2>1, Zenon DEF IInv, TypeOK, At
  <2>3. IdsAreGiven'
    BY <1>1, <1>6 DEF IInv, TypeOK, IdsAreGiven, At
  <2>4. MessagesAreNew'
    BY <1>1, <1>6 DEF IInv, TypeOK, MessagesAreNew, At
  <2> QED BY <1>1, <1>6, <2>2, <2>3, <2>4, PublisherFrame DEF IInv
<1> QED BY <1>5, <1>6 DEF Commit

-----------------------------------------------------------------------------
(* The invariant, and what follows from it.                                *)

\* The first states satisfy the invariant.
LEMMA InitIInv == Init => IInv
<1> SUFFICES ASSUME Init PROVE IInv
  OBVIOUS
<1>1. FirstId \in Ids /\ 0 \in Nat /\ 0 \in 0..Budget /\ 0 \in 0..MaxActive /\ 0 \in 0..MaxFaults
  BY IdsAssumption, BoundsAssumption DEF Ids
<1>2. TypeOK
  BY <1>1, Zenon DEF Init, TypeOK
<1>3. IdsAreGiven /\ MessagesAreNew /\ MessagesKept
  BY PublishersAssumption DEF Init, IdsAreGiven, MessagesAreNew, MessagesKept
<1>4. PassIsSound
  BY DEF Init, PassIsSound
<1>5. RunsAreCounted /\ TakenOnce
  BY DEF Init, RunsAreCounted, TakenOnce
<1> QED BY <1>2, <1>3, <1>4, <1>5 DEF IInv

\* A step that changes nothing preserves it.
LEMMA StutterStep == ASSUME IInv, UNCHANGED vars PROVE IInv'
<1>1. Still /\ Quiet /\ UNCHANGED <<inbox, done, body, sent, wake, faults>>
  BY DEF vars, Still, Quiet
<1>2. TypeOK'
  BY <1>1, Zenon DEF IInv, TypeOK, Still, Quiet, pubVars, gwVars
<1> QED BY <1>1, <1>2, GatewayFrame, PublisherFrame DEF IInv

\* Every step preserves the inductive invariant.
LEMMA Inductive == IInv /\ [Next]_vars => IInv'
<1> SUFFICES ASSUME IInv, [Next]_vars PROVE IInv'
  OBVIOUS
<1>1. ASSUME NEW p \in Publishers, Publish(p) \/ KillPublisher(p) PROVE IInv'
  BY <1>1, ReadCounterStep, WriteCounterStep, LookStep, CommitStep, SignalWakeStep,
     KillPublisherStep DEF Publish
<1>2. CASE Loop
  BY <1>2, StartStep, CollectStep, PollStep, TickStep, ScanStep, RenameStep, HandleStep,
     DrainEndsStep DEF Loop
<1>3. CASE RunEnds \/ KillGateway
  BY <1>3, RunEndsStep, KillGatewayStep
<1>4. ASSUME NEW i \in Ids, Requeue(i) PROVE IInv'
  BY <1>4, RequeueStep
<1>5. CASE UNCHANGED vars
  BY <1>5, StutterStep
<1> QED BY <1>1, <1>2, <1>3, <1>4, <1>5 DEF Next

\* The inductive invariant holds in every reachable state.
THEOREM AlwaysIInv == Spec => []IInv
  BY InitIInv, Inductive, PTL DEF Spec

\* Type correctness: in particular never more runs are active than
\* RT_MAX_ACTIVE_RUNS, although a pass counts the room once and takes many.
THEOREM TypeCorrect == Spec => []TypeOK
<1>1. IInv => TypeOK
  BY DEF IInv
<1> QED BY AlwaysIInv, <1>1, PTL

\* next_envelope_id never gives an id twice, so bus_publish never writes one
\* message over another, whoever dies with the lock or after it: every message
\* that reached the inbox is in exactly one envelope.
THEOREM MessagesAreKept == Spec => []MessagesKept
<1>1. IInv => MessagesKept
  BY DEF IInv
<1> QED BY AlwaysIInv, <1>1, PTL

\* bus_drain_inbox hands an envelope on only after it has moved it: a run is
\* made from it once, and once more when it is requeued.
THEOREM OneRunPerEnvelope == Spec => []TakenOnce
<1>1. IInv => TakenOnce
  BY DEF IInv
<1> QED BY AlwaysIInv, <1>1, PTL

\* A pass takes the oldest of what its scan named: while the inbox fits the
\* scan and the ids fit their padding, nothing that was there is passed over.
THEOREM OldestIsTaken == Spec => OldestTaken
<1>1. ASSUME IInv, Rename PROVE TakesOldest
  <2> SUFFICES ASSUME pc' = "handle", Cardinality(inbox \cup done) <= ScanCap,
                      NEW i \in seen \cap inbox, cur' < PadLimit
               PROVE  i >= cur'
    BY DEF TakesOldest
  <2>1. i \in batch /\ i \in Ids
    BY <1>1 DEF IInv, TypeOK, PassIsSound, Rename
  <2>2. cur' \in Ids /\ NameKey(cur') <= NameKey(i)
    BY <1>1, <2>1 DEF IInv, TypeOK, Rename, Oldest
  <2>3. i \in Int /\ cur' \in Int /\ PadLimit \in Int
    BY <2>1, <2>2, IdsAssumption DEF Ids
  <2>4. \A a, b \in Int : a < PadLimit /\ NameKey(a) <= NameKey(b) => b >= a
    BY <2>3 DEF NameKey
  <2> QED BY <2>2, <2>3, <2>4
<1>2. ASSUME [Next]_vars, ~ Rename PROVE pc = "drain" => pc' # "handle"
  BY <1>2 DEF Next, Publish, Loop, ReadCounter, WriteCounter, Look, Commit, SignalWake,
     KillPublisher, Start, Collect, Poll, Tick, Scan, Handle, DrainEnds, RunEnds,
     KillGateway, Requeue, Quiet, gwVars, vars
<1>3. IInv /\ [Next]_vars => [TakesOldest]_vars
  BY <1>1, <1>2 DEF TakesOldest
<1> QED BY AlwaysIInv, <1>3, PTL DEF Spec, OldestTaken
=============================================================================
