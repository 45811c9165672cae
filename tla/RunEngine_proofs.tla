-------------------------- MODULE RunEngine_proofs --------------------------
(***************************************************************************)
(* Proofs about RunEngine for every number of envelopes, every profile and *)
(* every bound: the single action slot, and the finality of a run's        *)
(* terminal line.                                                          *)
(***************************************************************************)
EXTENDS RunEngine, TLAPS

(* Opaque to the provers unless they are cited.                            *)
Flag == BOOLEAN
Number == Int
Child == {"run", "ok", "bad"}
Reasons == {"none", "agent", "action", "slot"}
Queue == Seq({"msg", "sub"})

Job ==
  [kind : {"agent", "action"}, run : Envs, step : Number, st : {"running", "finished", "failed"},
   child : Child, pipe : {"open", "eof"}, age : Number, term : Flag,
   late : Flag]

States ==
  {"free", "ready", "running", "waiting_jobs", "waiting_event", "waiting_slot",
   "done", "failed"}

Rec ==
  [state : States,
   phase : Number, advance : Number, attempts : Number, pending : Queue,
   wait : Reasons, at : Number, waiting : Number,
   told : Flag, progress : Flag]

(* What the steps need to know of the types.                               *)
Typed ==
  /\ profile \in Profiles
  /\ run \in [Envs -> Rec]
  /\ jobs \in Seq(Job)
  /\ log \in [Envs -> {"none", "inbound", "open", "closed"}]

(* A child that is alive belongs to a job the job runner still counts, and *)
(* the job runner counts at most one action job.                           *)
SlotInv ==
  /\ \A i \in DOMAIN jobs : jobs[i].child = "run" => jobs[i].st = "running"
  /\ \A i, k \in DOMAIN jobs :
       (/\ jobs[i].kind = "action" /\ jobs[i].st = "running"
        /\ jobs[k].kind = "action" /\ jobs[k].st = "running") => i = k

(* An envelope that has no run yet is in one place, and its record is      *)
(* blank; a sealed log belongs to a run that is over.                      *)
SealInv ==
  /\ fresh \subseteq Envs /\ inbox \in Seq(Envs)
  /\ \A e \in fresh : run[e].state = "free"
  /\ \A i \in 1 .. Len(inbox) : run[inbox[i]].state = "free" /\ inbox[i] \notin fresh
  /\ \A i, k \in 1 .. Len(inbox) : inbox[i] = inbox[k] => i = k
  /\ \A e \in Envs : log[e] = "closed" => run[e].state \in Terminal

-----------------------------------------------------------------------------
(* Facts about the helpers.                                                *)

LEMMA ProfileTyped ==
  ASSUME Typed
  PROVE  Steps \in Seq(StepKinds) /\ profile.one_pass \in BOOLEAN /\ profile.retry \in Nat
BY ZenonT(40), EngineAssumption DEF Typed, Steps

(* The two updates the tick makes to a job's record.                       *)
JobEnds(j, a, b) == [j EXCEPT !.late = a, !.st = b]
JobGoesOn(j, a, b, c, d) == [j EXCEPT !.late = a, !.term = b, !.child = c, !.age = d]

LEMMA JobEndsTyped ==
  ASSUME NEW j \in Job, NEW a \in Flag, NEW b \in {"finished", "failed"}
  PROVE  /\ JobEnds(j, a, b) \in Job
         /\ JobEnds(j, a, b).kind = j.kind /\ JobEnds(j, a, b).run = j.run
         /\ JobEnds(j, a, b).step = j.step
         /\ JobEnds(j, a, b).st = b /\ JobEnds(j, a, b).child = j.child
BY ZenonT(40) DEF Job, JobEnds

LEMMA JobGoesOnTyped ==
  ASSUME NEW j \in Job, NEW a \in Flag, NEW b \in Flag,
         NEW c \in Child, NEW d \in Number
  PROVE  /\ JobGoesOn(j, a, b, c, d) \in Job
         /\ JobGoesOn(j, a, b, c, d).kind = j.kind
         /\ JobGoesOn(j, a, b, c, d).run = j.run
         /\ JobGoesOn(j, a, b, c, d).st = j.st /\ JobGoesOn(j, a, b, c, d).step = j.step
         /\ JobGoesOn(j, a, b, c, d).child = c
BY ZenonT(40) DEF Job, JobGoesOn

(* k is the job j later: the same job, and nothing of it revived.          *)
Later(j, k) ==
  /\ k.kind = j.kind /\ k.run = j.run /\ k.step = j.step
  /\ k.st = "running" => j.st = "running"
  /\ k.child = "run" => j.child = "run"
  /\ (j.child = "run" => j.st = "running") => (k.child = "run" => k.st = "running")

(* The job runner's tick keeps a job's identity, and never revives it.     *)
LEMMA TickedKeeps ==
  ASSUME NEW j \in Job
  PROVE  Ticked(j) \in Job /\ Later(j, Ticked(j))
<1> DEFINE late == ~j.term /\ j.age >= Deadline
           kill == j.term /\ j.age >= Grace
           b == IF j.child = "ok" /\ ~j.late /\ ~late THEN "finished" ELSE "failed"
           c == IF kill /\ j.child = "run" THEN "bad" ELSE j.child
           d == IF late THEN 0 ELSE IF kill THEN j.age ELSE j.age + 1
           l == j.late \/ late
           t == j.term \/ late
           tg == JobEnds(j, l, b)
           tk == JobGoesOn(j, l, t, c, d)
<1>1. \/ Ticked(j) = j
      \/ j.child # "run" /\ Ticked(j) = tg
      \/ j.st = "running" /\ Ticked(j) = tk
  BY ZenonT(40) DEF Ticked, JobEnds, JobGoesOn
<1>2. /\ j.child \in Child /\ j.age \in Number
      /\ l \in Flag /\ t \in Flag
  BY ZenonT(40) DEF Job, Flag
<1>3. b \in {"finished", "failed"} /\ c \in Child
  BY <1>2, ZenonT(40) DEF Child
<1>4. d \in Number
  <2> HIDE DEF late, kill
  <2> QED BY <1>2 DEF Number
<1> HIDE DEF late, kill, l, t, b, c, d
<1>5. /\ tg \in Job /\ tg.kind = j.kind /\ tg.run = j.run /\ tg.step = j.step
      /\ tg.st = b /\ tg.child = j.child
  BY <1>2, <1>3, JobEndsTyped, ZenonT(40)
<1>6. /\ tk \in Job /\ tk.kind = j.kind /\ tk.run = j.run /\ tk.step = j.step
      /\ tk.st = j.st /\ tk.child = c
  BY <1>2, <1>3, <1>4, JobGoesOnTyped
<1>7. b # "running" /\ (c = "run" => j.child = "run")
  BY ZenonT(40) DEF b, c
<1>8. CASE Ticked(j) = j
  BY <1>8, ZenonT(40) DEF Later
<1>9. CASE j.child # "run" /\ Ticked(j) = tg
  BY <1>5, <1>7, <1>9, ZenonT(40) DEF Later
<1>10. CASE j.st = "running" /\ Ticked(j) = tk
  BY <1>6, <1>7, <1>10, ZenonT(40) DEF Later
<1> QED BY <1>1, <1>8, <1>9, <1>10, ZenonT(40)

(* Removing a job keeps the others, in order.                              *)
LEMMA UnlinkedKeeps ==
  ASSUME Typed, NEW i \in 1 .. Len(jobs)
  PROVE  /\ Unlinked(i) \in Seq(Job)
         /\ Len(Unlinked(i)) = Len(jobs) - 1
         /\ \A k \in 1 .. Len(jobs) - 1 :
              Unlinked(i)[k] = jobs[IF k < i THEN k ELSE k + 1]
<1>1. jobs \in Seq(Job)
  BY DEF Typed
<1>2. Len(jobs) - 1 \in Nat
  BY <1>1
<1>3. \A k \in 1 .. Len(jobs) - 1 : jobs[k] \in Job /\ jobs[k + 1] \in Job
  BY <1>1
<1>4. Unlinked(i) \in [1 .. Len(jobs) - 1 -> Job]
  BY <1>3, ZenonT(40) DEF Unlinked
<1>5. Unlinked(i) \in Seq(Job) /\ Len(Unlinked(i)) = Len(jobs) - 1
  BY <1>2, <1>4
<1>6. \A k \in 1 .. Len(jobs) - 1 : Unlinked(i)[k] = IF k < i THEN jobs[k] ELSE jobs[k + 1]
  BY ZenonT(40) DEF Unlinked
<1>7. \A k \in 1 .. Len(jobs) - 1 : Unlinked(i)[k] = jobs[IF k < i THEN k ELSE k + 1]
  BY <1>6, ZenonT(40)
<1> QED BY <1>5, <1>7

LEMMA PrependKeeps ==
  ASSUME NEW S, NEW s \in Seq(S), NEW x \in S
  PROVE  /\ <<x>> \o s \in Seq(S)
         /\ Len(<<x>> \o s) = Len(s) + 1
         /\ (<<x>> \o s)[1] = x
         /\ \A k \in 2 .. Len(s) + 1 : (<<x>> \o s)[k] = s[k - 1]
OBVIOUS

(* Nothing counted means no such job.                                      *)
LEMMA SlotFree ==
  ASSUME ActiveJobs("action") = {}
  PROVE  \A i \in DOMAIN jobs : ~(jobs[i].st = "running" /\ jobs[i].kind = "action")
BY ZenonT(40) DEF ActiveJobs

-----------------------------------------------------------------------------
(* What the operations on a run's record return.                           *)

LEMMA StateTyped ==
  ASSUME NEW r \in Rec, NEW st \in States
  PROVE  /\ [r EXCEPT !.state = st] \in Rec
         /\ [r EXCEPT !.state = st].state = st
         /\ [r EXCEPT !.state = st].phase = r.phase
BY ZenonT(40) DEF Rec

LEMMA PhaseTyped ==
  ASSUME NEW r \in Rec, NEW p \in Number
  PROVE  /\ [r EXCEPT !.phase = p] \in Rec
         /\ [r EXCEPT !.phase = p].state = r.state
BY ZenonT(40) DEF Rec

LEMMA PendingTyped ==
  ASSUME NEW r \in Rec, NEW q \in Queue
  PROVE  /\ [r EXCEPT !.pending = q] \in Rec
         /\ [r EXCEPT !.pending = q].state = r.state
         /\ [r EXCEPT !.pending = q].phase = r.phase
BY ZenonT(40) DEF Rec

LEMMA ToldTyped ==
  ASSUME NEW r \in Rec, NEW b \in Flag
  PROVE  /\ [r EXCEPT !.told = b] \in Rec
         /\ [r EXCEPT !.told = b].state = r.state
         /\ [r EXCEPT !.told = b].phase = r.phase
         /\ [r EXCEPT !.told = b].pending = r.pending
BY ZenonT(40) DEF Rec

LEMMA WaitClearTyped ==
  ASSUME NEW r \in Rec
  PROVE  WaitClear(r) \in Rec /\ WaitClear(r).state = r.state
<1>1. "none" \in Reasons /\ 0 \in Number
  BY DEF Reasons, Number
<1> QED BY ZenonT(40), <1>1 DEF Rec, WaitClear

LEMMA WaitForTyped ==
  ASSUME NEW r \in Rec, NEW w \in Reasons, NEW k \in Number
  PROVE  WaitFor(r, w, k) \in Rec /\ WaitFor(r, w, k).state \in {"waiting_slot", "waiting_jobs"}
BY ZenonT(40) DEF Rec, States, WaitFor

LEMMA TrackedTyped ==
  ASSUME NEW r \in Rec
  PROVE  /\ Tracked(r) \in Rec /\ Tracked(r).state = r.state
         /\ Untracked(r) \in Rec /\ Untracked(r).state = r.state
<1>1. r.waiting + 1 \in Number /\ r.waiting - 1 \in Number
  BY DEF Rec, Number
<1> QED BY ZenonT(40), <1>1 DEF Rec, Tracked, Untracked

LEMMA BlankTyped == Blank \in Rec /\ Blank.state = "free"
<1>1. /\ "free" \in States /\ "none" \in Reasons /\ FALSE \in Flag
      /\ 0 \in Number /\ 1 \in Number /\ <<>> \in Queue
  BY DEF States, Reasons, Flag, Number, Queue
<1> QED BY ZenonT(40), <1>1 DEF Rec, Blank

LEMMA BeginTyped ==
  ASSUME NEW r \in Rec
  PROVE  Begin(r) \in Rec /\ Begin(r).state = "running"
<1> DEFINE r1 == [r EXCEPT !.state = "running"]
           r2 == [r1 EXCEPT !.advance = r.advance + 1]
           r3 == [r2 EXCEPT !.told = FALSE]
           r4 == [r3 EXCEPT !.progress = FALSE]
<1>1. r4 \in Rec /\ r4.state = "running"
  <2>1. r1 \in Rec /\ r1.state = "running"
    BY ZenonT(40), StateTyped DEF States
  <2> HIDE DEF r1
  <2>2. r2 \in Rec /\ r2.state = "running"
    <3>1. r.advance + 1 \in Number
      BY DEF Rec, Number
    <3> QED BY ZenonT(40), <2>1, <3>1 DEF Rec
  <2> HIDE DEF r2
  <2>3. r3 \in Rec /\ r3.state = "running"
    BY ZenonT(40), <2>2, ToldTyped DEF Flag
  <2> HIDE DEF r3
  <2> QED BY ZenonT(40), <2>3 DEF Rec, Flag
<1>2. /\ [r EXCEPT !.state = "running"] \in Rec
      /\ [r EXCEPT !.state = "running"].state = "running"
  BY ZenonT(40), StateTyped DEF States
<1> QED BY <1>1, <1>2, ZenonT(40) DEF Begin

(* An agent's output on a run's record.                                    *)
Applied(r, q, b) == [r EXCEPT !.pending = q, !.progress = b]

LEMMA AppliedTyped ==
  ASSUME NEW r \in Rec, NEW q \in Queue, NEW b \in Flag
  PROVE  Applied(r, q, b) \in Rec /\ Applied(r, q, b).state = r.state
BY ZenonT(40) DEF Rec, Applied

LEMMA WakeOkTyped ==
  ASSUME NEW r \in Rec, NEW j \in Job
  PROVE  WakeOk(r, j) \in Rec /\ WakeOk(r, j).state \in {"running", "waiting_jobs", "ready"}
<1> DEFINE st == IF j.kind = "agent" THEN "running"
                 ELSE IF r.waiting > 1 THEN "waiting_jobs" ELSE "ready"
           u == Untracked(r)
<1>1. st \in {"running", "waiting_jobs", "ready"} /\ st \in States
  BY ZenonT(40) DEF States
<1>2. u \in Rec
  BY ZenonT(40), TrackedTyped
<1> HIDE DEF st, u
<1>3. [u EXCEPT !.state = st] \in Rec /\ [u EXCEPT !.state = st].state = st
  BY ZenonT(40), <1>1, <1>2, StateTyped
<1>4. WakeOk(r, j) = WaitClear([u EXCEPT !.state = st])
  BY ZenonT(40) DEF WakeOk, st, u
<1> QED BY ZenonT(40), <1>1, <1>3, <1>4, WaitClearTyped

-----------------------------------------------------------------------------
(* What one step does to the run it is about, to the others and to the     *)
(* jobs.                                                                   *)

RunStep(e) ==
  /\ run' \in [Envs -> Rec]
  /\ log' \in [Envs -> {"none", "inbound", "open", "closed"}]
  /\ \A x \in Envs : x # e => run'[x] = run[x] /\ log'[x] = log[x]
  /\ run'[e].state # "free"
  /\ log'[e] = "closed" => run'[e].state \in Terminal

JobStep(e) ==
  \/ jobs' = jobs
  \/ \E k \in {"agent", "action"}, p \in Number :
       /\ jobs' = <<NewJob(k, e, p)>> \o jobs
       /\ k = "action" => ActiveJobs("action") = {}

LEMMA GoesStep ==
  ASSUME Typed, NEW e \in Envs, NEW r \in Rec, r.state # "free", Goes(e, r)
  PROVE  RunStep(e)
BY ZenonT(40) DEF Typed, Goes, RunStep

LEMMA EndStep ==
  ASSUME Typed, NEW e \in Envs, NEW r \in Rec, NEW st \in Terminal,
         log[e] # "closed", End(e, r, st)
  PROVE  RunStep(e)
<1>1. st \in States /\ "failed" \in States /\ st # "free" /\ "failed" \in Terminal
  BY ZenonT(40) DEF Terminal, States
<1>2. /\ [r EXCEPT !.state = st] \in Rec /\ [r EXCEPT !.state = st].state = st
      /\ [r EXCEPT !.state = "failed"] \in Rec /\ [r EXCEPT !.state = "failed"].state = "failed"
  BY ZenonT(40), <1>1, StateTyped
<1> DEFINE a == [r EXCEPT !.state = st]
           b == [r EXCEPT !.state = "failed"]
<1>3. \/ run' = [run EXCEPT ![e] = a] /\ log' = [log EXCEPT ![e] = "closed"]
      \/ /\ run' = [run EXCEPT ![e] = b]
         /\ log' = [log EXCEPT ![e] = IF log[e] = "inbound" THEN "open" ELSE log[e]]
  BY ZenonT(40) DEF End
<1> HIDE DEF a, b
<1>4. CASE run' = [run EXCEPT ![e] = a] /\ log' = [log EXCEPT ![e] = "closed"]
  <2>1. a \in Rec /\ a.state = st
    BY ZenonT(40), <1>2 DEF a
  <2> QED BY <1>1, <1>4, <2>1, ZenonT(40) DEF Typed, RunStep
<1>5. CASE /\ run' = [run EXCEPT ![e] = b]
           /\ log' = [log EXCEPT ![e] = IF log[e] = "inbound" THEN "open" ELSE log[e]]
  <2>1. b \in Rec /\ b.state = "failed"
    BY ZenonT(40), <1>2 DEF b
  <2>2. (IF log[e] = "inbound" THEN "open" ELSE log[e]) \in {"none", "inbound", "open"}
    BY ZenonT(40) DEF Typed
  <2> DEFINE l == IF log[e] = "inbound" THEN "open" ELSE log[e]
  <2> HIDE DEF l
  <2>3. log' = [log EXCEPT ![e] = l] /\ l \in {"none", "inbound", "open"}
    BY ZenonT(40), <1>5, <2>2 DEF l
  <2> QED BY <1>5, <2>1, <2>3, ZenonT(40) DEF Typed, RunStep
<1> QED BY ZenonT(40), <1>3, <1>4, <1>5

LEMMA EndsStep ==
  ASSUME Typed, NEW e \in Envs, NEW r \in Rec, NEW st \in Terminal,
         log[e] # "closed", Ends(e, r, st)
  PROVE  RunStep(e) /\ JobStep(e)
BY EndStep, ZenonT(40) DEF Ends, JobStep

LEMMA NextPhase ==
  ASSUME NEW r \in Rec
  PROVE  /\ [r EXCEPT !.phase = r.phase + 1] \in Rec
         /\ [r EXCEPT !.phase = r.phase + 1].state = r.state
<1>1. r.phase + 1 \in Number
  BY DEF Rec, Number
<1> QED BY ZenonT(40), <1>1, PhaseTyped

LEMMA PoppedStep ==
  ASSUME Typed, NEW e \in Envs, NEW r \in Rec, r.state = "running", r.pending # <<>>,
         NEW implicit \in BOOLEAN, Popped(e, r, implicit)
  PROVE  RunStep(e)
<1> DEFINE q == Tail(r.pending)
           r1 == [r EXCEPT !.pending = q]
<1>1. q \in Queue
  BY DEF Rec, Queue
<1> HIDE DEF q
<1>2. r1 \in Rec /\ r1.state = "running"
  BY ZenonT(40), <1>1, PendingTyped
<1> HIDE DEF r1
<1>3. Emptied(r1, implicit) \in Rec /\ Emptied(r1, implicit).state = "running"
  BY <1>2, NextPhase, ZenonT(40) DEF Emptied
<1>4. Goes(e, r1) \/ Goes(e, Emptied(r1, implicit))
  BY ZenonT(40) DEF Popped, r1, q
<1> QED BY ZenonT(40), <1>2, <1>3, <1>4, GoesStep

LEMMA DrainStep ==
  ASSUME Typed, NEW e \in Envs, NEW r \in Rec, r.state = "running", log[e] # "closed",
         NEW implicit \in BOOLEAN, Drain(e, r, implicit)
  PROVE  RunStep(e) /\ JobStep(e)
<1>1. CASE r.pending = <<>> /\ Goes(e, Emptied(r, implicit)) /\ jobs' = jobs
  <2>1. Emptied(r, implicit) \in Rec /\ Emptied(r, implicit).state = "running"
    BY NextPhase, ZenonT(40) DEF Emptied
  <2> QED BY ZenonT(40), <1>1, <2>1, GoesStep DEF JobStep
<1>2. CASE r.pending # <<>> /\ Popped(e, [r EXCEPT !.told = TRUE], implicit) /\ jobs' = jobs
  <2> DEFINE t == [r EXCEPT !.told = TRUE]
  <2>1. t \in Rec /\ t.state = "running" /\ t.pending = r.pending
    BY ZenonT(40), ToldTyped DEF Flag
  <2> HIDE DEF t
  <2>2. Popped(e, t, implicit)
    BY ZenonT(40), <1>2 DEF t
  <2> QED BY ZenonT(40), <1>2, <2>1, <2>2, PoppedStep DEF JobStep
<1>3. CASE Goes(e, WaitFor(r, "slot", 0)) /\ jobs' = jobs
  <2>1. WaitFor(r, "slot", 0) \in Rec /\ WaitFor(r, "slot", 0).state # "free"
    <3>1. "slot" \in Reasons /\ 0 \in Number
      BY DEF Reasons, Number
    <3> QED BY ZenonT(40), <3>1, WaitForTyped
  <2> QED BY ZenonT(40), <1>3, <2>1, GoesStep DEF JobStep
<1>4. CASE /\ ActiveJobs("action") = {}
           /\ jobs' = <<NewJob("action", e, 0)>> \o jobs
           /\ Goes(e, WaitFor(Tracked([r EXCEPT !.phase =
                        IF implicit \/ profile.one_pass \/ e \in Exec
                        THEN r.phase ELSE 1]), "action", 0))
  <2> DEFINE p == IF implicit \/ profile.one_pass \/ e \in Exec THEN r.phase ELSE 1
             u == [r EXCEPT !.phase = p]
  <2>1. r.phase \in Number /\ 1 \in Number /\ 0 \in Number /\ "action" \in Reasons
    BY DEF Rec, Number, Reasons
  <2>2. p \in Number
    BY <2>1, ZenonT(40)
  <2> HIDE DEF p
  <2>3. u \in Rec
    BY ZenonT(40), <2>2, PhaseTyped
  <2> HIDE DEF u
  <2>4. Tracked(u) \in Rec
    BY ZenonT(40), <2>3, TrackedTyped
  <2>5. /\ WaitFor(Tracked(u), "action", 0) \in Rec
        /\ WaitFor(Tracked(u), "action", 0).state # "free"
    BY ZenonT(40), <2>1, <2>4, WaitForTyped
  <2>6. Goes(e, WaitFor(Tracked(u), "action", 0))
    BY <1>4, ZenonT(40) DEF u, p
  <2>7. RunStep(e)
    BY ZenonT(40), <2>5, <2>6, GoesStep
  <2>8. JobStep(e)
    BY <1>4, <2>1, ZenonT(40) DEF JobStep
  <2> QED BY ZenonT(40), <2>7, <2>8
<1>5. CASE r.pending # <<>> /\ Popped(e, r, implicit) /\ jobs' = jobs
  BY ZenonT(40), <1>5, PoppedStep DEF JobStep
<1>6. CASE End(e, r, "failed") /\ jobs' = jobs
  BY ZenonT(40), <1>6, EndStep DEF JobStep, Terminal
<1> QED BY <1>1, <1>2, <1>3, <1>4, <1>5, <1>6, ZenonT(40) DEF Drain

LEMMA LaunchStep ==
  ASSUME Typed, NEW e \in Envs, NEW r \in Rec, LaunchAgent(e, r)
  PROVE  RunStep(e) /\ JobStep(e)
<1> DEFINE u == [r EXCEPT !.phase = r.phase + 1]
<1>1. u \in Rec
  BY ZenonT(40), NextPhase
<1>2. r.phase \in Number /\ "agent" \in Reasons
  BY ZenonT(40) DEF Rec, Reasons
<1> HIDE DEF u
<1>3. Tracked(u) \in Rec
  BY ZenonT(40), <1>1, TrackedTyped
<1>4. /\ WaitFor(Tracked(u), "agent", r.phase) \in Rec
      /\ WaitFor(Tracked(u), "agent", r.phase).state # "free"
  BY ZenonT(40), <1>2, <1>3, WaitForTyped
<1>5. /\ Goes(e, WaitFor(Tracked(u), "agent", r.phase))
      /\ jobs' = <<NewJob("agent", e, r.phase)>> \o jobs
  BY ZenonT(40) DEF LaunchAgent, u
<1>6. RunStep(e)
  BY <1>4, <1>5, GoesStep
<1>7. JobStep(e)
  BY <1>2, <1>5, ZenonT(40) DEF JobStep
<1> QED BY ZenonT(40), <1>6, <1>7

(* A request queue grows by what an agent asked for.                       *)
LEMMA QueueGrows ==
  ASSUME NEW r \in Rec, NEW q \in Outputs
  PROVE  r.pending \o q \in Queue
<1>1. r.pending \in Seq({"msg", "sub"}) /\ q \in Seq({"msg", "sub"})
  BY ZenonT(40), EngineAssumption DEF Rec, Queue
<1> QED BY <1>1 DEF Queue

LEMMA NativeEffect ==
  ASSUME Typed, NEW e \in Envs, NEW r \in Rec, r.state = "running", NativeStep(e, r)
  PROVE  RunStep(e) /\ JobStep(e)
<1>1. PICK q \in Outputs, p \in BOOLEAN :
        Goes(e, [r EXCEPT !.phase = r.phase + 1, !.pending = r.pending \o q,
                          !.progress = r.progress \/ p])
  BY ZenonT(40) DEF NativeStep
<1> DEFINE u == [r EXCEPT !.phase = r.phase + 1]
           g == r.pending \o q
           b == r.progress \/ p
<1>2. u \in Rec /\ u.state = "running"
  BY ZenonT(40), NextPhase
<1>3. g \in Queue
  BY ZenonT(40), QueueGrows
<1>4. b \in Flag
  BY ZenonT(40) DEF Flag
<1>5. Goes(e, Applied(u, g, b))
  BY ZenonT(40), <1>1 DEF Applied
<1> HIDE DEF u, g, b
<1>6. Applied(u, g, b) \in Rec /\ Applied(u, g, b).state = "running"
  BY <1>2, <1>3, <1>4, AppliedTyped
<1>7. RunStep(e)
  BY <1>5, <1>6, GoesStep
<1>8. JobStep(e)
  BY ZenonT(40) DEF NativeStep, JobStep
<1> QED BY ZenonT(40), <1>7, <1>8

LEMMA PerformStep ==
  ASSUME Typed, NEW e \in Envs, NEW r \in Rec, r.state = "running", log[e] # "closed",
         Perform(e, r)
  PROVE  RunStep(e) /\ JobStep(e)
<1>1. CASE Drain(e, r, TRUE) \/ Drain(e, r, FALSE)
  BY ZenonT(40), <1>1, DrainStep
<1>2. CASE FinishAdvance(e, r)
  <2>1. CASE Ends(e, r, "done")
    BY ZenonT(40), <2>1, EndsStep DEF Terminal
  <2>2. CASE Goes(e, [r EXCEPT !.phase = 1, !.state = "ready"]) /\ jobs' = jobs
    <3> DEFINE u == [r EXCEPT !.phase = 1]
    <3>1. u \in Rec
      BY PhaseTyped DEF Number
    <3> HIDE DEF u
    <3>2. [u EXCEPT !.state = "ready"] \in Rec /\ [u EXCEPT !.state = "ready"].state = "ready"
      BY ZenonT(40), <3>1, StateTyped DEF States
    <3>3. Goes(e, [u EXCEPT !.state = "ready"])
      BY ZenonT(40), <2>2 DEF u
    <3> QED BY ZenonT(40), <2>2, <3>2, <3>3, GoesStep DEF JobStep
  <2> QED BY <1>2, <2>1, <2>2, ZenonT(40) DEF FinishAdvance
<1>3. CASE Goes(e, [r EXCEPT !.phase = r.phase + 1]) /\ jobs' = jobs
  <2> DEFINE u == [r EXCEPT !.phase = r.phase + 1]
  <2>1. u \in Rec /\ u.state = "running"
    BY ZenonT(40), NextPhase
  <2> HIDE DEF u
  <2>2. Goes(e, u)
    BY ZenonT(40), <1>3 DEF u
  <2> QED BY ZenonT(40), <1>3, <2>1, <2>2, GoesStep DEF JobStep
<1>4. CASE NativeStep(e, r)
  BY ZenonT(40), <1>4, NativeEffect
<1>5. CASE LaunchAgent(e, r)
  BY ZenonT(40), <1>5, LaunchStep
<1>6. CASE Ends(e, r, "done") \/ Ends(e, r, "failed")
  BY ZenonT(40), <1>6, EndsStep DEF Terminal
<1>7. LaunchFails(e, r) => \/ Goes(e, [r EXCEPT !.phase = r.phase + 1]) /\ jobs' = jobs
                           \/ Ends(e, r, "done") \/ Ends(e, r, "failed")
  BY ZenonT(40) DEF LaunchFails
<1> QED BY <1>1, <1>2, <1>3, <1>4, <1>5, <1>6, <1>7, ZenonT(40) DEF Perform

(* One step of one run.                                                    *)
LEMMA StepRunEffect ==
  ASSUME Typed, SealInv, StepRun
  PROVE  \E e \in Envs : /\ e = runs[cur]
                         /\ run[e].state \in {"ready", "running"} /\ log[e] # "closed"
                         /\ RunStep(e) /\ JobStep(e)
<1>1. PICK e \in Envs :
        /\ e = runs[cur]
        /\ \/ Ends(e, run[e], "failed")
           \/ Perform(e, Begin(run[e]))
  BY ZenonT(40) DEF StepRun
<1>2. run[e].state \in {"ready", "running"}
  BY <1>1, ZenonT(40) DEF StepRun, Steppable
<1>3. log[e] # "closed"
  BY <1>2, ZenonT(40) DEF SealInv, Terminal
<1>4. run[e] \in Rec
  BY ZenonT(40) DEF Typed
<1>5. CASE Ends(e, run[e], "failed")
  <2>1. RunStep(e) /\ JobStep(e)
    BY ZenonT(40), <1>2, <1>3, <1>4, <1>5, EndsStep DEF Terminal
  <2> QED BY ZenonT(40), <1>1, <1>2, <1>3, <2>1
<1>6. CASE Perform(e, Begin(run[e]))
  <2>1. Begin(run[e]) \in Rec /\ Begin(run[e]).state = "running"
    BY ZenonT(40), <1>4, BeginTyped
  <2>2. RunStep(e) /\ JobStep(e)
    BY <1>3, <1>6, <2>1, PerformStep
  <2> QED BY ZenonT(40), <1>1, <1>2, <1>3, <2>2
<1> QED BY <1>1, <1>5, <1>6

-----------------------------------------------------------------------------
(* The completion of a job.                                                *)

LEMMA WakeFailedStep ==
  ASSUME Typed, NEW e \in Envs, NEW j \in Job, log[e] # "closed",
         WakeFailed(e, run[e], j)
  PROVE  RunStep(e)
<1> DEFINE r1 == Untracked(run[e])
<1>1. run[e] \in Rec
  BY ZenonT(40) DEF Typed
<1>2. r1 \in Rec
  BY ZenonT(40), <1>1, TrackedTyped
<1> DEFINE st == IF r1.waiting > 0 THEN "waiting_jobs" ELSE "running"
           a == [r1 EXCEPT !.state = st]
           b1 == [r1 EXCEPT !.state = "ready"]
           b2 == [b1 EXCEPT !.phase = 1]
           b == [b2 EXCEPT !.attempts = r1.attempts + 1]
<1>3. \/ End(e, r1, "done") \/ End(e, r1, "failed")
      \/ Goes(e, WaitClear(a)) \/ Goes(e, WaitClear(b))
  BY ZenonT(40) DEF WakeFailed, Goes
<1> HIDE DEF r1
<1>4. st \in States /\ st # "free" /\ "ready" \in States /\ 1 \in Number
  BY DEF States, Number
<1> HIDE DEF st
<1>5. a \in Rec /\ a.state = st
  BY <1>2, <1>4, StateTyped
<1> HIDE DEF a
<1>6. b1 \in Rec /\ b1.state = "ready"
  BY ZenonT(40), <1>2, <1>4, StateTyped
<1> HIDE DEF b1
<1>7. b2 \in Rec /\ b2.state = "ready"
  BY ZenonT(40), <1>4, <1>6, PhaseTyped
<1> HIDE DEF b2
<1>8. b \in Rec /\ b.state = "ready"
  <2>1. r1.attempts + 1 \in Number
    BY <1>2 DEF Rec, Number
  <2> QED BY ZenonT(40), <1>7, <2>1 DEF Rec
<1> HIDE DEF b
<1>9. /\ WaitClear(a) \in Rec /\ WaitClear(a).state # "free"
      /\ WaitClear(b) \in Rec /\ WaitClear(b).state # "free"
  BY ZenonT(40), <1>4, <1>5, <1>8, WaitClearTyped
<1>10. "done" \in Terminal /\ "failed" \in Terminal
  BY ZenonT(40) DEF Terminal
<1> QED BY <1>2, <1>3, <1>9, <1>10, GoesStep, EndStep

LEMMA CompleteStep ==
  ASSUME Typed, NEW e \in Envs, NEW j \in Job, log[e] # "closed",
         Complete(e, j)
  PROVE  RunStep(e)
<1> DEFINE r == run[e]
<1>1. r \in Rec
  BY ZenonT(40) DEF Typed
<1>2. CASE \E q \in Outputs, p \in BOOLEAN :
             Goes(e, WakeOk([r EXCEPT !.pending = r.pending \o q,
                                      !.progress = r.progress \/ p], j))
  <2>1. PICK q \in Outputs, p \in BOOLEAN :
             Goes(e, WakeOk([r EXCEPT !.pending = r.pending \o q,
                                      !.progress = r.progress \/ p], j))
    BY ZenonT(40), <1>2
  <2> DEFINE g == r.pending \o q
             b == r.progress \/ p
  <2>2. g \in Queue
    BY ZenonT(40), <1>1, QueueGrows
  <2>3. b \in Flag
    BY ZenonT(40) DEF Flag
  <2>4. Goes(e, WakeOk(Applied(r, g, b), j))
    BY ZenonT(40), <2>1 DEF Applied
  <2> HIDE DEF g, b, r
  <2>5. Applied(r, g, b) \in Rec
    BY <1>1, <2>2, <2>3, AppliedTyped
  <2>6. /\ WakeOk(Applied(r, g, b), j) \in Rec
        /\ WakeOk(Applied(r, g, b), j).state # "free"
    BY ZenonT(40), <2>5, WakeOkTyped
  <2> QED BY <2>4, <2>6, GoesStep
<1>3. CASE /\ run' = [run EXCEPT ![e] = WakeOk([r EXCEPT !.phase = r.phase - 1], j)]
           /\ log' = log
  <2> DEFINE u == [r EXCEPT !.phase = r.phase - 1]
  <2>1. r.phase - 1 \in Number
    BY <1>1 DEF Rec, Number
  <2>2. u \in Rec
    BY ZenonT(40), <1>1, <2>1, PhaseTyped
  <2> HIDE DEF u
  <2>3. WakeOk(u, j) \in Rec /\ WakeOk(u, j).state # "free"
    BY ZenonT(40), <2>2, WakeOkTyped
  <2>4. run' = [run EXCEPT ![e] = WakeOk(u, j)]
    BY ZenonT(40), <1>3 DEF u
  <2> QED BY <1>3, <2>3, <2>4, ZenonT(40) DEF Typed, RunStep
<1>4. CASE WakeFailed(e, r, j)
  BY ZenonT(40), <1>4, WakeFailedStep
<1>5. CASE Goes(e, WakeOk([r EXCEPT !.pending = Answered(r.pending)], j))
  <2> DEFINE q == Answered(r.pending)
             u == [r EXCEPT !.pending = q]
  <2>1. q \in Queue
    BY <1>1 DEF Rec, Queue, Answered
  <2> HIDE DEF q
  <2>2. u \in Rec
    BY ZenonT(40), <1>1, <2>1, PendingTyped
  <2> HIDE DEF u
  <2>3. WakeOk(u, j) \in Rec /\ WakeOk(u, j).state # "free"
    BY ZenonT(40), <2>2, WakeOkTyped
  <2>4. Goes(e, WakeOk(u, j))
    BY ZenonT(40), <1>5 DEF u, q
  <2> QED BY ZenonT(40), <2>3, <2>4, GoesStep
<1> QED BY <1>2, <1>3, <1>4, <1>5, ZenonT(40) DEF Complete, Goes

LEMMA PumpEffect ==
  ASSUME Typed, SealInv, PumpJob
  PROVE  \E i \in 1 .. Len(jobs) :
           /\ jobs' = Unlinked(i)
           /\ \/ run' = run /\ log' = log
              \/ \E e \in Envs : /\ run[e].state = "waiting_jobs" /\ log[e] # "closed"
                                 /\ RunStep(e)
<1>1. PICK i \in Finished :
        /\ jobs' = Unlinked(i)
        /\ IF Matches(jobs[i]) THEN Complete(jobs[i].run, jobs[i])
           ELSE UNCHANGED <<run, log, faults>>
  BY ZenonT(40) DEF PumpJob
<1>2. i \in 1 .. Len(jobs) /\ jobs[i] \in Job
  BY DEF Finished, Typed
<1>3. jobs[i].run \in Envs
  BY ZenonT(40), <1>2 DEF Job
<1>4. CASE Matches(jobs[i])
  <2>1. run[jobs[i].run].state = "waiting_jobs"
    BY <1>4, ZenonT(40) DEF Matches
  <2>2. log[jobs[i].run] # "closed"
    BY <1>3, <2>1, ZenonT(40) DEF SealInv, Terminal
  <2>3. RunStep(jobs[i].run)
    BY <1>1, <1>2, <1>3, <1>4, <2>2, CompleteStep
  <2> QED BY ZenonT(40), <1>1, <1>2, <1>3, <2>1, <2>2, <2>3
<1>5. CASE ~Matches(jobs[i])
  BY ZenonT(40), <1>1, <1>2, <1>5
<1> QED BY ZenonT(40), <1>4, <1>5

-----------------------------------------------------------------------------
(* What the remaining steps do.                                            *)

(* Steps of the pass and of the shutdown that map every job.               *)
JobsTicked == jobs' = [i \in DOMAIN jobs |-> Ticked(jobs[i])]

(* Updates of a job by the world or by a signal.                           *)
LEMMA JobExited ==
  ASSUME NEW j \in Job, NEW c \in Child
  PROVE  /\ [j EXCEPT !.child = c] \in Job /\ [j EXCEPT !.child = c].kind = j.kind
         /\ [j EXCEPT !.child = c].st = j.st /\ [j EXCEPT !.child = c].run = j.run
         /\ [j EXCEPT !.child = c].child = c /\ [j EXCEPT !.child = c].step = j.step
BY ZenonT(40) DEF Job

LEMMA JobDrained ==
  ASSUME NEW j \in Job
  PROVE  /\ [j EXCEPT !.pipe = "eof"] \in Job /\ [j EXCEPT !.pipe = "eof"].kind = j.kind
         /\ [j EXCEPT !.pipe = "eof"].st = j.st /\ [j EXCEPT !.pipe = "eof"].run = j.run
         /\ [j EXCEPT !.pipe = "eof"].child = j.child
         /\ [j EXCEPT !.pipe = "eof"].step = j.step
BY ZenonT(40) DEF Job

Signaled(j) == [j EXCEPT !.term = TRUE, !.age = 0]

LEMMA JobSignaled ==
  ASSUME NEW j \in Job
  PROVE  /\ Signaled(j) \in Job /\ Signaled(j).kind = j.kind
         /\ Signaled(j).st = j.st /\ Signaled(j).run = j.run
         /\ Signaled(j).child = j.child /\ Signaled(j).step = j.step
<1>1. TRUE \in Flag /\ 0 \in Number
  BY DEF Flag, Number
<1> QED BY ZenonT(40), <1>1 DEF Job, Signaled

(* Every step on jobs is one of these: an update in place that keeps the   *)
(* kind and revives nothing, a removal, or a launch.                       *)
InPlace ==
  /\ jobs' \in Seq(Job) /\ DOMAIN jobs' = DOMAIN jobs
  /\ \A i \in DOMAIN jobs : Later(jobs[i], jobs'[i])

(* A function over the job list is an update in place.                     *)
LEMMA MapInPlace ==
  ASSUME Typed, NEW f, f \in [DOMAIN jobs -> Job], jobs' = f,
         \A i \in DOMAIN jobs : Later(jobs[i], f[i])
  PROVE  InPlace
<1>1. DOMAIN jobs = 1 .. Len(jobs) /\ Len(jobs) \in Nat
  BY DEF Typed
<1>2. f \in Seq(Job)
  BY <1>1
<1>3. DOMAIN f = DOMAIN jobs
  BY ZenonT(40)
<1> QED BY <1>2, <1>3, ZenonT(40) DEF InPlace

LEMMA TickInPlace ==
  ASSUME Typed, JobsTicked
  PROVE  InPlace
<1> DEFINE f == [i \in DOMAIN jobs |-> Ticked(jobs[i])]
<1>1. \A i \in DOMAIN jobs : jobs[i] \in Job
  BY DEF Typed
<1>2. \A i \in DOMAIN jobs : Ticked(jobs[i]) \in Job /\ Later(jobs[i], Ticked(jobs[i]))
  BY ZenonT(40), <1>1, TickedKeeps
<1>3. f \in [DOMAIN jobs -> Job] /\ \A i \in DOMAIN jobs : f[i] = Ticked(jobs[i])
  BY <1>2, ZenonT(40)
<1>4. jobs' = f
  BY ZenonT(40) DEF JobsTicked
<1> HIDE DEF f
<1>5. \A i \in DOMAIN jobs : Later(jobs[i], f[i])
  BY <1>2, <1>3, ZenonT(40)
<1> QED BY ZenonT(40), <1>3, <1>4, <1>5, MapInPlace

(* A function given pointwise by one of three kinds of update.             *)
LEMMA UpdateInPlace ==
  ASSUME Typed, NEW f, DOMAIN f = DOMAIN jobs, f = [i \in DOMAIN jobs |-> f[i]],
         jobs' = f,
         \A i \in DOMAIN jobs :
           \/ f[i] = jobs[i] \/ f[i] = Signaled(jobs[i])
           \/ f[i] = [jobs[i] EXCEPT !.pipe = "eof"]
           \/ \E c \in {"ok", "bad"} : f[i] = [jobs[i] EXCEPT !.child = c]
  PROVE  InPlace
<1>1. ASSUME NEW i \in DOMAIN jobs
      PROVE  /\ f[i] \in Job
             /\ f[i].kind = jobs[i].kind /\ f[i].run = jobs[i].run /\ f[i].step = jobs[i].step
             /\ f[i].st = jobs[i].st
             /\ f[i].child = "run" => jobs[i].child = "run"
  <2>1. jobs[i] \in Job
    BY DEF Typed
  <2>2. CASE f[i] = jobs[i]
    BY ZenonT(40), <2>1, <2>2
  <2>3. CASE f[i] = Signaled(jobs[i])
    BY ZenonT(40), <2>1, <2>3, JobSignaled
  <2>4. CASE f[i] = [jobs[i] EXCEPT !.pipe = "eof"]
    BY ZenonT(40), <2>1, <2>4, JobDrained
  <2>5. CASE \E c \in {"ok", "bad"} : f[i] = [jobs[i] EXCEPT !.child = c]
    <3>1. PICK c \in {"ok", "bad"} : f[i] = [jobs[i] EXCEPT !.child = c]
      BY ZenonT(40), <2>5
    <3>2. c \in Child /\ c # "run"
      BY ZenonT(40) DEF Child
    <3>3. /\ f[i] \in Job /\ f[i].kind = jobs[i].kind /\ f[i].step = jobs[i].step
          /\ f[i].run = jobs[i].run /\ f[i].st = jobs[i].st /\ f[i].child = c
      <4> DEFINE g == [jobs[i] EXCEPT !.child = c]
      <4>1. /\ g \in Job /\ g.kind = jobs[i].kind /\ g.step = jobs[i].step
            /\ g.run = jobs[i].run /\ g.st = jobs[i].st /\ g.child = c
        BY ZenonT(40), <2>1, <3>2, JobExited
      <4>2. f[i] = g
        BY ZenonT(40), <3>1
      <4> HIDE DEF g
      <4> QED BY ZenonT(40), <4>1, <4>2
    <3> QED BY <3>2, <3>3, ZenonT(40)
  <2> QED BY ZenonT(40), <2>2, <2>3, <2>4, <2>5
<1>2. f \in [DOMAIN jobs -> Job]
  BY <1>1, ZenonT(40)
<1>3. \A i \in DOMAIN jobs : Later(jobs[i], f[i])
  BY <1>1, ZenonT(40) DEF Later
<1> QED BY ZenonT(40), <1>2, <1>3, MapInPlace

(* The job list after any step.                                            *)
JobsMove ==
  \/ InPlace
  \/ \E i \in 1 .. Len(jobs) : jobs' = Unlinked(i)
  \/ \E e \in Envs : JobStep(e) /\ log[e] # "closed"

(* All but the launch and the release of a job.                            *)
Tidy ==
  \/ World \/ ShutdownTerm \/ Shutdown \/ Stopped \/ UNCHANGED vars
  \/ JobTick \/ RetryClaims \/ Intake \/ IntakeDone \/ WakeSlotWaiters \/ NextRun \/ Retire

LEMMA NextCases == [Next]_vars => Tidy \/ PumpJob \/ StepRun
BY ZenonT(40) DEF Next, Pass, Tidy

LEMMA JobsInPlace ==
  ASSUME Typed, Tidy
  PROVE  InPlace
<1>1. CASE jobs' = jobs
  BY <1>1, ZenonT(40) DEF InPlace, Later, Typed
<1>2. ASSUME NEW i \in DOMAIN jobs, PipeCloses(i)
      PROVE  InPlace
  <2>1. jobs' = [jobs EXCEPT ![i] = [jobs[i] EXCEPT !.pipe = "eof"]]
    BY ZenonT(40), <1>2 DEF PipeCloses
  <2> DEFINE f == [jobs EXCEPT ![i] = [jobs[i] EXCEPT !.pipe = "eof"]]
  <2>2. /\ DOMAIN f = DOMAIN jobs /\ f = [k \in DOMAIN jobs |-> f[k]]
        /\ \A k \in DOMAIN jobs : f[k] = jobs[k] \/ f[k] = [jobs[k] EXCEPT !.pipe = "eof"]
    BY ZenonT(40)
  <2> HIDE DEF f
  <2> QED BY <2>1, <2>2, UpdateInPlace, ZenonT(40) DEF f
<1>3. ASSUME NEW i \in DOMAIN jobs, ChildExits(i, "ok") \/ ChildExits(i, "bad")
      PROVE  InPlace
  <2>1. PICK c \in {"ok", "bad"} : jobs' = [jobs EXCEPT ![i] = [jobs[i] EXCEPT !.child = c]]
    BY ZenonT(40), <1>3 DEF ChildExits
  <2> DEFINE f == [jobs EXCEPT ![i] = [jobs[i] EXCEPT !.child = c]]
  <2>2. /\ DOMAIN f = DOMAIN jobs /\ f = [k \in DOMAIN jobs |-> f[k]]
        /\ \A k \in DOMAIN jobs : f[k] = jobs[k] \/ f[k] = [jobs[k] EXCEPT !.child = c]
    BY ZenonT(40)
  <2>3. jobs' = f
    BY ZenonT(40), <2>1
  <2> HIDE DEF f
  <2>4. \A k \in DOMAIN jobs :
          f[k] = jobs[k] \/ \E d \in {"ok", "bad"} : f[k] = [jobs[k] EXCEPT !.child = d]
    BY <2>2, ZenonT(40)
  <2> QED BY <2>2, <2>3, <2>4, UpdateInPlace, ZenonT(40)
<1>4. CASE JobsTicked
  BY ZenonT(40), <1>4, TickInPlace
<1>5. ASSUME NEW P, P \subseteq DOMAIN jobs,
             jobs' = [i \in DOMAIN jobs |-> IF i \in P THEN Signaled(jobs[i]) ELSE jobs[i]]
      PROVE  InPlace
  <2> DEFINE f == [i \in DOMAIN jobs |-> IF i \in P THEN Signaled(jobs[i]) ELSE jobs[i]]
  <2>1. /\ DOMAIN f = DOMAIN jobs /\ f = [k \in DOMAIN jobs |-> f[k]]
        /\ \A k \in DOMAIN jobs : f[k] = jobs[k] \/ f[k] = Signaled(jobs[k])
    BY ZenonT(40)
  <2>2. jobs' = f
    BY ZenonT(40), <1>5
  <2> HIDE DEF f
  <2> QED BY <2>1, <2>2, UpdateInPlace, ZenonT(40)
<1>6. ASSUME NEW e \in Envs, Cancel(e)
      PROVE  InPlace
  <2> DEFINE P == {i \in DOMAIN jobs : jobs[i].run = e /\ jobs[i].st = "running" /\ ~jobs[i].term}
  <2>1. jobs' = [i \in DOMAIN jobs |-> IF i \in P THEN Signaled(jobs[i]) ELSE jobs[i]]
    BY <1>6, ZenonT(40) DEF Cancel, Signaled
  <2> QED BY ZenonT(40), <1>5, <2>1
<1>7. CASE ShutdownTerm
  <2> DEFINE P == {i \in DOMAIN jobs : jobs[i].st = "running"}
  <2>1. jobs' = [i \in DOMAIN jobs |-> IF i \in P THEN Signaled(jobs[i]) ELSE jobs[i]]
    BY <1>7, ZenonT(40) DEF ShutdownTerm, Signaled
  <2> QED BY ZenonT(40), <1>5, <2>1
<1>8. CASE ShutdownKill
  <2> DEFINE f == [i \in DOMAIN jobs |->
                     IF jobs[i].st = "running" /\ jobs[i].child = "run"
                     THEN [jobs[i] EXCEPT !.child = "bad"] ELSE jobs[i]]
  <2>1. /\ DOMAIN f = DOMAIN jobs /\ f = [k \in DOMAIN jobs |-> f[k]]
        /\ \A k \in DOMAIN jobs : f[k] = jobs[k] \/ f[k] = [jobs[k] EXCEPT !.child = "bad"]
    BY ZenonT(40)
  <2>2. jobs' = f
    BY ZenonT(40), <1>8 DEF ShutdownKill
  <2> HIDE DEF f
  <2>3. \A k \in DOMAIN jobs :
          f[k] = jobs[k] \/ \E d \in {"ok", "bad"} : f[k] = [jobs[k] EXCEPT !.child = d]
    BY <2>1, ZenonT(40)
  <2> QED BY <2>1, <2>2, <2>3, UpdateInPlace, ZenonT(40)
<1>9. ASSUME NEW e \in Envs, Publish(e)
       PROVE  InPlace
  BY <1>1, <1>9, ZenonT(40) DEF Publish
<1>10. CASE World
  BY <1>2, <1>3, <1>6, <1>9, <1>10, ZenonT(40) DEF World
<1>11. CASE JobTick
  BY <1>4, <1>11, ZenonT(40) DEF JobTick, JobsTicked
<1>12. CASE RetryClaims \/ Intake \/ IntakeDone \/ WakeSlotWaiters \/ NextRun \/ Retire
  <2>1. jobs' = jobs
    BY <1>12, ZenonT(40) DEF RetryClaims, Intake, IntakeDone, WakeSlotWaiters, NextRun, Retire
  <2> QED BY ZenonT(40), <1>1, <2>1
<1>13. CASE Shutdown
  <2>1. ShutdownWait \/ ShutdownEnd => JobsTicked
    BY ZenonT(40) DEF ShutdownWait, ShutdownEnd, JobsTicked
  <2> QED BY <1>4, <1>8, <1>13, <2>1, ZenonT(40) DEF Shutdown
<1>14. CASE Stopped \/ UNCHANGED vars
  BY <1>1, <1>14, ZenonT(40) DEF Stopped, vars
<1> QED BY <1>7, <1>10, <1>11, <1>12, <1>13, <1>14, ZenonT(40) DEF Tidy

LEMMA JobsEffect ==
  ASSUME Typed, SealInv, [Next]_vars
  PROVE  JobsMove
<1>1. CASE Tidy
  BY ZenonT(40), <1>1, JobsInPlace DEF JobsMove
<1>2. CASE PumpJob
  BY <1>2, PumpEffect, ZenonT(40) DEF JobsMove
<1>3. CASE StepRun
  BY <1>3, StepRunEffect, ZenonT(40) DEF JobsMove
<1> QED BY ZenonT(40), <1>1, <1>2, <1>3, NextCases

-----------------------------------------------------------------------------
(* The runs and their logs after any step.                                 *)

Kept ==
  \A e \in Envs : log[e] = "closed" => log'[e] = "closed" /\ run'[e].state = run[e].state

RunsTyped ==
  run' \in [Envs -> Rec] /\ log' \in [Envs -> {"none", "inbound", "open", "closed"}]

(* A record is left as it was, or moves while its run is alive.            *)
Moved(x) ==
  \/ run'[x].state = run[x].state /\ log'[x] = log[x]
  \/ /\ run[x].state # "free" /\ log[x] # "closed"
     /\ log'[x] = "closed" => run'[x].state \in Terminal

LEMMA MovesKeep ==
  ASSUME SealInv, fresh' = fresh, inbox' = inbox, \A x \in Envs : Moved(x)
  PROVE  SealInv' /\ Kept
<1>1. Kept
  BY ZenonT(40) DEF Moved, Kept
<1>2. \A x \in Envs : run[x].state = "free" => run'[x].state = "free"
  BY ZenonT(40) DEF Moved
<1>3. \A i \in 1 .. Len(inbox) : inbox[i] \in Envs
  BY DEF SealInv
<1>4. \A e \in Envs : log'[e] = "closed" => run'[e].state \in Terminal
  BY ZenonT(40) DEF Moved, SealInv
<1>5. \A e \in fresh : run'[e].state = "free"
  BY <1>2, ZenonT(40) DEF SealInv
<1>6. \A i \in 1 .. Len(inbox) : run'[inbox[i]].state = "free" /\ inbox[i] \notin fresh
  BY <1>2, <1>3, ZenonT(40) DEF SealInv
<1> QED BY <1>1, <1>4, <1>5, <1>6, ZenonT(40) DEF SealInv

LEMMA RunStepMoves ==
  ASSUME NEW e \in Envs, run[e].state # "free", log[e] # "closed", RunStep(e)
  PROVE  RunsTyped /\ \A x \in Envs : Moved(x)
BY ZenonT(40) DEF RunStep, Moved, RunsTyped

LEMMA ActiveLog ==
  ASSUME SealInv, NEW e \in Envs, run[e].state \notin Terminal
  PROVE  log[e] # "closed"
BY ZenonT(40) DEF SealInv

LEMMA PublishSeals ==
  ASSUME Typed, SealInv, NEW e \in Envs, Publish(e)
  PROVE  SealInv' /\ Kept
<1>1. /\ run' = run /\ log' = log /\ e \in fresh
      /\ fresh' = fresh \ {e} /\ inbox' = Append(inbox, e)
  BY ZenonT(40) DEF Publish, engine
<1>2. /\ inbox' \in Seq(Envs) /\ Len(inbox') = Len(inbox) + 1 /\ Len(inbox) \in Nat
      /\ \A i \in 1 .. Len(inbox) : inbox'[i] = inbox[i]
      /\ inbox'[Len(inbox) + 1] = e
  BY <1>1 DEF SealInv
<1>3. \A i \in 1 .. Len(inbox') : i \in 1 .. Len(inbox) \/ i = Len(inbox) + 1
  BY <1>2
<1>4. \A i \in 1 .. Len(inbox) : inbox[i] # e
  BY <1>1, ZenonT(40) DEF SealInv
<1>5. \A i \in 1 .. Len(inbox') : run'[inbox'[i]].state = "free" /\ inbox'[i] \notin fresh'
  BY <1>1, <1>2, <1>3, ZenonT(40) DEF SealInv
<1>6. \A i, k \in 1 .. Len(inbox') : inbox'[i] = inbox'[k] => i = k
  BY <1>2, <1>3, <1>4, ZenonT(40) DEF SealInv
<1> QED BY <1>1, <1>2, <1>5, <1>6, ZenonT(40) DEF SealInv, Kept

LEMMA AdmittedTyped ==
  ASSUME Typed, NEW e \in Envs, NEW st \in {"ready", "waiting_event"}
  PROVE  Admitted(e, st) \in Rec /\ Admitted(e, st).state = st
<1>1. st \in States /\ <<"sub">> \in Queue /\ <<>> \in Queue
  BY DEF States, Queue
<1>2. Len(Steps) + 1 \in Number /\ 1 \in Number
  BY ProfileTyped DEF Number
<1> DEFINE p == IF e \in Exec THEN Len(Steps) + 1 ELSE 1
           q == IF e \in Exec THEN <<"sub">> ELSE <<>>
<1>3. p \in Number /\ q \in Queue
  BY <1>1, <1>2, ZenonT(40)
<1>4. Admitted(e, st) = [Blank EXCEPT !.state = st, !.phase = p, !.pending = q]
  BY ZenonT(40) DEF Admitted
<1> HIDE DEF p, q
<1> QED BY ZenonT(40), <1>1, <1>3, <1>4, BlankTyped DEF Rec

LEMMA IntakeSeals ==
  ASSUME Typed, SealInv, Intake
  PROVE  RunsTyped /\ SealInv' /\ Kept
<1> DEFINE e == Head(inbox)
<1>1. /\ inbox # <<>> /\ inbox' = Tail(inbox) /\ fresh' = fresh
      /\ \/ \E st \in {"ready", "waiting_event"} :
              /\ run' = [run EXCEPT ![e] = Admitted(e, st)]
              /\ log' = [log EXCEPT ![e] = "inbound"] \/ log' = log
         \/ run' = run /\ log' = log
  BY ZenonT(40) DEF Intake, Admits, ClaimsOnly, Rejects
<1>2. /\ inbox' \in Seq(Envs) /\ Len(inbox) \in Nat /\ e \in Envs /\ e = inbox[1]
      /\ \A i \in 1 .. Len(inbox') : i + 1 \in 1 .. Len(inbox) /\ inbox'[i] = inbox[i + 1]
      /\ 1 \in 1 .. Len(inbox) /\ \A i \in 1 .. Len(inbox') : i + 1 # 1
      /\ \A i, k \in 1 .. Len(inbox') : i + 1 = k + 1 => i = k
  BY <1>1 DEF SealInv
<1> HIDE DEF e
<1>3. run[e].state = "free" /\ e \notin fresh
  BY <1>2, ZenonT(40) DEF SealInv
<1>4. log[e] # "closed"
  BY ZenonT(40), <1>2, <1>3, ActiveLog DEF Terminal
<1>5. ASSUME NEW i \in 1 .. Len(inbox')
      PROVE  /\ inbox'[i] # e /\ inbox'[i] \in Envs
             /\ run[inbox'[i]].state = "free" /\ inbox'[i] \notin fresh
  <2>1. inbox'[i] = inbox[i + 1] /\ i + 1 \in 1 .. Len(inbox) /\ i + 1 # 1
    BY ZenonT(40), <1>2
  <2>2. inbox[i + 1] # inbox[1]
    BY ZenonT(40), <1>2, <2>1 DEF SealInv
  <2>3. inbox[i + 1] \in Envs
    BY <1>2, <2>1 DEF SealInv
  <2>4. run[inbox[i + 1]].state = "free" /\ inbox[i + 1] \notin fresh
    BY <2>1, ZenonT(40) DEF SealInv
  <2> QED BY <1>2, <2>1, <2>2, <2>3, <2>4, ZenonT(40)
<1>6. ASSUME NEW i \in 1 .. Len(inbox'), NEW k \in 1 .. Len(inbox'), inbox'[i] = inbox'[k]
      PROVE  i = k
  <2>1. /\ inbox[i + 1] = inbox[k + 1]
        /\ i + 1 \in 1 .. Len(inbox) /\ k + 1 \in 1 .. Len(inbox)
    BY <1>2, <1>6, ZenonT(40)
  <2>2. i + 1 = k + 1
    BY <2>1, ZenonT(40) DEF SealInv
  <2> QED BY <2>2
<1>7. /\ RunsTyped /\ \A x \in Envs : x # e => run'[x] = run[x] /\ log'[x] = log[x]
      /\ log'[e] # "closed"
  <2>1. CASE run' = run /\ log' = log
    BY <1>4, <2>1, ZenonT(40) DEF RunsTyped, Typed
  <2>2. CASE \E st \in {"ready", "waiting_event"} :
              /\ run' = [run EXCEPT ![e] = Admitted(e, st)]
              /\ log' = [log EXCEPT ![e] = "inbound"] \/ log' = log
    <3>1. PICK st \in {"ready", "waiting_event"} :
              /\ run' = [run EXCEPT ![e] = Admitted(e, st)]
              /\ log' = [log EXCEPT ![e] = "inbound"] \/ log' = log
      BY ZenonT(40), <2>2
    <3>2. Admitted(e, st) \in Rec
      BY ZenonT(40), <1>2, AdmittedTyped
    <3>3. run' \in [Envs -> Rec] /\ \A x \in Envs : x # e => run'[x] = run[x]
      BY <1>2, <3>1, <3>2, ZenonT(40) DEF Typed
    <3>4. /\ log' \in [Envs -> {"none", "inbound", "open", "closed"}]
          /\ log'[e] # "closed" /\ \A x \in Envs : x # e => log'[x] = log[x]
      BY <1>2, <1>4, <3>1, ZenonT(40) DEF Typed
    <3> QED BY ZenonT(40), <3>3, <3>4 DEF RunsTyped
  <2> QED BY ZenonT(40), <1>1, <2>1, <2>2
<1>8. Kept
  BY <1>4, <1>7, ZenonT(40) DEF Kept
<1>9. \A x \in Envs : log'[x] = "closed" => run'[x].state \in Terminal
  BY <1>7, ZenonT(40) DEF SealInv
<1>10. \A x \in fresh : run'[x].state = "free"
  BY <1>3, <1>7, ZenonT(40) DEF SealInv
<1>11. \A i \in 1 .. Len(inbox') : run'[inbox'[i]].state = "free" /\ inbox'[i] \notin fresh
  BY <1>5, <1>7, ZenonT(40)
<1> QED BY <1>1, <1>2, <1>6, <1>7, <1>8, <1>9, <1>10, <1>11, ZenonT(40) DEF SealInv

LEMMA RunsEffect ==
  ASSUME Typed, SealInv, [Next]_vars
  PROVE  RunsTyped /\ SealInv' /\ Kept
<1>1. ASSUME fresh' = fresh, inbox' = inbox, RunsTyped, \A x \in Envs : Moved(x)
      PROVE  RunsTyped /\ SealInv' /\ Kept
  BY ZenonT(40), <1>1, MovesKeep
<1>2. ASSUME fresh' = fresh, inbox' = inbox, run' = run, log' = log
      PROVE  RunsTyped /\ SealInv' /\ Kept
  <2>1. RunsTyped /\ \A x \in Envs : Moved(x)
    BY <1>2, ZenonT(40) DEF RunsTyped, Moved, Typed
  <2> QED BY ZenonT(40), <1>1, <1>2, <2>1
<1>3. ASSUME NEW e \in Envs, Cancel(e)
      PROVE  RunsTyped /\ SealInv' /\ Kept
  <2>1. /\ run' = [run EXCEPT ![e] = [run[e] EXCEPT !.state = "failed"]]
        /\ log' = [log EXCEPT ![e] = "closed"]
        /\ run[e].state \notin Terminal \cup {"free"} /\ fresh' = fresh /\ inbox' = inbox
    BY <1>3, ZenonT(40) DEF Cancel, Active
  <2>2. "failed" \in States /\ "failed" \in Terminal /\ run[e] \in Rec
    BY ZenonT(40) DEF States, Terminal, Typed
  <2> DEFINE g == [run[e] EXCEPT !.state = "failed"]
  <2>3. g \in Rec /\ g.state = "failed"
    BY ZenonT(40), <2>2, StateTyped
  <2>4. run' = [run EXCEPT ![e] = g]
    BY ZenonT(40), <2>1
  <2> HIDE DEF g
  <2>5. /\ RunsTyped /\ \A x \in Envs : x # e => run'[x] = run[x] /\ log'[x] = log[x]
        /\ run'[e] = g
    BY <2>1, <2>3, <2>4, ZenonT(40) DEF RunsTyped, Typed
  <2>6. log[e] # "closed"
    BY <2>1, ActiveLog, ZenonT(40)
  <2>7. \A x \in Envs : Moved(x)
    BY <2>1, <2>2, <2>3, <2>5, <2>6, ZenonT(40) DEF Moved
  <2> QED BY ZenonT(40), <1>1, <2>1, <2>5, <2>7
<1>4. CASE RetryClaims
  <2> DEFINE W == {e \in Envs : InPool(e) /\ run[e].state = "waiting_event"}
  <2>1. PICK fate \in [W -> {"ready", "waiting_event", "failed"}] :
          /\ run' = [e \in Envs |-> IF e \in W
                                     THEN [run[e] EXCEPT !.state = fate[e]] ELSE run[e]]
          /\ log' = [e \in Envs |->
                        IF e \notin W THEN log[e]
                        ELSE CASE fate[e] = "ready"  -> "inbound"
                               [] fate[e] = "failed" -> "closed"
                               [] OTHER              -> log[e]]
          /\ fresh' = fresh /\ inbox' = inbox
    BY <1>4, ZenonT(40) DEF RetryClaims
  <2>2. \A e \in W : run[e].state = "waiting_event"
    BY ZenonT(40)
  <2> HIDE DEF W
  <2>3. ASSUME NEW e \in Envs
        PROVE  /\ run'[e] \in Rec /\ log'[e] \in {"none", "inbound", "open", "closed"}
               /\ Moved(e)
    <3>1. CASE e \notin W
      BY <2>1, <3>1, ZenonT(40) DEF Typed, Moved
    <3>2. CASE e \in W
      <4> DEFINE g == [run[e] EXCEPT !.state = fate[e]]
      <4>1. run[e] \in Rec /\ fate[e] \in States
        BY ZenonT(40), <2>1, <3>2 DEF Typed, States
      <4>2. g \in Rec /\ g.state = fate[e]
        BY ZenonT(40), <4>1, StateTyped
      <4>3. run'[e] = g
        BY <2>1, <3>2, ZenonT(40)
      <4> HIDE DEF g
      <4>4. log[e] # "closed" /\ run[e].state # "free" /\ log[e] \in {"none", "inbound", "open", "closed"}
        BY ZenonT(40), <2>2, <3>2, ActiveLog DEF Terminal, Typed
      <4>5. log'[e] = CASE fate[e] = "ready"  -> "inbound"
                        [] fate[e] = "failed" -> "closed"
                        [] OTHER              -> log[e]
        BY <2>1, <3>2, ZenonT(40)
      <4>6. /\ log'[e] \in {"none", "inbound", "open", "closed"}
            /\ log'[e] = "closed" => fate[e] \in Terminal
        BY ZenonT(40), <4>4, <4>5 DEF Terminal
      <4> QED BY <4>2, <4>3, <4>4, <4>6, ZenonT(40) DEF Moved
    <3> QED BY ZenonT(40), <3>1, <3>2
  <2>4. RunsTyped
    BY <2>1, <2>3, ZenonT(40) DEF RunsTyped
  <2> QED BY ZenonT(40), <1>1, <2>1, <2>3, <2>4
<1>5. CASE Intake
  BY ZenonT(40), <1>5, IntakeSeals
<1>6. CASE PumpJob
  <2>1. fresh' = fresh /\ inbox' = inbox
    BY <1>6, ZenonT(40) DEF PumpJob
  <2>2. CASE run' = run /\ log' = log
    BY ZenonT(40), <1>2, <2>1, <2>2
  <2>3. CASE \E e \in Envs : run[e].state = "waiting_jobs" /\ log[e] # "closed" /\ RunStep(e)
    <3>1. PICK e \in Envs : run[e].state = "waiting_jobs" /\ log[e] # "closed" /\ RunStep(e)
      BY ZenonT(40), <2>3
    <3>2. run[e].state # "free"
      BY ZenonT(40), <3>1
    <3> QED BY <1>1, <2>1, <3>1, <3>2, RunStepMoves
  <2> QED BY <1>6, <2>2, <2>3, PumpEffect, ZenonT(40)
<1>7. CASE StepRun
  <2>1. fresh' = fresh /\ inbox' = inbox
    BY <1>7, ZenonT(40) DEF StepRun
  <2>2. PICK e \in Envs : run[e].state \in {"ready", "running"} /\ log[e] # "closed" /\ RunStep(e)
    BY <1>7, StepRunEffect, ZenonT(40)
  <2>3. run[e].state # "free"
    BY ZenonT(40), <2>2
  <2> QED BY ZenonT(40), <1>1, <2>1, <2>2, <2>3, RunStepMoves
<1>8. CASE WakeSlotWaiters
  <2> DEFINE P(e) == ActiveJobs("action") = {} /\ run[e].state = "waiting_slot"
             g(e) == WaitClear([run[e] EXCEPT !.state = "ready"])
  <2>1. /\ run' = [e \in Envs |-> IF P(e) THEN g(e) ELSE run[e]]
        /\ log' = log /\ fresh' = fresh /\ inbox' = inbox
    BY <1>8, ZenonT(40) DEF WakeSlotWaiters
  <2>2. ASSUME NEW e \in Envs
        PROVE  g(e) \in Rec /\ run[e] \in Rec
    <3>1. "ready" \in States /\ run[e] \in Rec
      BY ZenonT(40) DEF States, Typed
    <3>2. [run[e] EXCEPT !.state = "ready"] \in Rec
      BY ZenonT(40), <3>1, StateTyped
    <3> QED BY ZenonT(40), <3>1, <3>2, WaitClearTyped
  <2>3. \A e \in Envs : P(e) => run[e].state = "waiting_slot"
    BY ZenonT(40)
  <2> HIDE DEF P, g
  <2>4. RunsTyped
    BY <2>1, <2>2, ZenonT(40) DEF RunsTyped, Typed
  <2>5. \A e \in Envs : P(e) => log[e] # "closed" /\ run[e].state # "free"
    BY ZenonT(40), <2>3, ActiveLog DEF Terminal
  <2>6. \A x \in Envs : Moved(x)
    BY <2>1, <2>5, ZenonT(40) DEF Moved
  <2> QED BY ZenonT(40), <1>1, <2>1, <2>4, <2>6
<1>9. CASE Retire
  <2> DEFINE O == {e \in Envs : InPool(e) /\ run[e].state \in Terminal}
  <2>1. /\ run' = [e \in Envs |-> IF e \in O THEN [Blank EXCEPT !.state = run[e].state]
                                  ELSE run[e]]
        /\ log' = log /\ fresh' = fresh /\ inbox' = inbox
    BY <1>9, ZenonT(40) DEF Retire
  <2> HIDE DEF O
  <2>2. ASSUME NEW e \in Envs
        PROVE  run'[e] \in Rec /\ run'[e].state = run[e].state
    <3> DEFINE g == [Blank EXCEPT !.state = run[e].state]
    <3>1. run[e].state \in States /\ run[e] \in Rec
      BY ZenonT(40) DEF Typed, Rec
    <3>2. g \in Rec /\ g.state = run[e].state
      BY ZenonT(40), <3>1, BlankTyped, StateTyped
    <3>3. run'[e] = g \/ run'[e] = run[e]
      BY <2>1, ZenonT(40)
    <3> HIDE DEF g
    <3> QED BY ZenonT(40), <3>1, <3>2, <3>3
  <2>3. RunsTyped /\ \A x \in Envs : Moved(x)
    BY <2>1, <2>2, ZenonT(40) DEF RunsTyped, Typed, Moved
  <2> QED BY ZenonT(40), <1>1, <2>1, <2>3
<1>10. CASE ShutdownEnd
  <2>1. /\ run' = [e \in Envs |-> IF Active(e) THEN [run[e] EXCEPT !.state = "failed"] ELSE run[e]]
        /\ log' = [e \in Envs |-> IF Active(e) THEN "closed" ELSE log[e]]
        /\ fresh' = fresh /\ inbox' = inbox
    BY <1>10, ZenonT(40) DEF ShutdownEnd
  <2>2. ASSUME NEW e \in Envs
        PROVE  run'[e] \in Rec /\ Moved(e)
    <3>1. CASE ~Active(e)
      BY <2>1, <3>1, ZenonT(40) DEF Typed, Moved
    <3>2. CASE Active(e)
      <4> DEFINE g == [run[e] EXCEPT !.state = "failed"]
      <4>1. run[e] \in Rec /\ "failed" \in States /\ "failed" \in Terminal
        BY ZenonT(40) DEF Typed, States, Terminal
      <4>2. g \in Rec /\ g.state = "failed"
        BY ZenonT(40), <4>1, StateTyped
      <4>3. run'[e] = g
        BY <2>1, <3>2, ZenonT(40)
      <4> HIDE DEF g
      <4>4. run[e].state \notin Terminal /\ run[e].state # "free"
        BY <3>2, ZenonT(40) DEF Active
      <4>5. log[e] # "closed"
        BY ZenonT(40), <4>4, ActiveLog
      <4> QED BY <4>1, <4>2, <4>3, <4>4, <4>5, ZenonT(40) DEF Moved
    <3> QED BY ZenonT(40), <3>1, <3>2
  <2>3. RunsTyped
    BY <2>1, <2>2, ZenonT(40) DEF RunsTyped, Typed
  <2> QED BY ZenonT(40), <1>1, <2>1, <2>2, <2>3
<1>11. ASSUME NEW e \in Envs, Publish(e)
       PROVE  RunsTyped /\ SealInv' /\ Kept
  <2>1. RunsTyped
    BY <1>11, ZenonT(40) DEF Publish, engine, RunsTyped, Typed
  <2> QED BY ZenonT(40), <1>11, <2>1, PublishSeals
<1>12. CASE \E i \in DOMAIN jobs : PipeCloses(i) \/ ChildExits(i, "ok") \/ ChildExits(i, "bad")
  <2>1. fresh' = fresh /\ inbox' = inbox /\ run' = run /\ log' = log
    BY <1>12, ZenonT(40) DEF PipeCloses, ChildExits, engine
  <2> QED BY ZenonT(40), <1>2, <2>1
<1>13. CASE JobTick \/ IntakeDone \/ NextRun \/ ShutdownTerm \/ ShutdownWait \/ ShutdownKill
  <2>1. fresh' = fresh /\ inbox' = inbox /\ run' = run /\ log' = log
    BY <1>13, ZenonT(40) DEF JobTick, IntakeDone, NextRun, ShutdownTerm, ShutdownWait,
                             ShutdownKill, engine
  <2> QED BY ZenonT(40), <1>2, <2>1
<1>14. CASE Stopped \/ UNCHANGED vars
  BY <1>2, <1>14, ZenonT(40) DEF Stopped, vars, engine
<1> QED BY <1>3, <1>4, <1>5, <1>6, <1>7, <1>8, <1>9, <1>10, <1>11, <1>12, <1>13, <1>14,
           ZenonT(40) DEF Next, World, Pass, Shutdown

-----------------------------------------------------------------------------
(* The job list keeps its invariant, and gains no job of a sealed run.     *)

Owned ==
  \A e \in Envs : log[e] = "closed" =>
    \A i \in DOMAIN jobs' : jobs'[i].run = e => \E k \in DOMAIN jobs : jobs[k].run = e

LEMMA NewJobTyped ==
  ASSUME NEW k \in {"agent", "action"}, NEW e \in Envs, NEW p \in Number
  PROVE  /\ NewJob(k, e, p) \in Job /\ NewJob(k, e, p).kind = k
         /\ NewJob(k, e, p).run = e /\ NewJob(k, e, p).st = "running"
<1>1. 0 \in Number /\ FALSE \in Flag /\ "run" \in Child
  BY DEF Number, Flag, Child
<1> QED BY ZenonT(40), <1>1 DEF NewJob, Job

LEMMA JobsKeep ==
  ASSUME Typed, SlotInv, JobsMove
  PROVE  jobs' \in Seq(Job) /\ SlotInv' /\ Owned
<1>0. DOMAIN jobs = 1 .. Len(jobs) /\ Len(jobs) \in Nat
  BY DEF Typed
<1>1. CASE InPlace
  BY <1>1, ZenonT(40) DEF InPlace, Later, SlotInv, Owned
<1>2. ASSUME NEW i \in 1 .. Len(jobs), jobs' = Unlinked(i)
      PROVE  jobs' \in Seq(Job) /\ SlotInv' /\ Owned
  <2>1. /\ jobs' \in Seq(Job) /\ Len(jobs') = Len(jobs) - 1
        /\ \A k \in 1 .. Len(jobs) - 1 : jobs'[k] = jobs[IF k < i THEN k ELSE k + 1]
    BY ZenonT(40), <1>2, UnlinkedKeeps
  <2>2. DOMAIN jobs' = 1 .. Len(jobs) - 1
    BY <2>1
  <2> DEFINE at == [k \in 1 .. Len(jobs) - 1 |-> IF k < i THEN k ELSE k + 1]
  <2>3. \A k \in DOMAIN jobs' : at[k] \in DOMAIN jobs /\ jobs'[k] = jobs[at[k]]
    <3>1. \A k \in DOMAIN jobs' : jobs'[k] = jobs[at[k]]
      BY <2>1, <2>2, ZenonT(40)
    <3>2. \A k \in DOMAIN jobs' : at[k] \in DOMAIN jobs
      BY <1>0, <2>2
    <3> QED BY ZenonT(40), <3>1, <3>2
  <2>4. \A k, m \in DOMAIN jobs' : at[k] = at[m] => k = m
    BY <1>0, <2>2
  <2> HIDE DEF at
  <2>5. SlotInv'
    <3>1. ASSUME NEW k \in DOMAIN jobs', jobs'[k].child = "run"
          PROVE  jobs'[k].st = "running"
      <4>1. jobs'[k] = jobs[at[k]]
        BY ZenonT(40), <2>3
      <4>2. at[k] \in DOMAIN jobs
        BY ZenonT(40), <2>3
      <4>3. \A m \in DOMAIN jobs : jobs[m].child = "run" => jobs[m].st = "running"
        BY ZenonT(40) DEF SlotInv
      <4>4. jobs[at[k]].child = "run"
        BY ZenonT(40), <3>1, <4>1
      <4>5. jobs[at[k]].st = "running"
        BY ZenonT(40), <4>2, <4>3, <4>4
      <4> QED BY ZenonT(40), <4>1, <4>5
    <3>2. ASSUME NEW k \in DOMAIN jobs', NEW m \in DOMAIN jobs',
                 jobs'[k].kind = "action", jobs'[k].st = "running",
                 jobs'[m].kind = "action", jobs'[m].st = "running"
          PROVE  k = m
      <4>1. at[k] = at[m]
        <5>1. jobs'[k] = jobs[at[k]] /\ jobs'[m] = jobs[at[m]]
          BY ZenonT(40), <2>3
        <5>2. at[k] \in DOMAIN jobs /\ at[m] \in DOMAIN jobs
          BY ZenonT(40), <2>3
        <5> QED BY <3>2, <5>1, <5>2, ZenonT(40) DEF SlotInv
      <4> QED BY ZenonT(40), <2>4, <4>1
    <3> QED BY <3>1, <3>2, ZenonT(40) DEF SlotInv
  <2>6. Owned
    BY <2>3, ZenonT(40) DEF Owned
  <2> QED BY ZenonT(40), <2>1, <2>5, <2>6
<1>3. ASSUME NEW e \in Envs, JobStep(e), log[e] # "closed"
      PROVE  jobs' \in Seq(Job) /\ SlotInv' /\ Owned
  <2>1. CASE jobs' = jobs
    BY <2>1, ZenonT(40) DEF SlotInv, Owned, Typed
  <2>2. ASSUME NEW k \in {"agent", "action"}, NEW p \in Number,
               jobs' = <<NewJob(k, e, p)>> \o jobs,
               k = "action" => ActiveJobs("action") = {}
        PROVE  jobs' \in Seq(Job) /\ SlotInv' /\ Owned
    <3> DEFINE j == NewJob(k, e, p)
    <3>1. j \in Job /\ j.kind = k /\ j.run = e /\ j.st = "running"
      BY NewJobTyped
    <3>2. jobs' = <<j>> \o jobs
      BY ZenonT(40), <2>2
    <3> HIDE DEF j
    <3>3. /\ jobs' \in Seq(Job) /\ Len(jobs') = Len(jobs) + 1 /\ jobs'[1] = j
          /\ \A m \in 2 .. Len(jobs) + 1 : jobs'[m] = jobs[m - 1]
      BY <3>1, <3>2, PrependKeeps DEF Typed
    <3>4. \A m \in DOMAIN jobs' :
            m = 1 \/ (m - 1 \in DOMAIN jobs /\ jobs'[m] = jobs[m - 1])
      BY <1>0, <3>3
    <3>5. \A m, n \in DOMAIN jobs' : m - 1 = n - 1 => m = n
      BY <3>3
    <3>6. k = "action" =>
            \A m \in DOMAIN jobs : ~(jobs[m].st = "running" /\ jobs[m].kind = "action")
      BY ZenonT(40), <2>2, SlotFree
    <3>7. SlotInv'
      <4>1. \A m \in DOMAIN jobs' : jobs'[m].child = "run" => jobs'[m].st = "running"
        BY <3>1, <3>3, <3>4, ZenonT(40) DEF SlotInv
      <4>2. ASSUME NEW m \in DOMAIN jobs', NEW n \in DOMAIN jobs',
                   jobs'[m].kind = "action", jobs'[m].st = "running",
                   jobs'[n].kind = "action", jobs'[n].st = "running"
            PROVE  m = n
        <5>1. CASE m = 1
          BY <3>1, <3>3, <3>4, <3>6, <4>2, <5>1, ZenonT(40)
        <5>2. CASE n = 1
          BY <3>1, <3>3, <3>4, <3>6, <4>2, <5>2, ZenonT(40)
        <5>3. CASE m # 1 /\ n # 1
          <6>1. m - 1 = n - 1
            BY <3>4, <4>2, <5>3, ZenonT(40) DEF SlotInv
          <6> QED BY ZenonT(40), <3>5, <6>1
        <5> QED BY ZenonT(40), <5>1, <5>2, <5>3
      <4> QED BY <4>1, <4>2, ZenonT(40) DEF SlotInv
    <3>8. Owned
      BY <1>3, <3>1, <3>3, <3>4, ZenonT(40) DEF Owned
    <3> QED BY ZenonT(40), <3>3, <3>7, <3>8
  <2> QED BY <1>3, <2>1, <2>2, ZenonT(40) DEF JobStep
<1> QED BY <1>1, <1>2, <1>3, ZenonT(40) DEF JobsMove

-----------------------------------------------------------------------------
IInv == Typed /\ SlotInv /\ SealInv

LEMMA InitHolds == Init => IInv
<1> SUFFICES ASSUME Init PROVE IInv
  BY ZenonT(40)
<1>1. /\ profile \in Profiles /\ run = [e \in Envs |-> Blank] /\ jobs = <<>>
      /\ log = [e \in Envs |-> "none"] /\ fresh = Envs /\ inbox = <<>>
  BY ZenonT(40) DEF Init
<1>2. run \in [Envs -> Rec] /\ \A e \in Envs : run[e].state = "free"
  BY <1>1, BlankTyped, ZenonT(40)
<1>3. /\ log \in [Envs -> {"none", "inbound", "open", "closed"}]
      /\ \A e \in Envs : log[e] # "closed"
  BY ZenonT(40), <1>1
<1>4. jobs \in Seq(Job) /\ DOMAIN jobs = {} /\ inbox \in Seq(Envs) /\ 1 .. Len(inbox) = {}
  BY <1>1
<1>5. Typed
  BY ZenonT(40), <1>1, <1>2, <1>3, <1>4 DEF Typed
<1>6. SlotInv
  BY <1>4, ZenonT(40) DEF SlotInv
<1>7. SealInv
  BY <1>1, <1>2, <1>3, <1>4, ZenonT(40) DEF SealInv
<1> QED BY ZenonT(40), <1>5, <1>6, <1>7 DEF IInv

LEMMA StepKeeps ==
  ASSUME IInv, [Next]_vars
  PROVE  IInv' /\ Kept /\ Owned
<1>1. profile' = profile
  BY ZenonT(40) DEF Next, World, Pass, Shutdown, Publish, Cancel, PipeCloses, ChildExits, JobTick,
    RetryClaims, Intake, IntakeDone, PumpJob, WakeSlotWaiters, NextRun, StepRun, Retire,
    ShutdownTerm, ShutdownWait, ShutdownKill, ShutdownEnd, Stopped, vars
<1>2. RunsTyped /\ SealInv' /\ Kept
  BY ZenonT(40), RunsEffect DEF IInv
<1>3. jobs' \in Seq(Job) /\ SlotInv' /\ Owned
  BY ZenonT(40), JobsEffect, JobsKeep DEF IInv
<1>4. Typed'
  BY <1>1, <1>2, <1>3, ZenonT(40) DEF IInv, Typed, RunsTyped
<1> QED BY ZenonT(40), <1>2, <1>3, <1>4 DEF IInv

LEMMA SlotMeansOne == IInv => OneActionChild
BY ZenonT(40) DEF IInv, SlotInv, OneActionChild

LEMMA Inductive == Spec => []IInv
<1>1. Init => IInv
  BY ZenonT(40), InitHolds
<1>2. IInv /\ [Next]_vars => IInv'
  BY ZenonT(40), StepKeeps
<1> QED BY <1>1, <1>2, PTL DEF Spec

(* However many runs are active and however the reactor, the children and  *)
(* the clients interleave, at most one action subprocess is alive: the     *)
(* count that rt_action_subprocess_launch asks is never behind the world.  *)
THEOREM ActionSlot == Spec => []OneActionChild
<1>1. IInv => OneActionChild
  BY ZenonT(40), SlotMeansOne
<1> QED BY <1>1, Inductive, PTL

(* Once a run's terminal line is written, nothing is written after it, its *)
(* outcome does not change, and no job is started for it.                  *)
THEOREM TerminalSeals == Spec => TerminalIsLast
<1>1. IInv /\ [Next]_vars =>
        [\A e \in Envs : log[e] = "closed" =>
           /\ log'[e] = "closed" /\ run'[e].state = run[e].state
           /\ \A i \in DOMAIN jobs' : jobs'[i].run = e => \E k \in DOMAIN jobs : jobs[k].run = e]_vars
  BY ZenonT(40), StepKeeps DEF Kept, Owned
<1> QED BY <1>1, Inductive, PTL DEF Spec, TerminalIsLast
=============================================================================
