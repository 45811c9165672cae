------------------------ MODULE RunEngine_order_proofs ------------------------
(***************************************************************************)
(* More proofs about RunEngine for every number of envelopes, every        *)
(* profile and every bound: the bounds of the pool and of the run records, *)
(* the pairing of waiting runs with their jobs, the order of the runs of a *)
(* context, and what the graceful stop leaves behind.                      *)
(***************************************************************************)
EXTENDS RunEngine_proofs

(* The record of a run is within its bounds.                               *)
Within(r) ==
  /\ r \in Rec
  /\ r.phase \in 1 .. Len(Steps) + 1 /\ r.at \in 0 .. Len(Steps)
  /\ r.advance \in 0 .. MaxPasses /\ r.attempts \in 0 .. profile.retry
  /\ r.waiting \in 0 .. 1

(* A run that waits for a job has it counted and, for an agent, has its    *)
(* cursor just past the step that runs; a live run that waits for no job   *)
(* has none counted.                                                       *)
Sound(r) ==
  /\ Within(r)
  /\ r.state = "waiting_jobs" =>
       /\ r.waiting = 1 /\ r.wait \in {"agent", "action"}
       /\ r.wait = "agent" => r.at >= 1 /\ r.phase = r.at + 1
  /\ r.state \notin Terminal \cup {"waiting_jobs"} => r.waiting = 0

(* A live run has at most one job, it has one exactly while it waits for   *)
(* one, and that is the job it waits for.                                  *)
Paired(i) ==
  LET r == run[jobs[i].run]
  IN  /\ r.state # "free"
      /\ Active(jobs[i].run) =>
           /\ r.state = "waiting_jobs" /\ r.wait = jobs[i].kind
           /\ jobs[i].kind = "agent" => r.at = jobs[i].step

PairInv ==
  /\ \A i \in DOMAIN jobs : Paired(i)
  /\ \A i, k \in DOMAIN jobs : jobs[i].run = jobs[k].run /\ Active(jobs[i].run) => i = k
  /\ \A e \in Envs : run[e].state = "waiting_jobs" => \E i \in DOMAIN jobs : jobs[i].run = e

(* The pool holds each run once and holds every live run; what has no run  *)
(* yet has no line.                                                        *)
PoolInv ==
  /\ runs \in Seq(Envs) /\ Len(runs) <= MaxActive
  /\ \A i, k \in 1 .. Len(runs) : runs[i] = runs[k] => i = k
  /\ \A i \in 1 .. Len(runs) : run[runs[i]].state # "free"
  /\ \A e \in Envs : Active(e) => \E i \in 1 .. Len(runs) : runs[i] = e
  /\ \A e \in Envs : run[e].state = "free" => log[e] = "none"

(* The pool has room for what the intake may still admit.                  *)
CurInv ==
  /\ pc = "intake" => cur \in Nat /\ cur + Len(runs) <= MaxActive
  /\ pc = "step" => cur \in Nat \ {0}

(* SIGKILL leaves no child, and the last round leaves no live run.         *)
StopInv ==
  /\ pc \in {"poll", "claims", "intake", "pump", "step", "draining", "killing", "stopped"}
  /\ pc \in {"killing", "stopped"} => \A i \in DOMAIN jobs : jobs[i].child # "run"
  /\ pc = "stopped" => \A e \in Envs : ~Active(e)

(* The rest of the type invariant.                                         *)
RestTyped ==
  /\ refused \subseteq Envs /\ faults \in 0 .. MaxFaults
  /\ heard \in [Envs -> SUBSET {"reply", "failure"}]

OInv ==
  /\ \A e \in Envs : Sound(run[e])
  /\ PairInv /\ PoolInv /\ CurInv /\ StopInv /\ RestTyped /\ ContextOrder

-----------------------------------------------------------------------------
(* What the operations on a run's record do to the fields the invariant is *)
(* about.                                                                  *)

(* The fields that no assignment to another field changes.                 *)
SameWait(u, r) == u.wait = r.wait /\ u.at = r.at /\ u.waiting = r.waiting
SameCounts(u, r) == u.advance = r.advance /\ u.attempts = r.attempts

LEMMA StateFields ==
  ASSUME NEW r \in Rec, NEW st \in States
  PROVE  /\ [r EXCEPT !.state = st] \in Rec /\ [r EXCEPT !.state = st].state = st
         /\ [r EXCEPT !.state = st].phase = r.phase
         /\ SameWait([r EXCEPT !.state = st], r) /\ SameCounts([r EXCEPT !.state = st], r)
BY DEF Rec, SameWait, SameCounts

LEMMA PhaseFields ==
  ASSUME NEW r \in Rec, NEW p \in Number
  PROVE  /\ [r EXCEPT !.phase = p] \in Rec /\ [r EXCEPT !.phase = p].state = r.state
         /\ [r EXCEPT !.phase = p].phase = p
         /\ SameWait([r EXCEPT !.phase = p], r) /\ SameCounts([r EXCEPT !.phase = p], r)
BY DEF Rec, SameWait, SameCounts

LEMMA PendingFields ==
  ASSUME NEW r \in Rec, NEW q \in Queue
  PROVE  /\ [r EXCEPT !.pending = q] \in Rec /\ [r EXCEPT !.pending = q].state = r.state
         /\ [r EXCEPT !.pending = q].phase = r.phase
         /\ SameWait([r EXCEPT !.pending = q], r) /\ SameCounts([r EXCEPT !.pending = q], r)
BY DEF Rec, SameWait, SameCounts

LEMMA ToldFields ==
  ASSUME NEW r \in Rec, NEW b \in Flag
  PROVE  /\ [r EXCEPT !.told = b] \in Rec /\ [r EXCEPT !.told = b].state = r.state
         /\ [r EXCEPT !.told = b].phase = r.phase /\ [r EXCEPT !.told = b].pending = r.pending
         /\ SameWait([r EXCEPT !.told = b], r) /\ SameCounts([r EXCEPT !.told = b], r)
BY DEF Rec, SameWait, SameCounts

LEMMA AppliedFields ==
  ASSUME NEW r \in Rec, NEW q \in Queue, NEW b \in Flag
  PROVE  /\ Applied(r, q, b) \in Rec /\ Applied(r, q, b).state = r.state
         /\ Applied(r, q, b).phase = r.phase
         /\ SameWait(Applied(r, q, b), r) /\ SameCounts(Applied(r, q, b), r)
BY DEF Rec, Applied, SameWait, SameCounts

LEMMA WaitClearFields ==
  ASSUME NEW r \in Rec
  PROVE  /\ WaitClear(r) \in Rec /\ WaitClear(r).state = r.state
         /\ WaitClear(r).phase = r.phase /\ SameCounts(WaitClear(r), r)
         /\ WaitClear(r).waiting = r.waiting /\ WaitClear(r).at = 0
<1>1. "none" \in Reasons /\ 0 \in Number
  BY DEF Reasons, Number
<1> QED BY <1>1 DEF Rec, WaitClear, SameCounts

LEMMA WaitForFields ==
  ASSUME NEW r \in Rec, NEW w \in Reasons, NEW k \in Number
  PROVE  /\ WaitFor(r, w, k) \in Rec
         /\ WaitFor(r, w, k).state = IF w = "slot" THEN "waiting_slot" ELSE "waiting_jobs"
         /\ WaitFor(r, w, k).phase = r.phase /\ SameCounts(WaitFor(r, w, k), r)
         /\ WaitFor(r, w, k).wait = w /\ WaitFor(r, w, k).at = k
         /\ WaitFor(r, w, k).waiting = r.waiting
BY DEF Rec, States, WaitFor, SameCounts

LEMMA TrackedFields ==
  ASSUME NEW r \in Rec
  PROVE  /\ Tracked(r) \in Rec /\ Tracked(r).state = r.state /\ Tracked(r).phase = r.phase
         /\ SameCounts(Tracked(r), r) /\ Tracked(r).waiting = r.waiting + 1
<1>1. r.waiting + 1 \in Number
  BY DEF Rec, Number
<1> QED BY <1>1 DEF Rec, Tracked, SameCounts

LEMMA UntrackedFields ==
  ASSUME NEW r \in Rec
  PROVE  /\ Untracked(r) \in Rec /\ Untracked(r).state = r.state /\ Untracked(r).phase = r.phase
         /\ SameCounts(Untracked(r), r) /\ Untracked(r).waiting = r.waiting - 1
         /\ Untracked(r).at = r.at /\ Untracked(r).wait = r.wait
<1>1. r.waiting - 1 \in Number
  BY DEF Rec, Number
<1> QED BY <1>1 DEF Rec, Untracked, SameCounts

LEMMA AttemptsFields ==
  ASSUME NEW r \in Rec, NEW n \in Number
  PROVE  /\ [r EXCEPT !.attempts = n] \in Rec /\ [r EXCEPT !.attempts = n].state = r.state
         /\ [r EXCEPT !.attempts = n].phase = r.phase /\ [r EXCEPT !.attempts = n].attempts = n
         /\ [r EXCEPT !.attempts = n].advance = r.advance
         /\ SameWait([r EXCEPT !.attempts = n], r)
BY DEF Rec, SameWait

LEMMA AdvanceFields ==
  ASSUME NEW r \in Rec, NEW n \in Number
  PROVE  /\ [r EXCEPT !.advance = n] \in Rec /\ [r EXCEPT !.advance = n].state = r.state
         /\ [r EXCEPT !.advance = n].phase = r.phase /\ [r EXCEPT !.advance = n].advance = n
         /\ [r EXCEPT !.advance = n].attempts = r.attempts
         /\ SameWait([r EXCEPT !.advance = n], r)
BY DEF Rec, SameWait

LEMMA ProgressFields ==
  ASSUME NEW r \in Rec, NEW b \in Flag
  PROVE  /\ [r EXCEPT !.progress = b] \in Rec /\ [r EXCEPT !.progress = b].state = r.state
         /\ [r EXCEPT !.progress = b].phase = r.phase
         /\ SameWait([r EXCEPT !.progress = b], r) /\ SameCounts([r EXCEPT !.progress = b], r)
BY DEF Rec, SameWait, SameCounts

-----------------------------------------------------------------------------
(* The operations on a run's record keep it sound.                         *)

LEMMA Lengths ==
  ASSUME Typed
  PROVE  /\ Len(Steps) \in Nat /\ profile.retry \in Nat /\ MaxPasses \in Nat
         /\ 1 \in 1 .. Len(Steps) + 1 /\ Len(Steps) + 1 \in 1 .. Len(Steps) + 1
         /\ 0 \in 0 .. Len(Steps) /\ 1 .. Len(Steps) + 1 \subseteq Number
<1>1. Len(Steps) \in Nat /\ profile.retry \in Nat
  BY ProfileTyped
<1>2. MaxPasses \in Nat
  BY EngineAssumption
<1> QED BY <1>1, <1>2 DEF Number

LEMMA WithinSame ==
  ASSUME NEW r, NEW u \in Rec, Within(r), u.phase \in 1 .. Len(Steps) + 1,
         SameWait(u, r), SameCounts(u, r)
  PROVE  Within(u)
BY ZenonT(40) DEF Within, SameWait, SameCounts

LEMMA SoundSame ==
  ASSUME NEW r, NEW u \in Rec, Sound(r), u.state = r.state, u.phase = r.phase,
         SameWait(u, r), SameCounts(u, r)
  PROVE  Sound(u)
<1>1. Within(u)
  BY WithinSame DEF Sound, Within
<1> QED BY <1>1, ZenonT(40) DEF Sound, SameWait

LEMMA EndsSound ==
  ASSUME NEW r, Within(r), NEW st \in Terminal
  PROVE  /\ Sound([r EXCEPT !.state = st])
         /\ [r EXCEPT !.state = st].state = st
<1> DEFINE u == [r EXCEPT !.state = st]
<1>1. r \in Rec /\ st \in States /\ r.phase \in 1 .. Len(Steps) + 1
  BY DEF Within, Terminal, States
<1>2. u \in Rec /\ u.state = st /\ u.phase = r.phase /\ SameWait(u, r) /\ SameCounts(u, r)
  BY <1>1, StateFields
<1> HIDE DEF u
<1>3. Within(u)
  BY <1>1, <1>2, WithinSame
<1>4. st # "waiting_jobs"
  BY DEF Terminal
<1>5. Sound(u)
  BY <1>2, <1>3, <1>4, ZenonT(40) DEF Sound
<1> QED BY <1>2, <1>5 DEF u

(* A live run that waits for no job changes its state, not to that wait.   *)
LEMMA StateSound ==
  ASSUME NEW r, Sound(r), r.waiting = 0, NEW st \in States \ {"waiting_jobs"}
  PROVE  /\ Sound([r EXCEPT !.state = st]) /\ [r EXCEPT !.state = st].state = st
         /\ [r EXCEPT !.state = st].waiting = 0
         /\ [r EXCEPT !.state = st].phase = r.phase
<1> DEFINE u == [r EXCEPT !.state = st]
<1>1. r \in Rec /\ st \in States /\ r.phase \in 1 .. Len(Steps) + 1 /\ st # "waiting_jobs"
  BY DEF Sound, Within
<1>2. u \in Rec /\ u.state = st /\ u.phase = r.phase /\ SameWait(u, r) /\ SameCounts(u, r)
  BY <1>1, StateFields
<1> HIDE DEF u
<1>3. Within(u)
  BY <1>1, <1>2, WithinSame DEF Sound
<1>4. u.waiting = 0
  BY <1>2 DEF SameWait
<1>5. Sound(u)
  BY <1>1, <1>2, <1>3, <1>4, ZenonT(40) DEF Sound
<1> QED BY <1>2, <1>4, <1>5 DEF u

(* The records a step of a run works on.                                   *)
Walking(r) == Sound(r) /\ r.state = "running"

LEMMA WalkingFacts ==
  ASSUME NEW r, Walking(r)
  PROVE  /\ r \in Rec /\ r.state = "running" /\ r.waiting = 0
         /\ r.phase \in 1 .. Len(Steps) + 1 /\ Within(r) /\ Sound(r)
<1>1. r.state \notin Terminal \cup {"waiting_jobs"}
  BY DEF Walking, Terminal
<1> QED BY <1>1, ZenonT(40) DEF Walking, Sound, Within

LEMMA PhaseWalks ==
  ASSUME Typed, NEW r, Walking(r), NEW p \in 1 .. Len(Steps) + 1
  PROVE  Walking([r EXCEPT !.phase = p]) /\ [r EXCEPT !.phase = p].phase = p
<1> DEFINE u == [r EXCEPT !.phase = p]
<1>1. r \in Rec /\ Within(r) /\ r.state = "running" /\ r.waiting = 0
  BY WalkingFacts
<1>2. p \in Number
  BY Lengths
<1>3. u \in Rec /\ u.state = r.state /\ u.phase = p /\ SameWait(u, r) /\ SameCounts(u, r)
  BY <1>1, <1>2, PhaseFields
<1> HIDE DEF u
<1>4. Within(u)
  BY <1>1, <1>3, WithinSame
<1>5. Sound(u)
  BY <1>1, <1>3, <1>4, ZenonT(40) DEF Sound, SameWait
<1> QED BY <1>1, <1>3, <1>5 DEF Walking, u

LEMMA PendingWalks ==
  ASSUME NEW r, Walking(r), NEW q \in Queue
  PROVE  Walking([r EXCEPT !.pending = q]) /\ [r EXCEPT !.pending = q].phase = r.phase
<1>1. r \in Rec
  BY WalkingFacts
<1> QED BY <1>1, PendingFields, SoundSame, ZenonT(40) DEF Walking

LEMMA ToldWalks ==
  ASSUME NEW r, Walking(r), NEW b \in Flag
  PROVE  /\ Walking([r EXCEPT !.told = b]) /\ [r EXCEPT !.told = b].phase = r.phase
         /\ [r EXCEPT !.told = b].pending = r.pending
<1>1. r \in Rec
  BY WalkingFacts
<1> QED BY <1>1, ToldFields, SoundSame, ZenonT(40) DEF Walking

LEMMA AppliedWalks ==
  ASSUME NEW r, Walking(r), NEW q \in Queue, NEW b \in Flag
  PROVE  Walking(Applied(r, q, b))
<1>1. r \in Rec
  BY WalkingFacts
<1> QED BY <1>1, AppliedFields, SoundSame, ZenonT(40) DEF Walking

(* rt_agent_runner_start_step: the cursor moves on and the run waits.      *)
LEMMA AgentWaits ==
  ASSUME Typed, NEW r, Walking(r), r.phase <= Len(Steps)
  PROVE  LET n == WaitFor(Tracked([r EXCEPT !.phase = r.phase + 1]), "agent", r.phase)
         IN  Sound(n) /\ n.state = "waiting_jobs" /\ n.wait = "agent" /\ n.at = r.phase
<1> DEFINE u == [r EXCEPT !.phase = r.phase + 1]
           t == Tracked(u)
           n == WaitFor(t, "agent", r.phase)
<1>1. r \in Rec /\ Within(r) /\ r.waiting = 0 /\ r.phase \in 1 .. Len(Steps) + 1
  BY WalkingFacts
<1>2. /\ r.phase + 1 \in 1 .. Len(Steps) + 1 /\ r.phase \in 0 .. Len(Steps)
      /\ r.phase >= 1 /\ r.phase \in Number /\ r.phase + 1 \in Number
  BY <1>1, Lengths DEF Number
<1>3. u \in Rec /\ u.phase = r.phase + 1 /\ SameWait(u, r) /\ SameCounts(u, r)
  BY <1>1, <1>2, PhaseFields
<1> HIDE DEF u
<1>4. t \in Rec /\ t.phase = u.phase /\ SameCounts(t, u) /\ t.waiting = u.waiting + 1
  BY <1>3, TrackedFields
<1> HIDE DEF t
<1>5. "agent" \in Reasons /\ "agent" # "slot"
  BY DEF Reasons
<1>6. /\ n \in Rec /\ n.state = "waiting_jobs" /\ n.phase = t.phase /\ SameCounts(n, t)
      /\ n.wait = "agent" /\ n.at = r.phase /\ n.waiting = t.waiting
  BY <1>2, <1>4, <1>5, WaitForFields
<1> HIDE DEF n
<1>7. n.waiting = 1 /\ n.phase = r.phase + 1 /\ SameCounts(n, r)
  BY <1>1, <1>3, <1>4, <1>6 DEF SameWait, SameCounts
<1>8. Within(n)
  <2>1. n.waiting \in 0 .. 1
    BY <1>7
  <2> QED BY <1>1, <1>2, <1>6, <1>7, <2>1, ZenonT(40) DEF Within, SameCounts
<1>9. n.state \in Terminal \cup {"waiting_jobs"}
  BY <1>6
<1>10. Sound(n)
  BY <1>2, <1>6, <1>7, <1>8, <1>9, ZenonT(40) DEF Sound
<1> QED BY <1>6, <1>10 DEF n, t, u

(* rt_run_wait_for_action_job.                                             *)
LEMMA ActionWaits ==
  ASSUME Typed, NEW r, Walking(r)
  PROVE  LET n == WaitFor(Tracked(r), "action", 0)
         IN  Sound(n) /\ n.state = "waiting_jobs" /\ n.wait = "action"
<1> DEFINE t == Tracked(r)
           n == WaitFor(t, "action", 0)
<1>1. r \in Rec /\ Within(r) /\ r.waiting = 0 /\ r.phase \in 1 .. Len(Steps) + 1
  BY WalkingFacts
<1>2. t \in Rec /\ t.phase = r.phase /\ SameCounts(t, r) /\ t.waiting = r.waiting + 1
  BY <1>1, TrackedFields
<1> HIDE DEF t
<1>3. "action" \in Reasons /\ "action" # "slot" /\ 0 \in Number /\ "action" # "agent"
  BY DEF Reasons, Number
<1>4. /\ n \in Rec /\ n.state = "waiting_jobs" /\ n.phase = t.phase /\ SameCounts(n, t)
      /\ n.wait = "action" /\ n.at = 0 /\ n.waiting = t.waiting
  BY <1>2, <1>3, WaitForFields
<1> HIDE DEF n
<1>5. n.waiting = 1 /\ n.phase = r.phase /\ SameCounts(n, r)
  BY <1>1, <1>2, <1>4 DEF SameCounts
<1>6. Within(n)
  <2>1. n.waiting \in 0 .. 1 /\ 0 \in 0 .. Len(Steps)
    BY <1>5, Lengths
  <2> QED BY <1>1, <1>4, <1>5, <2>1, ZenonT(40) DEF Within, SameCounts
<1>7. Sound(n)
  BY <1>3, <1>4, <1>5, <1>6, ZenonT(40) DEF Sound
<1> QED BY <1>4, <1>7 DEF n, t

(* rt_run_wait_for_action_slot.                                            *)
LEMMA SlotWaits ==
  ASSUME Typed, NEW r, Walking(r)
  PROVE  LET n == WaitFor(r, "slot", 0) IN Sound(n) /\ n.state = "waiting_slot"
<1> DEFINE n == WaitFor(r, "slot", 0)
<1>1. r \in Rec /\ Within(r) /\ r.waiting = 0 /\ r.phase \in 1 .. Len(Steps) + 1
  BY WalkingFacts
<1>2. "slot" \in Reasons /\ 0 \in Number /\ 0 \in 0 .. Len(Steps)
  BY Lengths DEF Reasons, Number
<1>3. /\ n \in Rec /\ n.state = "waiting_slot" /\ n.phase = r.phase /\ SameCounts(n, r)
      /\ n.at = 0 /\ n.waiting = r.waiting
  BY <1>1, <1>2, WaitForFields
<1> HIDE DEF n
<1>4. Within(n)
  BY <1>1, <1>2, <1>3, ZenonT(40) DEF Within, SameCounts
<1>5. Sound(n)
  BY <1>1, <1>3, <1>4, ZenonT(40) DEF Sound
<1> QED BY <1>3, <1>5 DEF n

(* A record whose wait is cleared, from one within its bounds.             *)
LEMMA ClearSound ==
  ASSUME Typed, NEW r, Within(r), r.waiting = 0, r.state # "waiting_jobs"
  PROVE  Sound(WaitClear(r)) /\ WaitClear(r).state = r.state
<1> DEFINE n == WaitClear(r)
<1>1. r \in Rec /\ 0 \in 0 .. Len(Steps)
  BY Lengths DEF Within
<1>2. /\ n \in Rec /\ n.state = r.state /\ n.phase = r.phase /\ SameCounts(n, r)
      /\ n.waiting = r.waiting /\ n.at = 0
  BY <1>1, WaitClearFields
<1> HIDE DEF n
<1>3. Within(n)
  BY <1>1, <1>2, ZenonT(40) DEF Within, SameCounts
<1>4. Sound(n)
  BY <1>2, <1>3, ZenonT(40) DEF Sound
<1> QED BY <1>2, <1>4 DEF n

(* A job less is counted.                                                  *)
LEMMA UntrackedWithin ==
  ASSUME NEW r, Within(r), r.waiting = 1
  PROVE  /\ Within(Untracked(r)) /\ Untracked(r).waiting = 0
         /\ Untracked(r).phase = r.phase /\ Untracked(r).attempts = r.attempts
         /\ Untracked(r).state = r.state
<1> DEFINE u == Untracked(r)
<1>1. r \in Rec
  BY DEF Within
<1>2. /\ u \in Rec /\ u.state = r.state /\ u.phase = r.phase /\ SameCounts(u, r)
      /\ u.waiting = r.waiting - 1 /\ u.at = r.at
  BY <1>1, UntrackedFields
<1> HIDE DEF u
<1>3. u.waiting = 0 /\ u.waiting \in 0 .. 1
  BY <1>2
<1>4. Within(u)
  BY <1>2, <1>3, ZenonT(40) DEF Within, SameCounts
<1> QED BY <1>2, <1>3, <1>4 DEF u, SameCounts

LEMMA StateWithin ==
  ASSUME NEW r, Within(r), NEW st \in States
  PROVE  /\ Within([r EXCEPT !.state = st]) /\ [r EXCEPT !.state = st].state = st
         /\ [r EXCEPT !.state = st].waiting = r.waiting
         /\ [r EXCEPT !.state = st].attempts = r.attempts
<1>1. r \in Rec /\ r.phase \in 1 .. Len(Steps) + 1
  BY DEF Within
<1> QED BY <1>1, StateFields, WithinSame, ZenonT(40) DEF SameWait, SameCounts

(* wake_run_after_job after a success.                                     *)
LEMMA WakeOkSound ==
  ASSUME Typed, NEW r, Within(r), r.waiting = 1, NEW j
  PROVE  Sound(WakeOk(r, j)) /\ WakeOk(r, j).state \in {"running", "ready"}
<1> DEFINE st == IF j.kind = "agent" THEN "running"
                 ELSE IF r.waiting > 1 THEN "waiting_jobs" ELSE "ready"
           u == Untracked(r)
           s == [u EXCEPT !.state = st]
<1>1. st \in {"running", "ready"} /\ st \in States /\ st # "waiting_jobs"
  BY DEF States
<1>2. Within(u) /\ u.waiting = 0
  BY UntrackedWithin
<1> HIDE DEF st, u
<1>3. Within(s) /\ s.state = st /\ s.waiting = 0
  BY <1>1, <1>2, StateWithin
<1>4. WakeOk(r, j) = WaitClear(s)
  BY ZenonT(40) DEF WakeOk, s, st, u
<1> HIDE DEF s
<1>5. Sound(WaitClear(s)) /\ WaitClear(s).state = st
  BY <1>1, <1>3, ClearSound
<1> QED BY <1>1, <1>4, <1>5

(* begin_advance_if_needed counts a pass only below the cap.               *)
LEMMA BeginWalks ==
  ASSUME Typed, NEW r, Sound(r), r.state \in {"ready", "running"},
         ~(Fresh(r) /\ r.advance >= MaxPasses)
  PROVE  Walking(Begin(r))
<1> DEFINE r1 == [r EXCEPT !.state = "running"]
           r2 == [r1 EXCEPT !.advance = r.advance + 1]
           r3 == [r2 EXCEPT !.told = FALSE]
           r4 == [r3 EXCEPT !.progress = FALSE]
<1>1. "running" \in States \ {"waiting_jobs"} /\ r.waiting = 0
  BY DEF States, Sound, Terminal
<1>2. Sound(r1) /\ r1.state = "running" /\ r1.waiting = 0
  BY <1>1, StateSound
<1>3. CASE ~Fresh(r)
  BY <1>2, <1>3, ZenonT(40) DEF Walking, Begin
<1>4. CASE Fresh(r)
  <2>1. /\ r.advance + 1 \in Number /\ r.advance + 1 \in 0 .. MaxPasses
    <3>1. r.advance \in 0 .. MaxPasses
      BY DEF Sound, Within
    <3>2. ~(r.advance >= MaxPasses)
      BY <1>4
    <3> QED BY <3>1, <3>2, Lengths DEF Number
  <2>2. Begin(r) = r4
    BY <1>4, ZenonT(40) DEF Begin
  <2>3. r1 \in Rec
    BY <1>2 DEF Sound, Within
  <2> HIDE DEF r1
  <2>4. /\ r2 \in Rec /\ r2.state = r1.state /\ r2.phase = r1.phase
        /\ r2.advance = r.advance + 1 /\ r2.attempts = r1.attempts /\ SameWait(r2, r1)
    BY <2>1, <2>3, AdvanceFields
  <2> HIDE DEF r2
  <2>5. Walking(r2)
    <3>1. Within(r2)
      BY <1>2, <2>1, <2>4, ZenonT(40) DEF Sound, Within, SameWait
    <3>2. r2.state = "running" /\ r2.waiting = 0
      BY <1>2, <2>4 DEF SameWait
    <3> QED BY <3>1, <3>2, ZenonT(40) DEF Sound, Walking
  <2>6. FALSE \in Flag
    BY DEF Flag
  <2>7. Walking(r3)
    BY <2>5, <2>6, ToldWalks
  <2> HIDE DEF r3
  <2>8. Walking(r4)
    <3>1. r3 \in Rec
      BY <2>7, WalkingFacts
    <3>2. /\ r4 \in Rec /\ r4.state = r3.state /\ r4.phase = r3.phase
          /\ SameWait(r4, r3) /\ SameCounts(r4, r3)
      BY <2>6, <3>1, ProgressFields
    <3> HIDE DEF r4
    <3> QED BY <2>7, <3>2, SoundSame DEF Walking
  <2> QED BY <2>2, <2>8
<1> QED BY <1>3, <1>4

-----------------------------------------------------------------------------
(* What a step of a run leaves behind.                                     *)

Launched(e) ==
  \E k \in {"agent", "action"}, p \in Number :
    /\ jobs' = <<NewJob(k, e, p)>> \o jobs
    /\ run'[e].state = "waiting_jobs" /\ run'[e].wait = k
    /\ k = "agent" => run'[e].at = p

Effect(e) ==
  /\ Sound(run'[e])
  /\ (jobs' = jobs /\ run'[e].state # "waiting_jobs") \/ Launched(e)

Side(e) ==
  /\ faults' = faults \/ Fault
  /\ heard' = heard \/ heard' = [heard EXCEPT ![e] = @ \cup {"reply"}]
  /\ cur' = cur \/ cur' = cur + 1

LEMMA GoesRecord ==
  ASSUME Typed, NEW e \in Envs, NEW r, Goes(e, r)
  PROVE  run'[e] = r
BY ZenonT(40) DEF Typed, Goes

LEMMA EndRecord ==
  ASSUME Typed, NEW e \in Envs, NEW r, Within(r), NEW st \in Terminal, End(e, r, st)
  PROVE  Sound(run'[e]) /\ run'[e].state \in Terminal
<1> DEFINE a == [r EXCEPT !.state = st]
           b == [r EXCEPT !.state = "failed"]
<1>1. "failed" \in Terminal
  BY DEF Terminal
<1>2. Sound(a) /\ a.state = st /\ Sound(b) /\ b.state = "failed"
  BY <1>1, EndsSound
<1>3. run' = [run EXCEPT ![e] = a] \/ run' = [run EXCEPT ![e] = b]
  BY ZenonT(40) DEF End
<1> HIDE DEF a, b
<1>4. run'[e] = a \/ run'[e] = b
  BY <1>3, ZenonT(40) DEF Typed
<1> QED BY <1>1, <1>2, <1>4, ZenonT(40)

LEMMA EndsEffect ==
  ASSUME Typed, NEW e \in Envs, NEW r, Within(r), NEW st \in Terminal,
         End(e, r, st), jobs' = jobs
  PROVE  Effect(e)
<1>1. "waiting_jobs" \notin Terminal
  BY DEF Terminal
<1> QED BY <1>1, EndRecord, ZenonT(40) DEF Effect

(* The run goes on, and waits for no job.                                  *)
LEMMA GoesEffect ==
  ASSUME Typed, NEW e \in Envs, NEW r, Sound(r), r.state # "waiting_jobs",
         Goes(e, r), jobs' = jobs
  PROVE  Effect(e)
BY GoesRecord, ZenonT(40) DEF Effect

LEMMA NextPhaseWalks ==
  ASSUME Typed, NEW r, Walking(r), r.phase <= Len(Steps)
  PROVE  Walking([r EXCEPT !.phase = r.phase + 1])
<1>1. r.phase \in 1 .. Len(Steps) + 1
  BY WalkingFacts
<1>2. r.phase + 1 \in 1 .. Len(Steps) + 1
  BY <1>1, Lengths
<1> QED BY <1>2, PhaseWalks

LEMMA WalkingGoes ==
  ASSUME Typed, NEW e \in Envs, NEW r, Walking(r), Goes(e, r), jobs' = jobs
  PROVE  Effect(e)
<1>1. Sound(r) /\ r.state # "waiting_jobs"
  BY DEF Walking
<1> QED BY <1>1, GoesEffect

LEMMA EmptiedWalks ==
  ASSUME Typed, NEW r, Walking(r), NEW implicit \in BOOLEAN,
         ~implicit => r.phase <= Len(Steps)
  PROVE  Walking(Emptied(r, implicit))
<1>1. CASE implicit
  BY <1>1, ZenonT(40) DEF Emptied
<1>2. CASE ~implicit
  <2>1. Emptied(r, implicit) = [r EXCEPT !.phase = r.phase + 1]
    BY <1>2, ZenonT(40) DEF Emptied
  <2>2. Walking([r EXCEPT !.phase = r.phase + 1])
    BY <1>2, NextPhaseWalks
  <2> QED BY <2>1, <2>2, ZenonT(40)
<1> QED BY <1>1, <1>2

LEMMA PoppedEffect ==
  ASSUME Typed, NEW e \in Envs, NEW r, Walking(r), r.pending # <<>>,
         NEW implicit \in BOOLEAN, ~implicit => r.phase <= Len(Steps),
         Popped(e, r, implicit), jobs' = jobs
  PROVE  Effect(e)
<1> DEFINE q == Tail(r.pending)
           r1 == [r EXCEPT !.pending = q]
<1>1. q \in Queue
  <2>1. r.pending \in Queue
    BY WalkingFacts DEF Rec
  <2> QED BY <2>1 DEF Queue
<1>2. Goes(e, r1) \/ Goes(e, Emptied(r1, implicit))
  BY ZenonT(40) DEF Popped
<1> HIDE DEF q
<1>3. Walking(r1) /\ r1.phase = r.phase
  BY <1>1, PendingWalks
<1> HIDE DEF r1
<1>4. ~implicit => r1.phase <= Len(Steps)
  BY <1>3
<1>5. Walking(Emptied(r1, implicit))
  BY <1>3, <1>4, EmptiedWalks
<1> QED BY <1>2, <1>3, <1>5, WalkingGoes

LEMMA ActionEffect ==
  ASSUME Typed, NEW e \in Envs, NEW r, Walking(r), NEW implicit \in BOOLEAN,
         jobs' = <<NewJob("action", e, 0)>> \o jobs,
         Goes(e, WaitFor(Tracked([r EXCEPT !.phase =
                           IF implicit \/ profile.one_pass \/ e \in Exec
                           THEN r.phase ELSE 1]), "action", 0))
  PROVE  Effect(e)
<1> DEFINE p == IF implicit \/ profile.one_pass \/ e \in Exec THEN r.phase ELSE 1
           u == [r EXCEPT !.phase = p]
           n == WaitFor(Tracked(u), "action", 0)
<1>1. r.phase \in 1 .. Len(Steps) + 1 /\ 1 \in 1 .. Len(Steps) + 1
  BY WalkingFacts, Lengths
<1>2. p \in 1 .. Len(Steps) + 1
  BY <1>1, ZenonT(40)
<1> HIDE DEF p
<1>3. Walking(u)
  BY <1>2, PhaseWalks
<1>4. Goes(e, n)
  BY DEF p, u, n
<1> HIDE DEF u
<1>5. Sound(n) /\ n.state = "waiting_jobs" /\ n.wait = "action"
  BY <1>3, ActionWaits
<1> HIDE DEF n
<1>6. run'[e] = n
  BY <1>4, GoesRecord
<1>7. 0 \in Number
  BY DEF Number
<1> QED BY <1>5, <1>6, <1>7, ZenonT(40) DEF Effect, Launched

LEMMA DrainEffect ==
  ASSUME Typed, NEW e \in Envs, NEW r, Walking(r), NEW implicit \in BOOLEAN,
         ~implicit => r.phase <= Len(Steps), Drain(e, r, implicit)
  PROVE  Effect(e)
<1>1. CASE Goes(e, Emptied(r, implicit)) /\ jobs' = jobs
  BY <1>1, EmptiedWalks, WalkingGoes
<1>2. CASE r.pending # <<>> /\ Popped(e, [r EXCEPT !.told = TRUE], implicit) /\ jobs' = jobs
  <2> DEFINE t == [r EXCEPT !.told = TRUE]
  <2>1. TRUE \in Flag
    BY DEF Flag
  <2>2. Walking(t) /\ t.phase = r.phase /\ t.pending = r.pending
    BY <2>1, ToldWalks
  <2> HIDE DEF t
  <2>3. Popped(e, t, implicit) /\ t.pending # <<>> /\ (~implicit => t.phase <= Len(Steps))
    BY <1>2, <2>2 DEF t
  <2> QED BY <1>2, <2>2, <2>3, PoppedEffect
<1>3. CASE Goes(e, WaitFor(r, "slot", 0)) /\ jobs' = jobs
  <2> DEFINE n == WaitFor(r, "slot", 0)
  <2>1. Sound(n) /\ n.state # "waiting_jobs"
    BY SlotWaits
  <2>2. Goes(e, n)
    BY <1>3
  <2> HIDE DEF n
  <2> QED BY <1>3, <2>1, <2>2, GoesEffect
<1>4. CASE /\ jobs' = <<NewJob("action", e, 0)>> \o jobs
           /\ Goes(e, WaitFor(Tracked([r EXCEPT !.phase =
                        IF implicit \/ profile.one_pass \/ e \in Exec
                        THEN r.phase ELSE 1]), "action", 0))
  BY <1>4, ActionEffect
<1>5. CASE r.pending # <<>> /\ Popped(e, r, implicit) /\ jobs' = jobs
  BY <1>5, PoppedEffect
<1>6. CASE End(e, r, "failed") /\ jobs' = jobs
  BY <1>6, WalkingFacts, EndsEffect DEF Terminal
<1> QED BY <1>1, <1>2, <1>3, <1>4, <1>5, <1>6, ZenonT(40) DEF Drain

LEMMA LaunchEffect ==
  ASSUME Typed, NEW e \in Envs, NEW r, Walking(r), r.phase <= Len(Steps), LaunchAgent(e, r)
  PROVE  Effect(e)
<1> DEFINE n == WaitFor(Tracked([r EXCEPT !.phase = r.phase + 1]), "agent", r.phase)
<1>1. Sound(n) /\ n.state = "waiting_jobs" /\ n.wait = "agent" /\ n.at = r.phase
  BY AgentWaits
<1>2. Goes(e, n) /\ jobs' = <<NewJob("agent", e, r.phase)>> \o jobs
  BY ZenonT(40) DEF LaunchAgent
<1> HIDE DEF n
<1>3. run'[e] = n
  BY <1>2, GoesRecord
<1>4. r.phase \in Number
  BY WalkingFacts DEF Rec
<1> QED BY <1>1, <1>2, <1>3, <1>4, ZenonT(40) DEF Effect, Launched

LEMMA NativeGoes ==
  ASSUME Typed, NEW e \in Envs, NEW r, Walking(r), r.phase <= Len(Steps), NativeStep(e, r)
  PROVE  Effect(e)
<1>1. PICK q \in Outputs, p \in BOOLEAN :
        Goes(e, [r EXCEPT !.phase = r.phase + 1, !.pending = r.pending \o q,
                          !.progress = r.progress \/ p])
  BY ZenonT(40) DEF NativeStep
<1> DEFINE u == [r EXCEPT !.phase = r.phase + 1]
           g == r.pending \o q
           b == r.progress \/ p
<1>2. Walking(u)
  BY NextPhaseWalks
<1>3. g \in Queue
  BY WalkingFacts, QueueGrows
<1>4. b \in Flag
  BY ZenonT(40) DEF Flag
<1>5. Goes(e, Applied(u, g, b))
  BY <1>1 DEF Applied
<1> HIDE DEF u, g, b
<1>6. Walking(Applied(u, g, b))
  BY <1>2, <1>3, <1>4, AppliedWalks
<1>7. jobs' = jobs
  BY ZenonT(40) DEF NativeStep
<1> QED BY <1>5, <1>6, <1>7, WalkingGoes

LEMMA FinishEffect ==
  ASSUME Typed, NEW e \in Envs, NEW r, Walking(r), FinishAdvance(e, r)
  PROVE  Effect(e)
<1>1. CASE Ends(e, r, "done")
  BY <1>1, WalkingFacts, EndsEffect DEF Terminal, Ends
<1>2. CASE Goes(e, [r EXCEPT !.phase = 1, !.state = "ready"]) /\ jobs' = jobs
  <2> DEFINE u == [r EXCEPT !.phase = 1]
             n == [u EXCEPT !.state = "ready"]
  <2>1. 1 \in 1 .. Len(Steps) + 1
    BY Lengths
  <2>2. Walking(u)
    BY <2>1, PhaseWalks
  <2> HIDE DEF u
  <2>3. Sound(u) /\ u.waiting = 0
    BY <2>2, WalkingFacts
  <2>4. "ready" \in States \ {"waiting_jobs"}
    BY DEF States
  <2>5. Sound(n) /\ n.state = "ready"
    BY <2>3, <2>4, StateSound
  <2>6. Goes(e, n)
    BY <1>2 DEF u, n
  <2> HIDE DEF n
  <2> QED BY <1>2, <2>5, <2>6, GoesEffect
<1> QED BY <1>1, <1>2, ZenonT(40) DEF FinishAdvance

LEMMA PerformEffect ==
  ASSUME Typed, NEW e \in Envs, NEW r, Walking(r), Perform(e, r)
  PROVE  Effect(e)
<1>1. StepAt(r) # "end" => r.phase <= Len(Steps)
  BY ZenonT(40) DEF StepAt
<1>2. \/ Drain(e, r, TRUE) \/ FinishAdvance(e, r)
      \/ StepAt(r) = "dispatch" /\ Drain(e, r, FALSE)
      \/ /\ StepAt(r) # "end"
         /\ \/ Goes(e, [r EXCEPT !.phase = r.phase + 1]) /\ jobs' = jobs
            \/ NativeStep(e, r) \/ LaunchAgent(e, r) \/ LaunchFails(e, r)
  BY ZenonT(40) DEF Perform
<1>3. CASE Drain(e, r, TRUE)
  BY <1>3, DrainEffect
<1>4. CASE FinishAdvance(e, r)
  BY <1>4, FinishEffect
<1>5. CASE StepAt(r) = "dispatch" /\ Drain(e, r, FALSE)
  <2>1. r.phase <= Len(Steps)
    BY <1>1, <1>5
  <2> QED BY <1>5, <2>1, DrainEffect
<1>6. CASE StepAt(r) # "end"
  <2>1. r.phase <= Len(Steps)
    BY <1>1, <1>6
  <2>2. CASE Goes(e, [r EXCEPT !.phase = r.phase + 1]) /\ jobs' = jobs
    BY <2>1, <2>2, NextPhaseWalks, WalkingGoes
  <2>3. CASE NativeStep(e, r)
    BY <2>1, <2>3, NativeGoes
  <2>4. CASE LaunchAgent(e, r)
    BY <2>1, <2>4, LaunchEffect
  <2>5. CASE Ends(e, r, "done") \/ Ends(e, r, "failed")
    BY <2>5, WalkingFacts, EndsEffect DEF Terminal, Ends
  <2>6. LaunchFails(e, r) => \/ Goes(e, [r EXCEPT !.phase = r.phase + 1]) /\ jobs' = jobs
                             \/ Ends(e, r, "done") \/ Ends(e, r, "failed")
    BY ZenonT(40) DEF LaunchFails
  <2> QED BY <1>2, <1>3, <1>4, <1>5, <2>2, <2>3, <2>4, <2>5, <2>6, ZenonT(40)
<1> QED BY <1>2, <1>3, <1>4, <1>5, <1>6

LEMMA StepSide ==
  ASSUME NEW e, NEW r, Perform(e, r) \/ Ends(e, r, "failed")
  PROVE  Side(e)
<1>1. \A st : Ends(e, r, st) => Side(e)
  BY ZenonT(40) DEF Ends, End, Leave, Side
<1>2. \A b : Drain(e, r, b) => Side(e)
  BY ZenonT(40) DEF Drain, Popped, Advanced, Leave, End, Side
<1>3. FinishAdvance(e, r) => Side(e)
  BY <1>1, ZenonT(40) DEF FinishAdvance, Advanced, Side
<1>4. NativeStep(e, r) \/ LaunchAgent(e, r) => Side(e)
  BY ZenonT(40) DEF NativeStep, LaunchAgent, Advanced, Leave, Side
<1>5. LaunchFails(e, r) => Side(e)
  BY <1>1, ZenonT(40) DEF LaunchFails, Advanced, Side
<1>6. Perform(e, r) =>
        \/ Drain(e, r, TRUE) \/ Drain(e, r, FALSE) \/ FinishAdvance(e, r)
        \/ Advanced /\ UNCHANGED <<jobs, heard, faults>>
        \/ NativeStep(e, r) \/ LaunchAgent(e, r) \/ LaunchFails(e, r)
  BY ZenonT(40) DEF Perform
<1>7. Advanced /\ UNCHANGED <<jobs, heard, faults>> => Side(e)
  BY ZenonT(40) DEF Advanced, Side
<1> QED BY <1>1, <1>2, <1>3, <1>4, <1>5, <1>6, <1>7, ZenonT(40)

(* One step of one run, which no older run of its context holds back.      *)
HeldBack(e) ==
  profile.serialize /\ \E k \in 1 .. cur - 1 : /\ run[runs[k]].state \notin Terminal
                                               /\ Ctx[runs[k]] = Ctx[e]

LEMMA StepRunFull ==
  ASSUME Typed, \A e \in Envs : Sound(run[e]), StepRun
  PROVE  \E e \in Envs : /\ e = runs[cur] /\ cur <= Len(runs) /\ ~HeldBack(e)
                         /\ run[e].state \in {"ready", "running"}
                         /\ Effect(e) /\ Side(e)
<1>1. PICK e \in Envs :
        /\ e = runs[cur]
        /\ \/ Ends(e, run[e], "failed")
           \/ /\ ~(Fresh(run[e]) /\ run[e].advance >= MaxPasses)
              /\ Perform(e, Begin(run[e]))
  BY ZenonT(40) DEF StepRun
<1>2. run[e].state \in {"ready", "running"} /\ cur <= Len(runs) /\ ~HeldBack(e)
  BY <1>1, ZenonT(40) DEF StepRun, Steppable, Serialized, HeldBack
<1>3. Effect(e)
  <2>1. CASE Ends(e, run[e], "failed")
    BY <2>1, EndsEffect DEF Ends, Terminal, Sound
  <2>2. CASE /\ ~(Fresh(run[e]) /\ run[e].advance >= MaxPasses)
             /\ Perform(e, Begin(run[e]))
    <3>1. Walking(Begin(run[e]))
      BY <1>2, <2>2, BeginWalks
    <3> QED BY <2>2, <3>1, PerformEffect
  <2> QED BY <1>1, <2>1, <2>2
<1>4. Side(e)
  BY <1>1, StepSide
<1> QED BY <1>1, <1>2, <1>3, <1>4

-----------------------------------------------------------------------------
(* What the completion of a job leaves behind.                             *)

Woken(e) ==
  /\ Sound(run'[e]) /\ run'[e].state # "waiting_jobs"
  /\ faults' = faults \/ Fault

(* An event that starts over has an attempt left.                          *)
LEMMA StartsOver ==
  ASSUME Typed, NEW r, Within(r), r.waiting = 0, r.attempts < profile.retry
  PROVE  LET n == WaitClear([r EXCEPT !.state = "ready", !.phase = 1,
                                      !.attempts = r.attempts + 1])
         IN  Sound(n) /\ n.state = "ready"
<1> DEFINE b1 == [r EXCEPT !.state = "ready"]
           b2 == [b1 EXCEPT !.phase = 1]
           b == [b2 EXCEPT !.attempts = r.attempts + 1]
<1>1. r \in Rec /\ "ready" \in States /\ 1 \in Number /\ 1 \in 1 .. Len(Steps) + 1
  BY Lengths DEF Within, States, Number
<1>2. r.attempts + 1 \in 0 .. profile.retry /\ r.attempts + 1 \in Number
  BY Lengths DEF Within, Number
<1>3. b1 \in Rec /\ b1.state = "ready" /\ SameWait(b1, r) /\ SameCounts(b1, r)
  BY <1>1, StateFields
<1> HIDE DEF b1
<1>4. b2 \in Rec /\ b2.state = b1.state /\ b2.phase = 1 /\ SameWait(b2, b1) /\ SameCounts(b2, b1)
  BY <1>1, <1>3, PhaseFields
<1> HIDE DEF b2
<1>5. /\ b \in Rec /\ b.state = b2.state /\ b.phase = b2.phase /\ b.attempts = r.attempts + 1
      /\ b.advance = b2.advance /\ SameWait(b, b2)
  BY <1>2, <1>4, AttemptsFields
<1>6. [r EXCEPT !.state = "ready", !.phase = 1, !.attempts = r.attempts + 1] = b
  BY DEF b1, b2, b
<1> HIDE DEF b
<1>7. /\ b.state = "ready" /\ b.phase = 1 /\ b.advance = r.advance
      /\ b.at = r.at /\ b.waiting = r.waiting
  BY <1>3, <1>4, <1>5, ZenonT(40) DEF SameWait, SameCounts
<1>8. Within(b)
  BY <1>1, <1>2, <1>5, <1>7, ZenonT(40) DEF Within
<1>9. b.waiting = 0 /\ b.state # "waiting_jobs"
  BY <1>7
<1>10. Sound(WaitClear(b)) /\ WaitClear(b).state = b.state
  BY <1>8, <1>9, ClearSound
<1> QED BY <1>6, <1>7, <1>10, ZenonT(40)

LEMMA WakeFailedWakes ==
  ASSUME Typed, NEW e \in Envs, Sound(run[e]), run[e].state = "waiting_jobs",
         NEW j, WakeFailed(e, run[e], j)
  PROVE  Woken(e)
<1> DEFINE r == run[e]
           r1 == Untracked(r)
           st == IF r1.waiting > 0 THEN "waiting_jobs" ELSE "running"
           a == [r1 EXCEPT !.state = st]
           b == [r1 EXCEPT !.state = "ready", !.phase = 1, !.attempts = r1.attempts + 1]
<1>1. \/ End(e, r1, "done") \/ End(e, r1, "failed")
      \/ Goes(e, WaitClear(a)) /\ faults' = faults
      \/ r.attempts < profile.retry /\ Goes(e, WaitClear(b)) /\ faults' = faults
  BY ZenonT(40) DEF WakeFailed, Goes
<1>2. Within(r) /\ r.waiting = 1
  BY ZenonT(40) DEF Sound
<1>3. Within(r1) /\ r1.waiting = 0 /\ r1.attempts = r.attempts
  BY <1>2, UntrackedWithin
<1> HIDE DEF r1, r
<1>4. CASE End(e, r1, "done") \/ End(e, r1, "failed")
  <2>1. "done" \in Terminal /\ "failed" \in Terminal /\ "waiting_jobs" \notin Terminal
    BY DEF Terminal
  <2>2. Sound(run'[e]) /\ run'[e].state \in Terminal
    BY <1>3, <1>4, <2>1, EndRecord
  <2>3. faults' = faults \/ Fault
    BY <1>4, ZenonT(40) DEF End
  <2> QED BY <2>1, <2>2, <2>3, ZenonT(40) DEF Woken
<1>5. CASE Goes(e, WaitClear(a)) /\ faults' = faults
  <2>1. st = "running" /\ st \in States
    BY <1>3 DEF States
  <2> HIDE DEF st
  <2>2. Within(a) /\ a.state = st /\ a.waiting = 0
    BY <1>3, <2>1, StateWithin
  <2> HIDE DEF a
  <2>3. Sound(WaitClear(a)) /\ WaitClear(a).state = "running"
    BY <2>1, <2>2, ClearSound
  <2>4. run'[e] = WaitClear(a)
    BY <1>5, GoesRecord
  <2> QED BY <1>5, <2>3, <2>4, ZenonT(40) DEF Woken
<1>6. CASE r.attempts < profile.retry /\ Goes(e, WaitClear(b)) /\ faults' = faults
  <2>1. r1.attempts < profile.retry
    BY <1>3, <1>6
  <2>2. Sound(WaitClear(b)) /\ WaitClear(b).state = "ready"
    BY <1>3, <2>1, StartsOver
  <2> HIDE DEF b
  <2>3. run'[e] = WaitClear(b)
    BY <1>6, GoesRecord
  <2> QED BY <1>6, <2>2, <2>3, ZenonT(40) DEF Woken
<1> QED BY <1>1, <1>4, <1>5, <1>6

(* The record a job's completion works on is within its bounds.            *)
LEMMA QueuedWithin ==
  ASSUME NEW r, Within(r), NEW q \in Queue, NEW b \in Flag
  PROVE  /\ Within(Applied(r, q, b)) /\ Applied(r, q, b).waiting = r.waiting
         /\ Within([r EXCEPT !.pending = q]) /\ [r EXCEPT !.pending = q].waiting = r.waiting
<1> DEFINE u == Applied(r, q, b)
           v == [r EXCEPT !.pending = q]
<1>1. r \in Rec /\ r.phase \in 1 .. Len(Steps) + 1
  BY DEF Within
<1>2. u \in Rec /\ u.phase = r.phase /\ SameWait(u, r) /\ SameCounts(u, r)
  BY <1>1, AppliedFields
<1>3. v \in Rec /\ v.phase = r.phase /\ SameWait(v, r) /\ SameCounts(v, r)
  BY <1>1, PendingFields
<1> HIDE DEF u, v
<1>4. Within(u) /\ Within(v)
  BY <1>1, <1>2, <1>3, WithinSame
<1>5. u.waiting = r.waiting /\ v.waiting = r.waiting
  BY <1>2, <1>3 DEF SameWait
<1> QED BY <1>4, <1>5 DEF u, v

LEMMA RepairWithin ==
  ASSUME Typed, NEW r, Sound(r), r.state = "waiting_jobs", r.wait = "agent"
  PROVE  /\ Within([r EXCEPT !.phase = r.phase - 1])
         /\ [r EXCEPT !.phase = r.phase - 1].waiting = r.waiting
<1> DEFINE u == [r EXCEPT !.phase = r.phase - 1]
<1>1. Within(r) /\ r.at >= 1 /\ r.phase = r.at + 1
  BY ZenonT(40) DEF Sound
<1>2. r \in Rec /\ r.phase \in 1 .. Len(Steps) + 1 /\ r.at \in 0 .. Len(Steps)
  BY <1>1 DEF Within
<1>3. r.phase - 1 \in 1 .. Len(Steps) + 1 /\ r.phase - 1 \in Number
  BY <1>1, <1>2, Lengths DEF Number
<1>4. u \in Rec /\ u.phase = r.phase - 1 /\ SameWait(u, r) /\ SameCounts(u, r)
  BY <1>2, <1>3, PhaseFields
<1> HIDE DEF u
<1>5. Within(u)
  BY <1>1, <1>3, <1>4, WithinSame
<1>6. u.waiting = r.waiting
  BY <1>4 DEF SameWait
<1> QED BY <1>5, <1>6 DEF u

LEMMA WakeOkWakes ==
  ASSUME Typed, NEW e \in Envs, NEW u, Within(u), u.waiting = 1, NEW j,
         run' = [run EXCEPT ![e] = WakeOk(u, j)], faults' = faults \/ Fault
  PROVE  Woken(e)
<1> DEFINE n == WakeOk(u, j)
<1>1. Sound(n) /\ n.state \in {"running", "ready"}
  BY WakeOkSound
<1>2. run' = [run EXCEPT ![e] = n]
  OBVIOUS
<1> HIDE DEF n
<1>3. run'[e] = n
  BY <1>2, ZenonT(40) DEF Typed
<1>4. n.state # "waiting_jobs"
  BY <1>1
<1> QED BY <1>1, <1>3, <1>4, ZenonT(40) DEF Woken

LEMMA CompleteWakes ==
  ASSUME Typed, NEW e \in Envs, Sound(run[e]), run[e].state = "waiting_jobs", NEW j,
         j.kind = "agent" => run[e].wait = "agent", Complete(e, j)
  PROVE  Woken(e)
<1> DEFINE r == run[e]
<1>1. Within(r) /\ r.waiting = 1 /\ r \in Rec
  BY ZenonT(40) DEF Sound, Within
<1>2. CASE /\ \E q \in Outputs, p \in BOOLEAN :
                run' = [run EXCEPT ![e] = WakeOk([r EXCEPT !.pending = r.pending \o q,
                                                           !.progress = r.progress \/ p], j)]
           /\ faults' = faults
  <2>1. PICK q \in Outputs, p \in BOOLEAN :
           run' = [run EXCEPT ![e] = WakeOk([r EXCEPT !.pending = r.pending \o q,
                                                      !.progress = r.progress \/ p], j)]
    BY <1>2
  <2> DEFINE g == r.pending \o q
             b == r.progress \/ p
             u == Applied(r, g, b)
  <2>2. g \in Queue
    BY <1>1, QueueGrows
  <2>3. b \in Flag
    BY ZenonT(40) DEF Flag
  <2>4. run' = [run EXCEPT ![e] = WakeOk(u, j)]
    BY <2>1 DEF Applied
  <2> HIDE DEF g, b, r
  <2>5. Within(u) /\ u.waiting = 1
    BY <1>1, <2>2, <2>3, QueuedWithin
  <2> HIDE DEF u
  <2> QED BY <1>2, <2>4, <2>5, WakeOkWakes
<1>3. CASE /\ j.kind = "agent" /\ Fault
           /\ run' = [run EXCEPT ![e] = WakeOk([r EXCEPT !.phase = r.phase - 1], j)]
  <2> DEFINE u == [r EXCEPT !.phase = r.phase - 1]
  <2>1. Within(u) /\ u.waiting = 1
    BY <1>1, <1>3, RepairWithin
  <2>2. run' = [run EXCEPT ![e] = WakeOk(u, j)]
    BY <1>3
  <2> HIDE DEF u
  <2> QED BY <1>3, <2>1, <2>2, WakeOkWakes
<1>4. CASE WakeFailed(e, r, j)
  BY <1>4, WakeFailedWakes
<1>5. CASE /\ run' = [run EXCEPT ![e] = WakeOk([r EXCEPT !.pending = Answered(r.pending)], j)]
           /\ faults' = faults
  <2> DEFINE q == Answered(r.pending)
             u == [r EXCEPT !.pending = q]
  <2>1. q \in Queue /\ FALSE \in Flag
    BY <1>1 DEF Rec, Queue, Answered, Flag
  <2> HIDE DEF q
  <2>2. Within(u) /\ u.waiting = 1
    BY <1>1, <2>1, QueuedWithin
  <2>3. run' = [run EXCEPT ![e] = WakeOk(u, j)]
    BY <1>5 DEF q
  <2> HIDE DEF u
  <2> QED BY <1>5, <2>2, <2>3, WakeOkWakes
<1> QED BY <1>2, <1>3, <1>4, <1>5, ZenonT(40) DEF Complete

LEMMA PumpFull ==
  ASSUME Typed, \A e \in Envs : Sound(run[e]), SealInv, PumpJob
  PROVE  \E i \in 1 .. Len(jobs) :
           /\ jobs' = Unlinked(i) /\ jobs[i] \in Job /\ jobs[i].run \in Envs
           /\ \/ /\ ~Matches(jobs[i]) /\ run' = run /\ log' = log /\ faults' = faults
              \/ /\ Matches(jobs[i]) /\ RunStep(jobs[i].run) /\ Woken(jobs[i].run)
<1>1. PICK i \in Finished :
        /\ jobs' = Unlinked(i)
        /\ IF Matches(jobs[i]) THEN Complete(jobs[i].run, jobs[i])
           ELSE UNCHANGED <<run, log, faults>>
  BY ZenonT(40) DEF PumpJob
<1>2. i \in 1 .. Len(jobs) /\ jobs[i] \in Job
  BY DEF Finished, Typed
<1>3. jobs[i].run \in Envs
  BY <1>2 DEF Job
<1>4. CASE Matches(jobs[i])
  <2>1. /\ run[jobs[i].run].state = "waiting_jobs"
        /\ jobs[i].kind = "agent" => run[jobs[i].run].wait = "agent"
    BY <1>4, ZenonT(40) DEF Matches
  <2>2. log[jobs[i].run] # "closed"
    BY <1>3, <2>1, ZenonT(40) DEF SealInv, Terminal
  <2>3. Complete(jobs[i].run, jobs[i])
    BY <1>1, <1>4
  <2>4. RunStep(jobs[i].run)
    BY <1>2, <1>3, <2>2, <2>3, CompleteStep
  <2>5. Woken(jobs[i].run)
    BY <1>3, <2>1, <2>3, CompleteWakes
  <2> QED BY <1>1, <1>2, <1>3, <1>4, <2>4, <2>5
<1>5. CASE ~Matches(jobs[i])
  BY <1>1, <1>2, <1>3, <1>5
<1> QED BY <1>4, <1>5

-----------------------------------------------------------------------------
(* What the other steps do to a run: nothing, a change of a live run that  *)
(* waits for no job, or its end.                                           *)

Plain(x) ==
  /\ Sound(run'[x])
  /\ log'[x] = "open" => log[x] = "open"
  /\ \/ run'[x] = run[x] /\ log'[x] = log[x]
     \/ /\ Active(x) /\ run[x].state # "waiting_jobs"
        /\ run'[x].state \notin {"free", "waiting_jobs"}
     \/ run[x].state # "free" /\ run'[x].state \in Terminal

LEMMA SamePlain ==
  ASSUME NEW x \in Envs, Sound(run[x]), run'[x] = run[x], log'[x] = log[x]
  PROVE  Plain(x)
BY ZenonT(40) DEF Plain

LEMMA CancelPlain ==
  ASSUME Typed, \A x \in Envs : Sound(run[x]), NEW e \in Envs, Cancel(e)
  PROVE  \A x \in Envs : Plain(x)
<1> DEFINE g == [run[e] EXCEPT !.state = "failed"]
<1>1. /\ run' = [run EXCEPT ![e] = g] /\ log' = [log EXCEPT ![e] = "closed"]
      /\ run[e].state # "free"
  BY ZenonT(40) DEF Cancel, Active
<1>2. "failed" \in Terminal
  BY DEF Terminal
<1>3. Sound(g) /\ g.state = "failed"
  BY <1>2, EndsSound DEF Sound
<1> HIDE DEF g
<1>4. run'[e] = g /\ log'[e] = "closed"
  BY <1>1, ZenonT(40) DEF Typed
<1>5. \A x \in Envs : x # e => run'[x] = run[x] /\ log'[x] = log[x]
  BY <1>1, ZenonT(40) DEF Typed
<1>6. Plain(e)
  BY <1>1, <1>2, <1>3, <1>4, ZenonT(40) DEF Plain
<1> QED BY <1>5, <1>6, SamePlain, ZenonT(40)

LEMMA RetryPlain ==
  ASSUME Typed, \A x \in Envs : Sound(run[x]), RetryClaims
  PROVE  \A x \in Envs : Plain(x)
<1> DEFINE W == {e \in Envs : InPool(e) /\ run[e].state = "waiting_event"}
<1>1. PICK fate \in [W -> {"ready", "waiting_event", "failed"}] :
        /\ run' = [e \in Envs |-> IF e \in W
                                   THEN [run[e] EXCEPT !.state = fate[e]] ELSE run[e]]
        /\ log' = [e \in Envs |->
                      IF e \notin W THEN log[e]
                      ELSE CASE fate[e] = "ready"  -> "inbound"
                             [] fate[e] = "failed" -> "closed"
                             [] OTHER              -> log[e]]
  BY ZenonT(40) DEF RetryClaims
<1>2. \A x \in W : run[x].state = "waiting_event"
  OBVIOUS
<1> HIDE DEF W
<1> SUFFICES ASSUME NEW x \in Envs
             PROVE  Plain(x)
  OBVIOUS
<1>3. CASE x \notin W
  <2>1. run'[x] = run[x] /\ log'[x] = log[x]
    BY <1>1, <1>3, ZenonT(40)
  <2> QED BY <2>1, SamePlain
<1>4. CASE x \in W
  <2> DEFINE st == fate[x]
             g == [run[x] EXCEPT !.state = st]
  <2>1. st \in {"ready", "waiting_event", "failed"} /\ run[x].state = "waiting_event"
    BY <1>1, <1>2, <1>4
  <2>2. run'[x] = g
    BY <1>1, <1>4, ZenonT(40)
  <2>3. log'[x] = CASE st = "ready"  -> "inbound"
                    [] st = "failed" -> "closed"
                    [] OTHER         -> log[x]
    BY <1>1, <1>4, ZenonT(40)
  <2> HIDE DEF st
  <2>4. log'[x] = "open" => log[x] = "open"
    BY <2>1, <2>3
  <2>5. st \in States \ {"waiting_jobs"} /\ st # "free" /\ st # "waiting_jobs"
    BY <2>1 DEF States
  <2>6. Active(x) /\ run[x].state # "waiting_jobs"
    BY <2>1 DEF Active, Terminal
  <2>7. run[x].waiting = 0
    BY <2>1 DEF Sound, Terminal
  <2>8. Sound(g) /\ g.state = st
    BY <2>5, <2>7, StateSound
  <2> HIDE DEF g
  <2> QED BY <2>2, <2>4, <2>5, <2>6, <2>8, ZenonT(40) DEF Plain
<1> QED BY <1>3, <1>4

LEMMA WakePlain ==
  ASSUME Typed, \A x \in Envs : Sound(run[x]), WakeSlotWaiters
  PROVE  \A x \in Envs : Plain(x)
<1> SUFFICES ASSUME NEW x \in Envs
             PROVE  Plain(x)
  OBVIOUS
<1> DEFINE s == [run[x] EXCEPT !.state = "ready"]
           g == WaitClear(s)
<1>1. /\ \/ run'[x] = run[x]
         \/ run[x].state = "waiting_slot" /\ run'[x] = g
      /\ log'[x] = log[x]
  BY ZenonT(40) DEF WakeSlotWaiters
<1>2. CASE run'[x] = run[x]
  BY <1>1, <1>2, SamePlain
<1>3. CASE run[x].state = "waiting_slot" /\ run'[x] = g
  <2>1. "ready" \in States \ {"waiting_jobs"}
    BY DEF States
  <2>2. run[x].waiting = 0 /\ Active(x) /\ run[x].state # "waiting_jobs"
    BY <1>3 DEF Sound, Terminal, Active
  <2>3. Sound(s) /\ s.state = "ready" /\ s.waiting = 0
    BY <2>1, <2>2, StateSound
  <2> HIDE DEF s
  <2>4. Within(s) /\ s.state # "waiting_jobs"
    BY <2>3 DEF Sound
  <2>5. Sound(g) /\ g.state = s.state
    BY <2>3, <2>4, ClearSound
  <2> HIDE DEF g
  <2>6. Sound(run'[x]) /\ run'[x].state = "ready"
    BY <1>3, <2>3, <2>5
  <2>7. run'[x].state \notin {"free", "waiting_jobs"}
    BY <2>6
  <2> QED BY <1>1, <2>2, <2>6, <2>7, ZenonT(40) DEF Plain
<1> QED BY <1>1, <1>2, <1>3

LEMMA BlankWithin ==
  ASSUME Typed
  PROVE  Within(Blank)
<1>1. Blank \in Rec
  BY BlankTyped
<1>2. /\ Blank.phase = 1 /\ Blank.at = 0 /\ Blank.advance = 0 /\ Blank.attempts = 0
      /\ Blank.waiting = 0
  BY DEF Blank
<1>3. /\ 1 \in 1 .. Len(Steps) + 1 /\ 0 \in 0 .. Len(Steps) /\ 0 \in 0 .. MaxPasses
      /\ 0 \in 0 .. profile.retry /\ 0 \in 0 .. 1
  BY Lengths
<1> QED BY <1>1, <1>2, <1>3, ZenonT(40) DEF Within

LEMMA RetirePlain ==
  ASSUME Typed, \A x \in Envs : Sound(run[x]), Retire
  PROVE  \A x \in Envs : Plain(x)
<1> SUFFICES ASSUME NEW x \in Envs
             PROVE  Plain(x)
  OBVIOUS
<1> DEFINE st == run[x].state
           g == [Blank EXCEPT !.state = st]
<1>1. /\ \/ run'[x] = run[x]
         \/ st \in Terminal /\ run'[x] = g
      /\ log'[x] = log[x]
  BY ZenonT(40) DEF Retire
<1> HIDE DEF st
<1>2. CASE run'[x] = run[x]
  BY <1>1, <1>2, SamePlain
<1>3. CASE st \in Terminal /\ run'[x] = g
  <2>1. Sound(g) /\ g.state = st
    BY <1>3, BlankWithin, EndsSound
  <2>2. st # "free"
    BY <1>3 DEF Terminal
  <2> HIDE DEF g
  <2> QED BY <1>1, <1>3, <2>1, <2>2, ZenonT(40) DEF Plain, st
<1> QED BY <1>1, <1>2, <1>3

LEMMA EndPlain ==
  ASSUME Typed, \A x \in Envs : Sound(run[x]), ShutdownEnd
  PROVE  \A x \in Envs : Plain(x) /\ ~Active(x)'
<1> SUFFICES ASSUME NEW x \in Envs
             PROVE  Plain(x) /\ ~Active(x)'
  OBVIOUS
<1> DEFINE g == [run[x] EXCEPT !.state = "failed"]
<1>1. \/ ~Active(x) /\ run'[x] = run[x] /\ log'[x] = log[x]
      \/ Active(x) /\ run'[x] = g /\ log'[x] = "closed"
  BY ZenonT(40) DEF ShutdownEnd
<1>2. CASE ~Active(x) /\ run'[x] = run[x] /\ log'[x] = log[x]
  BY <1>2, SamePlain, ZenonT(40) DEF Active
<1>3. CASE Active(x) /\ run'[x] = g /\ log'[x] = "closed"
  <2>1. "failed" \in Terminal
    BY DEF Terminal
  <2>2. Sound(g) /\ g.state = "failed"
    BY <2>1, EndsSound DEF Sound
  <2>3. run[x].state # "free"
    BY <1>3, ZenonT(40) DEF Active
  <2> HIDE DEF g
  <2> QED BY <1>3, <2>1, <2>2, <2>3, ZenonT(40) DEF Plain, Active
<1> QED BY <1>1, <1>2, <1>3

(* The steps that leave runs, records and logs alone.                      *)
Quiet ==
  \/ \E e \in Envs : Publish(e)
  \/ \E i \in DOMAIN jobs : PipeCloses(i) \/ ChildExits(i, "ok") \/ ChildExits(i, "bad")
  \/ JobTick \/ IntakeDone \/ NextRun \/ ShutdownTerm \/ ShutdownWait \/ ShutdownKill
  \/ Stopped \/ UNCHANGED vars

LEMMA TidyCases ==
  Tidy => \/ Quiet \/ Intake \/ (\E e \in Envs : Cancel(e))
          \/ RetryClaims \/ WakeSlotWaiters \/ Retire \/ ShutdownEnd
BY ZenonT(40) DEF Tidy, World, Shutdown, Quiet

LEMMA QuietFrame ==
  ASSUME Quiet
  PROVE  run' = run /\ log' = log /\ runs' = runs /\ heard' = heard /\ refused' = refused
         /\ faults' = faults
BY ZenonT(40) DEF Quiet, Publish, PipeCloses, ChildExits, JobTick, IntakeDone, NextRun,
     ShutdownTerm, ShutdownWait, ShutdownKill, Stopped, vars, engine

LEMMA TidyPlain ==
  ASSUME Typed, \A x \in Envs : Sound(run[x]), Tidy, ~Intake
  PROVE  \A x \in Envs : Plain(x)
<1>1. CASE Quiet
  BY <1>1, QuietFrame, SamePlain, ZenonT(40)
<1>2. CASE \E e \in Envs : Cancel(e)
  BY <1>2, CancelPlain
<1>3. CASE RetryClaims
  BY <1>3, RetryPlain
<1>4. CASE WakeSlotWaiters
  BY <1>4, WakePlain
<1>5. CASE Retire
  BY <1>5, RetirePlain
<1>6. CASE ShutdownEnd
  BY <1>6, EndPlain, ZenonT(40)
<1> QED BY <1>1, <1>2, <1>3, <1>4, <1>5, <1>6, TidyCases, ZenonT(40)

-----------------------------------------------------------------------------
(* The pairing of runs and jobs.                                           *)

(* The envelope at the head of the inbox starts a run, and no other does.  *)
Started(e) ==
  /\ run[e].state = "free"
  /\ Sound(run'[e]) /\ run'[e].state \notin {"free", "waiting_jobs"}
  /\ log'[e] # "open"
  /\ runs' = Append(runs, e)
  /\ \A x \in Envs : x # e => run'[x] = run[x] /\ log'[x] = log[x]

LEMMA AdmittedSound ==
  ASSUME Typed, NEW e \in Envs, NEW st \in {"ready", "waiting_event"}
  PROVE  Sound(Admitted(e, st))
<1> DEFINE a == Admitted(e, st)
           p == IF e \in Exec THEN Len(Steps) + 1 ELSE 1
<1>1. a \in Rec /\ a.state = st
  BY AdmittedTyped
<1>2. /\ a.at = 0 /\ a.advance = 0 /\ a.attempts = 0 /\ a.waiting = 0 /\ a.phase = p
  BY DEF Admitted, Blank
<1>3. /\ 1 \in 1 .. Len(Steps) + 1 /\ Len(Steps) + 1 \in 1 .. Len(Steps) + 1
      /\ 0 \in 0 .. Len(Steps) /\ 0 \in 0 .. MaxPasses
      /\ 0 \in 0 .. profile.retry /\ 0 \in 0 .. 1
  BY Lengths
<1>4. p \in 1 .. Len(Steps) + 1
  BY <1>3, ZenonT(40)
<1>5. a.state # "waiting_jobs"
  BY <1>1
<1> HIDE DEF a, p
<1>6. Within(a)
  BY <1>1, <1>2, <1>3, <1>4, ZenonT(40) DEF Within
<1>7. Sound(a)
  BY <1>2, <1>5, <1>6, ZenonT(40) DEF Sound
<1> QED BY <1>7 DEF a

LEMMA IntakeStarts ==
  ASSUME Typed, SealInv, PoolInv, Intake
  PROVE  \/ run' = run /\ log' = log /\ runs' = runs
         \/ \E e \in Envs : Started(e)
<1> DEFINE e == Head(inbox)
<1>1. /\ inbox # <<>>
      /\ \/ \E st \in {"ready", "waiting_event"} :
              /\ run' = [run EXCEPT ![e] = Admitted(e, st)]
              /\ log' = [log EXCEPT ![e] = "inbound"] \/ log' = log
              /\ runs' = Append(runs, e)
         \/ run' = run /\ log' = log /\ runs' = runs
  BY ZenonT(40) DEF Intake, Admits, ClaimsOnly, Rejects
<1>2. e \in Envs /\ e = inbox[1] /\ 1 \in 1 .. Len(inbox)
  BY <1>1 DEF SealInv
<1> HIDE DEF e
<1>3. run[e].state = "free"
  BY <1>2, ZenonT(40) DEF SealInv
<1>4. log[e] = "none"
  BY <1>2, <1>3, ZenonT(40) DEF PoolInv
<1>5. ASSUME NEW st \in {"ready", "waiting_event"},
             run' = [run EXCEPT ![e] = Admitted(e, st)],
             log' = [log EXCEPT ![e] = "inbound"] \/ log' = log,
             runs' = Append(runs, e)
      PROVE  Started(e)
  <2> DEFINE a == Admitted(e, st)
  <2>1. Sound(a) /\ a.state = st
    BY <1>2, AdmittedSound, AdmittedTyped
  <2>2. run' = [run EXCEPT ![e] = a]
    BY <1>5
  <2> HIDE DEF a
  <2>3. run'[e] = a /\ \A x \in Envs : x # e => run'[x] = run[x]
    BY <1>2, <2>2, ZenonT(40) DEF Typed
  <2>4. log'[e] # "open" /\ \A x \in Envs : x # e => log'[x] = log[x]
    BY <1>2, <1>4, <1>5, ZenonT(40) DEF Typed
  <2>5. st \notin {"free", "waiting_jobs"}
    OBVIOUS
  <2> QED BY <1>3, <1>5, <2>1, <2>3, <2>4, <2>5, ZenonT(40) DEF Started
<1> QED BY <1>1, <1>2, <1>5, ZenonT(40)

(* Active, after the step.                                                 *)
Lives(x) == run'[x].state \notin Terminal \cup {"free"}

(* What the pairing needs of a step that launches and completes nothing.   *)
Steady(x) ==
  \/ run'[x] = run[x]
  \/ Active(x) /\ run[x].state # "waiting_jobs" /\ run'[x].state \notin {"free", "waiting_jobs"}
  \/ run[x].state # "free" /\ run'[x].state \in Terminal
  \/ run[x].state = "free" /\ run'[x].state \notin {"free", "waiting_jobs"}

LEMMA PlainSteady ==
  ASSUME NEW x \in Envs, Plain(x)
  PROVE  Steady(x)
BY ZenonT(40) DEF Plain, Steady

LEMMA StartedSteady ==
  ASSUME NEW e \in Envs, Started(e)
  PROVE  \A x \in Envs : Steady(x)
BY ZenonT(40) DEF Started, Steady

LEMMA SteadyPairs ==
  ASSUME Typed, PairInv, InPlace, \A x \in Envs : Steady(x)
  PROVE  PairInv'
<1>0. "free" \notin Terminal /\ "waiting_jobs" \notin Terminal
  BY DEF Terminal
<1>1. \A i \in DOMAIN jobs : jobs[i] \in Job
  BY DEF Typed
<1>2. \A i \in DOMAIN jobs :
        /\ jobs[i].run \in Envs /\ jobs'[i].run = jobs[i].run
        /\ jobs'[i].kind = jobs[i].kind /\ jobs'[i].step = jobs[i].step
  BY <1>1, ZenonT(40) DEF Job, InPlace, Later
<1>3. DOMAIN jobs' = DOMAIN jobs
  BY DEF InPlace
<1>4. ASSUME NEW i \in DOMAIN jobs
      PROVE  /\ run'[jobs[i].run].state # "free"
             /\ Lives(jobs[i].run) => Active(jobs[i].run) /\ run'[jobs[i].run] = run[jobs[i].run]
  <2> DEFINE x == jobs[i].run
  <2>1. x \in Envs /\ Steady(x)
    BY <1>2, ZenonT(40)
  <2>2. run[x].state # "free" /\ (Active(x) => run[x].state = "waiting_jobs")
    BY ZenonT(40) DEF PairInv, Paired
  <2> HIDE DEF x
  <2>3. run'[x].state # "free"
    BY <1>0, <2>1, <2>2, ZenonT(40) DEF Steady
  <2>4. Lives(x) => run'[x] = run[x]
    BY <2>1, <2>2, ZenonT(40) DEF Steady, Active, Lives
  <2>5. run'[x] = run[x] /\ Lives(x) => Active(x)
    BY ZenonT(40) DEF Active, Lives
  <2> QED BY <2>3, <2>4, <2>5, ZenonT(40) DEF x
<1>5. ASSUME NEW i \in DOMAIN jobs
      PROVE  Paired(i)'
  <2>1. Paired(i)
    BY ZenonT(40) DEF PairInv
  <2>2. /\ jobs'[i].run = jobs[i].run /\ jobs'[i].kind = jobs[i].kind
        /\ jobs'[i].step = jobs[i].step
    BY <1>2, ZenonT(40)
  <2>3. Active(jobs[i].run)' => Lives(jobs'[i].run)
    BY ZenonT(40) DEF Active, Lives
  <2> QED BY <1>4, <2>1, <2>2, <2>3, ZenonT(40) DEF Paired
<1>6. ASSUME NEW i \in DOMAIN jobs, NEW k \in DOMAIN jobs,
             jobs'[i].run = jobs'[k].run, Lives(jobs'[i].run)
      PROVE  i = k
  <2>1. jobs'[i].run = jobs[i].run /\ jobs'[k].run = jobs[k].run
    BY <1>2, ZenonT(40)
  <2>2. Lives(jobs[i].run)
    BY <1>6, <2>1, ZenonT(40)
  <2>3. Active(jobs[i].run)
    BY <1>4, <2>2, ZenonT(40)
  <2> QED BY <1>6, <2>1, <2>3, ZenonT(40) DEF PairInv
<1>7. ASSUME NEW e \in Envs, run'[e].state = "waiting_jobs"
      PROVE  \E i \in DOMAIN jobs : jobs'[i].run = e
  <2>1. run'[e] = run[e]
    BY <1>0, <1>7, ZenonT(40) DEF Steady
  <2> QED BY <1>2, <1>7, <2>1, ZenonT(40) DEF PairInv
<1>8. \A i \in DOMAIN jobs : Active(jobs[i].run)' => Lives(jobs'[i].run)
  BY ZenonT(40) DEF Active, Lives
<1> QED BY <1>3, <1>5, <1>6, <1>7, <1>8, ZenonT(40) DEF PairInv

(* The pairing after a step, job by job.                                   *)
Fits(j) ==
  /\ run'[j.run].state # "free"
  /\ Lives(j.run) => /\ run'[j.run].state = "waiting_jobs" /\ run'[j.run].wait = j.kind
                     /\ j.kind = "agent" => run'[j.run].at = j.step

LEMMA FitsPair ==
  ASSUME \A k \in DOMAIN jobs' : Fits(jobs'[k]),
         \A k, m \in DOMAIN jobs' :
           jobs'[k].run = jobs'[m].run /\ Lives(jobs'[k].run) => k = m,
         \A x \in Envs : run'[x].state = "waiting_jobs" =>
                           \E k \in DOMAIN jobs' : jobs'[k].run = x
  PROVE  PairInv'
<1>1. \A i \in DOMAIN jobs' : Active(jobs[i].run)' => Lives(jobs'[i].run)
  BY ZenonT(40) DEF Active, Lives
<1>2. ASSUME NEW i \in DOMAIN jobs'
      PROVE  Paired(i)'
  BY <1>1, ZenonT(40) DEF Paired, Fits
<1> QED BY <1>1, <1>2, ZenonT(40) DEF PairInv

(* A job whose run the step leaves alone.                                  *)
LEMMA OthersFit ==
  ASSUME PairInv, NEW i \in DOMAIN jobs, run'[jobs[i].run] = run[jobs[i].run]
  PROVE  Fits(jobs[i]) /\ (Lives(jobs[i].run) => Active(jobs[i].run))
<1>1. Paired(i)
  BY ZenonT(40) DEF PairInv
<1> QED BY <1>1, ZenonT(40) DEF Paired, Fits, Lives, Active

LEMMA WalkerHasNone ==
  ASSUME PairInv, NEW e \in Envs, run[e].state \in {"ready", "running"}
  PROVE  Active(e) /\ \A i \in DOMAIN jobs : jobs[i].run # e
<1>1. Active(e) /\ run[e].state # "waiting_jobs"
  BY DEF Active, Terminal
<1> QED BY <1>1, ZenonT(40) DEF PairInv, Paired

LEMMA LaunchPairs ==
  ASSUME Typed, PairInv, NEW e \in Envs, run[e].state \in {"ready", "running"},
         RunStep(e), Launched(e)
  PROVE  PairInv'
<1>1. PICK k \in {"agent", "action"}, p \in Number :
        /\ jobs' = <<NewJob(k, e, p)>> \o jobs
        /\ run'[e].state = "waiting_jobs" /\ run'[e].wait = k
        /\ k = "agent" => run'[e].at = p
  BY ZenonT(40) DEF Launched
<1> DEFINE j == NewJob(k, e, p)
<1>2. j \in Job /\ j.kind = k /\ j.run = e /\ j.step = p
  BY NewJobTyped DEF NewJob
<1>3. jobs' = <<j>> \o jobs
  BY <1>1
<1> HIDE DEF j
<1>4. /\ jobs' \in Seq(Job) /\ Len(jobs') = Len(jobs) + 1 /\ jobs'[1] = j
      /\ \A m \in 2 .. Len(jobs) + 1 : jobs'[m] = jobs[m - 1]
  BY <1>2, <1>3, PrependKeeps DEF Typed
<1>5. DOMAIN jobs = 1 .. Len(jobs) /\ Len(jobs) \in Nat /\ DOMAIN jobs' = 1 .. Len(jobs) + 1
  BY <1>4 DEF Typed
<1>6. /\ 1 \in DOMAIN jobs'
      /\ \A m \in DOMAIN jobs' : m = 1 \/ (m - 1 \in DOMAIN jobs /\ jobs'[m] = jobs[m - 1])
  BY <1>4, <1>5
<1>7. \A m, n \in DOMAIN jobs' : m - 1 = n - 1 => m = n
  BY <1>5
<1>8. \A i \in DOMAIN jobs : i + 1 \in DOMAIN jobs' /\ jobs'[i + 1] = jobs[i]
  BY <1>4, <1>5
<1>9. /\ \A i \in DOMAIN jobs : jobs[i].run # e /\ jobs[i].run \in Envs
      /\ \A x \in Envs : x # e => run'[x] = run[x]
  <2>1. \A i \in DOMAIN jobs : jobs[i] \in Job
    BY DEF Typed
  <2> QED BY <2>1, WalkerHasNone, ZenonT(40) DEF Job, RunStep
<1>10. \A i \in DOMAIN jobs : Fits(jobs[i]) /\ (Lives(jobs[i].run) => Active(jobs[i].run))
  BY <1>9, OthersFit, ZenonT(40)
<1>11. Fits(j)
  BY <1>1, <1>2, ZenonT(40) DEF Fits
<1>12. \A m \in DOMAIN jobs' : Fits(jobs'[m])
  BY <1>4, <1>6, <1>10, <1>11, ZenonT(40)
<1>13. ASSUME NEW m \in DOMAIN jobs', NEW n \in DOMAIN jobs',
              jobs'[m].run = jobs'[n].run, Lives(jobs'[m].run)
       PROVE  m = n
  <2>1. CASE m = 1 \/ n = 1
    BY <1>2, <1>4, <1>6, <1>9, <1>13, <2>1, ZenonT(40)
  <2>2. CASE m # 1 /\ n # 1
    <3>1. /\ m - 1 \in DOMAIN jobs /\ n - 1 \in DOMAIN jobs
          /\ jobs[m - 1].run = jobs[n - 1].run /\ Active(jobs[m - 1].run)
      BY <1>6, <1>10, <1>13, <2>2, ZenonT(40)
    <3>2. m - 1 = n - 1
      BY <3>1, ZenonT(40) DEF PairInv
    <3> QED BY <1>7, <3>2, ZenonT(40)
  <2> QED BY <2>1, <2>2, ZenonT(40)
<1>14. ASSUME NEW x \in Envs, run'[x].state = "waiting_jobs"
       PROVE  \E m \in DOMAIN jobs' : jobs'[m].run = x
  <2>1. CASE x = e
    BY <1>2, <1>4, <1>6, <2>1, ZenonT(40)
  <2>2. CASE x # e
    <3>1. PICK i \in DOMAIN jobs : jobs[i].run = x
      BY <1>9, <1>14, <2>2, ZenonT(40) DEF PairInv
    <3> QED BY <1>8, <3>1, ZenonT(40)
  <2> QED BY <2>1, <2>2
<1> QED BY <1>12, <1>13, <1>14, FitsPair, ZenonT(40)

LEMMA StepPairs ==
  ASSUME Typed, PairInv, NEW e \in Envs, run[e].state \in {"ready", "running"},
         RunStep(e), Effect(e)
  PROVE  PairInv'
<1>1. CASE jobs' = jobs /\ run'[e].state # "waiting_jobs"
  <2>1. InPlace
    BY <1>1, ZenonT(40) DEF InPlace, Later, Typed
  <2>2. Active(e) /\ run[e].state # "waiting_jobs"
    BY DEF Active, Terminal
  <2>3. \A x \in Envs : Steady(x)
    BY <1>1, <2>2, ZenonT(40) DEF Steady, RunStep
  <2> QED BY <2>1, <2>3, SteadyPairs
<1>2. CASE Launched(e)
  BY <1>2, LaunchPairs
<1> QED BY <1>1, <1>2 DEF Effect

(* The job list without one job.                                           *)
LEMMA UnlinkedMap ==
  ASSUME Typed, NEW i \in 1 .. Len(jobs), jobs' = Unlinked(i)
  PROVE  \E at : /\ \A k \in DOMAIN jobs' : /\ at[k] \in DOMAIN jobs /\ at[k] # i
                                            /\ jobs'[k] = jobs[at[k]]
                 /\ \A k, m \in DOMAIN jobs' : at[k] = at[m] => k = m
                 /\ \A m \in DOMAIN jobs : m # i => \E k \in DOMAIN jobs' : jobs'[k] = jobs[m]
<1>0. DOMAIN jobs = 1 .. Len(jobs) /\ Len(jobs) \in Nat
  BY DEF Typed
<1>1. /\ jobs' \in Seq(Job) /\ Len(jobs') = Len(jobs) - 1
      /\ \A k \in 1 .. Len(jobs) - 1 : jobs'[k] = jobs[IF k < i THEN k ELSE k + 1]
  BY UnlinkedKeeps, ZenonT(40)
<1>2. DOMAIN jobs' = 1 .. Len(jobs) - 1
  BY <1>1
<1> DEFINE at == [k \in 1 .. Len(jobs) - 1 |-> IF k < i THEN k ELSE k + 1]
<1>3. \A k \in DOMAIN jobs' : jobs'[k] = jobs[at[k]]
  BY <1>1, <1>2, ZenonT(40)
<1>4. \A k \in DOMAIN jobs' : at[k] \in DOMAIN jobs /\ at[k] # i
  BY <1>0, <1>2
<1>5. \A k, m \in DOMAIN jobs' : at[k] = at[m] => k = m
  BY <1>0, <1>2
<1>6. ASSUME NEW m \in DOMAIN jobs, m # i
      PROVE  \E k \in DOMAIN jobs' : jobs'[k] = jobs[m]
  <2>1. CASE m < i
    <3>1. m \in DOMAIN jobs' /\ at[m] = m
      BY <1>0, <1>2, <2>1
    <3> QED BY <1>3, <3>1
  <2>2. CASE m > i
    <3>1. m - 1 \in DOMAIN jobs' /\ at[m - 1] = m
      BY <1>0, <1>2, <2>2
    <3> QED BY <1>3, <3>1
  <2> QED BY <1>0, <1>6, <2>1, <2>2
<1> HIDE DEF at
<1> QED BY <1>3, <1>4, <1>5, <1>6, ZenonT(40)

(* A live run's job finds it.                                              *)
LEMMA PairMatches ==
  ASSUME Typed, PairInv, PoolInv, NEW i \in DOMAIN jobs, Active(jobs[i].run)
  PROVE  Matches(jobs[i])
<1>1. jobs[i] \in Job
  BY DEF Typed
<1>2. jobs[i].run \in Envs /\ jobs[i].kind \in {"agent", "action"}
  BY <1>1, ZenonT(40) DEF Job
<1>3. Paired(i)
  BY ZenonT(40) DEF PairInv
<1>4. DOMAIN runs = 1 .. Len(runs)
  BY DEF PoolInv
<1>5. InPool(jobs[i].run)
  BY <1>2, <1>4, ZenonT(40) DEF PoolInv, InPool
<1> QED BY <1>2, <1>3, <1>5, ZenonT(40) DEF Paired, Matches

LEMMA PumpPairs ==
  ASSUME Typed, PairInv, PoolInv, NEW i \in 1 .. Len(jobs), jobs' = Unlinked(i),
         jobs[i].run \in Envs,
         \/ ~Matches(jobs[i]) /\ run' = run
         \/ Matches(jobs[i]) /\ RunStep(jobs[i].run) /\ Woken(jobs[i].run)
  PROVE  PairInv'
<1>0. i \in DOMAIN jobs /\ \A m \in DOMAIN jobs : jobs[m] \in Job
  BY DEF Typed
<1>1. PICK at : /\ \A k \in DOMAIN jobs' : /\ at[k] \in DOMAIN jobs /\ at[k] # i
                                           /\ jobs'[k] = jobs[at[k]]
                /\ \A k, m \in DOMAIN jobs' : at[k] = at[m] => k = m
                /\ \A m \in DOMAIN jobs : m # i => \E k \in DOMAIN jobs' : jobs'[k] = jobs[m]
  BY UnlinkedMap
<1>2. \A m \in DOMAIN jobs : jobs[m].run \in Envs
  BY <1>0, ZenonT(40) DEF Job
<1>3. \A m \in DOMAIN jobs : m # i => run'[jobs[m].run] = run[jobs[m].run]
  <2>1. CASE run' = run
    BY <2>1
  <2>2. CASE Matches(jobs[i]) /\ RunStep(jobs[i].run)
    <3>1. run[jobs[i].run].state = "waiting_jobs"
      BY <2>2, ZenonT(40) DEF Matches
    <3>2. Active(jobs[i].run)
      BY <3>1 DEF Active, Terminal
    <3>3. \A m \in DOMAIN jobs : m # i => jobs[m].run # jobs[i].run
      BY <1>0, <3>2, ZenonT(40) DEF PairInv
    <3> QED BY <1>2, <2>2, <3>3, ZenonT(40) DEF RunStep
  <2> QED BY <2>1, <2>2
<1>4. \A m \in DOMAIN jobs : m # i => Fits(jobs[m]) /\ (Lives(jobs[m].run) => Active(jobs[m].run))
  BY <1>3, OthersFit, ZenonT(40)
<1>5. \A k \in DOMAIN jobs' : Fits(jobs'[k])
  BY <1>1, <1>4, ZenonT(40)
<1>6. ASSUME NEW k \in DOMAIN jobs', NEW m \in DOMAIN jobs',
             jobs'[k].run = jobs'[m].run, Lives(jobs'[k].run)
      PROVE  k = m
  <2>1. /\ at[k] \in DOMAIN jobs /\ at[m] \in DOMAIN jobs
        /\ jobs[at[k]].run = jobs[at[m]].run /\ Active(jobs[at[k]].run)
    BY <1>1, <1>4, <1>6, ZenonT(40)
  <2>2. at[k] = at[m]
    BY <2>1, ZenonT(40) DEF PairInv
  <2> QED BY <1>1, <2>2, ZenonT(40)
<1>7. ASSUME NEW x \in Envs, run'[x].state = "waiting_jobs"
      PROVE  \E k \in DOMAIN jobs' : jobs'[k].run = x
  <2>1. run[x].state = "waiting_jobs"
        /\ (x = jobs[i].run => ~Matches(jobs[i]))
    BY <1>7, ZenonT(40) DEF RunStep, Woken
  <2>2. Active(x)
    BY <2>1 DEF Active, Terminal
  <2>3. PICK m \in DOMAIN jobs : jobs[m].run = x
    BY <2>1, ZenonT(40) DEF PairInv
  <2>4. m # i
    BY <1>0, <2>1, <2>2, <2>3, PairMatches, ZenonT(40)
  <2> QED BY <1>1, <2>3, <2>4, ZenonT(40)
<1> QED BY <1>5, <1>6, <1>7, FitsPair, ZenonT(40)

-----------------------------------------------------------------------------
(* The pool.                                                               *)

(* The slots that remain keep their order, and no live run loses its slot. *)
Shrinks ==
  /\ runs' \in Seq(Envs) /\ Len(runs') <= Len(runs)
  /\ \E f : /\ \A k \in 1 .. Len(runs') : f[k] \in 1 .. Len(runs) /\ runs'[k] = runs[f[k]]
            /\ \A i, k \in 1 .. Len(runs') : i < k => f[i] < f[k]
  /\ \A i \in 1 .. Len(runs) : Lives(runs[i]) => \E k \in 1 .. Len(runs') : runs'[k] = runs[i]

LEMMA SameShrinks ==
  ASSUME PoolInv, runs' = runs
  PROVE  Shrinks
<1> DEFINE f == [k \in 1 .. Len(runs) |-> k]
<1>1. \A k \in 1 .. Len(runs') : f[k] = k
  OBVIOUS
<1>2. Len(runs) <= Len(runs)
  BY DEF PoolInv
<1> HIDE DEF f
<1>3. /\ \A k \in 1 .. Len(runs') : f[k] \in 1 .. Len(runs) /\ runs'[k] = runs[f[k]]
      /\ \A i, k \in 1 .. Len(runs') : i < k => f[i] < f[k]
  BY <1>1, ZenonT(40)
<1> QED BY <1>2, <1>3, ZenonT(40) DEF Shrinks, PoolInv

LEMMA RetireShrinks ==
  ASSUME Typed, PoolInv, Retire
  PROVE  Shrinks
<1> DEFINE over == {e \in Envs : InPool(e) /\ run[e].state \in Terminal}
<1>1. Compact(over)
  BY ZenonT(40) DEF Retire
<1>2. \A x \in over : ~Lives(x)
  <2>1. ASSUME NEW x \in over
        PROVE  run'[x] = [Blank EXCEPT !.state = run[x].state] /\ run[x].state \in Terminal
    BY ZenonT(40) DEF Retire
  <2>2. ASSUME NEW st \in Terminal
        PROVE  [Blank EXCEPT !.state = st].state = st
    BY DEF Blank
  <2> QED BY <2>1, <2>2, ZenonT(40) DEF Lives
<1> HIDE DEF over
<1>3. PICK n \in 0 .. Len(runs) : \E kept \in [1 .. n -> DOMAIN runs] :
        /\ \A i, k \in 1 .. n : i < k => kept[i] < kept[k]
        /\ \A i \in DOMAIN runs : runs[i] \in over \/ \E k \in 1 .. n : kept[k] = i
        /\ runs' = [k \in 1 .. n |-> runs[kept[k]]]
  BY <1>1, ZenonT(40) DEF Compact
<1>4. PICK kept \in [1 .. n -> DOMAIN runs] :
        /\ \A i, k \in 1 .. n : i < k => kept[i] < kept[k]
        /\ \A i \in DOMAIN runs : runs[i] \in over \/ \E k \in 1 .. n : kept[k] = i
        /\ runs' = [k \in 1 .. n |-> runs[kept[k]]]
  BY <1>3, ZenonT(40)
<1>5. DOMAIN runs = 1 .. Len(runs) /\ (\A i \in 1 .. Len(runs) : runs[i] \in Envs) /\ n \in Nat
      /\ n <= Len(runs)
  BY DEF PoolInv
<1>6. \A k \in 1 .. n : kept[k] \in 1 .. Len(runs) /\ runs'[k] = runs[kept[k]]
  BY <1>4, <1>5, ZenonT(40)
<1>7. runs' \in [1 .. n -> Envs]
  BY <1>4, <1>5, <1>6, ZenonT(40)
<1>8. runs' \in Seq(Envs) /\ Len(runs') = n
  BY <1>5, <1>7
<1>9. ASSUME NEW i \in 1 .. Len(runs), Lives(runs[i])
      PROVE  \E k \in 1 .. n : runs'[k] = runs[i]
  BY <1>2, <1>4, <1>5, <1>6, <1>9, ZenonT(40)
<1>10. 1 .. Len(runs') = 1 .. n /\ Len(runs') <= Len(runs)
  BY <1>5, <1>8
<1> QED BY <1>4, <1>6, <1>8, <1>9, <1>10, ZenonT(40) DEF Shrinks

LEMMA EndShrinks ==
  ASSUME Typed, PoolInv, \A x \in Envs : Sound(run[x]), ShutdownEnd
  PROVE  Shrinks
<1>1. runs' = <<>>
  BY ZenonT(40) DEF ShutdownEnd
<1>2. /\ runs' \in Seq(Envs) /\ Len(runs') <= Len(runs) /\ 1 .. Len(runs') = {}
      /\ \A i \in 1 .. Len(runs) : runs[i] \in Envs
  BY <1>1 DEF PoolInv
<1>3. \A x \in Envs : ~Lives(x)
  BY EndPlain, ZenonT(40) DEF Lives, Active
<1> QED BY <1>2, <1>3, ZenonT(40) DEF Shrinks

LEMMA TidyShrinks ==
  ASSUME Typed, PoolInv, \A x \in Envs : Sound(run[x]), Tidy, ~Intake
  PROVE  Shrinks
<1>1. CASE Quiet
  BY <1>1, QuietFrame, SameShrinks, ZenonT(40)
<1>2. CASE (\E e \in Envs : Cancel(e)) \/ RetryClaims \/ WakeSlotWaiters
  <2>1. runs' = runs
    BY <1>2, ZenonT(40) DEF Cancel, RetryClaims, WakeSlotWaiters
  <2> QED BY <2>1, SameShrinks
<1> QED BY <1>1, <1>2, RetireShrinks, EndShrinks, TidyCases, ZenonT(40)

(* No run comes to life, and none becomes free.                            *)
Ages(x) ==
  /\ Lives(x) => Active(x)
  /\ run'[x].state = "free" => run[x].state = "free" /\ log'[x] = log[x]

LEMMA PlainAges ==
  ASSUME NEW x \in Envs, Plain(x)
  PROVE  Ages(x)
<1>1. "free" \notin Terminal
  BY DEF Terminal
<1> QED BY <1>1, ZenonT(40) DEF Plain, Ages, Lives, Active

LEMMA StepAges ==
  ASSUME NEW e \in Envs, Active(e), RunStep(e)
  PROVE  \A x \in Envs : Ages(x)
BY ZenonT(40) DEF RunStep, Ages, Lives, Active

LEMMA PoolKeeps ==
  ASSUME PoolInv, Shrinks, \A x \in Envs : Ages(x)
  PROVE  PoolInv'
<1>1. PICK f : /\ \A k \in 1 .. Len(runs') : f[k] \in 1 .. Len(runs) /\ runs'[k] = runs[f[k]]
               /\ \A i, k \in 1 .. Len(runs') : i < k => f[i] < f[k]
  BY ZenonT(40) DEF Shrinks
<1>2. /\ \A i \in 1 .. Len(runs) : runs[i] \in Envs /\ i \in Int
      /\ \A i \in 1 .. Len(runs') : runs'[i] \in Envs /\ i \in Int
  BY DEF PoolInv, Shrinks
<1>3. Len(runs') <= MaxActive
  BY EngineAssumption DEF PoolInv, Shrinks
<1>4. ASSUME NEW i \in 1 .. Len(runs'), NEW k \in 1 .. Len(runs'), runs'[i] = runs'[k]
      PROVE  i = k
  <2>1. f[i] = f[k]
    <3>1. f[i] \in 1 .. Len(runs) /\ f[k] \in 1 .. Len(runs)
      BY <1>1, ZenonT(40)
    <3>2. runs'[i] = runs[f[i]] /\ runs'[k] = runs[f[k]]
      BY <1>1, ZenonT(40)
    <3>3. runs[f[i]] = runs[f[k]]
      BY <1>4, <3>2
    <3>4. \A m, n \in 1 .. Len(runs) : runs[m] = runs[n] => m = n
      BY DEF PoolInv
    <3> QED BY <3>1, <3>3, <3>4, ZenonT(40)
  <2>2. f[i] \in Int /\ f[k] \in Int
    BY <1>1
  <2>3. ~(f[i] < f[k]) /\ ~(f[k] < f[i])
    BY <2>1, <2>2
  <2>4. ~(i < k) /\ ~(k < i)
    BY <1>1, <2>3, ZenonT(40)
  <2> QED BY <2>4
<1>5. ASSUME NEW i \in 1 .. Len(runs')
      PROVE  run'[runs'[i]].state # "free"
  <2> DEFINE x == runs[f[i]]
  <2>1. f[i] \in 1 .. Len(runs) /\ runs'[i] = x
    BY <1>1, ZenonT(40)
  <2>2. x \in Envs /\ run[x].state # "free"
    BY <1>2, <2>1, ZenonT(40) DEF PoolInv
  <2> HIDE DEF x
  <2>3. run'[x].state # "free"
    BY <2>2, ZenonT(40) DEF Ages
  <2> QED BY <2>1, <2>3
<1>6. ASSUME NEW e \in Envs, Lives(e)
      PROVE  \E i \in 1 .. Len(runs') : runs'[i] = e
  <2>1. PICK i \in 1 .. Len(runs) : runs[i] = e
    BY <1>6, ZenonT(40) DEF PoolInv, Ages
  <2> QED BY <1>6, <2>1, ZenonT(40) DEF Shrinks
<1>7. \A e \in Envs : run'[e].state = "free" => log'[e] = "none"
  BY ZenonT(40) DEF PoolInv, Ages
<1>8. \A e \in Envs : Active(e)' => Lives(e)
  BY ZenonT(40) DEF Active, Lives
<1>9. runs' \in Seq(Envs)
  BY DEF Shrinks
<1> QED BY <1>3, <1>4, <1>5, <1>6, <1>7, <1>8, <1>9, ZenonT(40) DEF PoolInv

(* The slots after an intake.                                              *)
LEMMA AppendedSlots ==
  ASSUME PoolInv, NEW e \in Envs, runs' = Append(runs, e)
  PROVE  /\ runs' \in Seq(Envs) /\ Len(runs') = Len(runs) + 1
         /\ Len(runs) \in Nat /\ Len(runs) + 1 \in 1 .. Len(runs')
         /\ runs'[Len(runs) + 1] = e
         /\ \A i \in 1 .. Len(runs) : i \in 1 .. Len(runs') /\ runs'[i] = runs[i]
         /\ \A i \in 1 .. Len(runs') : i \in 1 .. Len(runs) \/ i = Len(runs) + 1
         /\ \A i \in 1 .. Len(runs') : ~(Len(runs) + 1 < i)
         /\ \A i \in 1 .. Len(runs) : runs[i] \in Envs
<1>1. runs \in Seq(Envs)
  BY DEF PoolInv
<1> QED BY <1>1

LEMMA PoolStarts ==
  ASSUME PoolInv, NEW e \in Envs, Started(e), Len(runs) < MaxActive
  PROVE  PoolInv'
<1>0. runs' = Append(runs, e)
  BY DEF Started
<1>1. /\ runs' \in Seq(Envs) /\ Len(runs') = Len(runs) + 1
      /\ Len(runs) \in Nat /\ Len(runs) + 1 \in 1 .. Len(runs')
      /\ runs'[Len(runs) + 1] = e
      /\ \A i \in 1 .. Len(runs) : i \in 1 .. Len(runs') /\ runs'[i] = runs[i]
      /\ \A i \in 1 .. Len(runs') : i \in 1 .. Len(runs) \/ i = Len(runs) + 1
      /\ \A i \in 1 .. Len(runs) : runs[i] \in Envs
  BY <1>0, AppendedSlots
<1>2. Len(runs') <= MaxActive
  BY <1>1, EngineAssumption
<1>3. \A i \in 1 .. Len(runs) : runs[i] # e
  BY ZenonT(40) DEF PoolInv, Started
<1>4. ASSUME NEW i \in 1 .. Len(runs'), NEW k \in 1 .. Len(runs'), runs'[i] = runs'[k]
      PROVE  i = k
  <2>1. CASE i = Len(runs) + 1 \/ k = Len(runs) + 1
    BY <1>1, <1>3, <1>4, <2>1
  <2>2. CASE i \in 1 .. Len(runs) /\ k \in 1 .. Len(runs)
    <3>1. runs[i] = runs[k]
      BY <1>1, <1>4, <2>2
    <3> QED BY <2>2, <3>1, ZenonT(40) DEF PoolInv
  <2> QED BY <1>1, <2>1, <2>2
<1>5. \A i \in 1 .. Len(runs') : run'[runs'[i]].state # "free"
  <2>1. run'[e].state # "free"
    BY ZenonT(40) DEF Started
  <2>2. ASSUME NEW i \in 1 .. Len(runs)
        PROVE  run'[runs[i]].state # "free"
    <3>1. runs[i] \in Envs /\ runs[i] # e /\ run[runs[i]].state # "free"
      BY <1>1, <1>3, ZenonT(40) DEF PoolInv
    <3>2. run'[runs[i]] = run[runs[i]]
      BY <3>1, ZenonT(40) DEF Started
    <3> QED BY <3>1, <3>2
  <2>3. ASSUME NEW i \in 1 .. Len(runs')
        PROVE  run'[runs'[i]].state # "free"
    <3>1. CASE i \in 1 .. Len(runs)
      <4>1. runs'[i] = runs[i]
        BY <1>1, <3>1
      <4> QED BY <2>2, <3>1, <4>1
    <3>2. CASE i = Len(runs) + 1
      BY <1>1, <2>1, <3>2
    <3> QED BY <1>1, <3>1, <3>2
  <2> QED BY <2>3
<1>6. ASSUME NEW x \in Envs, Lives(x)
      PROVE  \E i \in 1 .. Len(runs') : runs'[i] = x
  <2>1. CASE x = e
    BY <1>1, <2>1
  <2>2. CASE x # e
    <3>1. Active(x)
      BY <1>6, <2>2, ZenonT(40) DEF Lives, Active, Started
    <3> QED BY <1>1, <3>1, ZenonT(40) DEF PoolInv
  <2> QED BY <2>1, <2>2
<1>7. \A x \in Envs : run'[x].state = "free" => log'[x] = "none"
  BY ZenonT(40) DEF PoolInv, Started
<1>8. \A x \in Envs : Active(x)' => Lives(x)
  BY ZenonT(40) DEF Active, Lives
<1> QED BY <1>1, <1>2, <1>4, <1>5, <1>6, <1>7, <1>8, ZenonT(40) DEF PoolInv

-----------------------------------------------------------------------------
(* The order of the runs of a context.                                     *)

(* A run that has begun, before and after a step.                          *)
Opened(x) == log[x] = "open" \/ \E n \in DOMAIN jobs : jobs[n].run = x
Opens(x) == log'[x] = "open" \/ \E n \in DOMAIN jobs' : jobs'[n].run = x

(* An older run of the context is live.                                    *)
Behind(x) ==
  /\ profile.serialize
  /\ \E i, k \in 1 .. Len(runs) :
       i < k /\ runs[k] = x /\ Ctx[runs[i]] = Ctx[x] /\ Active(runs[i])

LEMMA BehindWaits ==
  ASSUME PoolInv, ContextOrder, NEW x, Behind(x)
  PROVE  ~Opened(x)
<1>1. DOMAIN runs = 1 .. Len(runs)
  BY DEF PoolInv
<1> QED BY <1>1, ZenonT(40) DEF Behind, ContextOrder, Opened

LEMMA OrderAfter ==
  ASSUME runs' \in Seq(Envs), profile' = profile,
         profile.serialize =>
           \A i, k \in 1 .. Len(runs') :
             (i < k /\ Ctx[runs'[i]] = Ctx[runs'[k]] /\ Lives(runs'[i])) => ~Opens(runs'[k])
  PROVE  ContextOrder'
<1>1. DOMAIN runs' = 1 .. Len(runs')
  OBVIOUS
<1>2. \A i \in 1 .. Len(runs') : Active(runs[i])' => Lives(runs'[i])
  BY ZenonT(40) DEF Active, Lives
<1> QED BY <1>1, <1>2, ZenonT(40) DEF ContextOrder, Opens

LEMMA OrderKeeps ==
  ASSUME PoolInv, ContextOrder, profile' = profile, Shrinks, \A x \in Envs : Ages(x),
         \A x \in Envs : Opens(x) => Opened(x) \/ ~Behind(x)
  PROVE  ContextOrder'
<1>1. PICK f : /\ \A k \in 1 .. Len(runs') : f[k] \in 1 .. Len(runs) /\ runs'[k] = runs[f[k]]
               /\ \A i, k \in 1 .. Len(runs') : i < k => f[i] < f[k]
  BY ZenonT(40) DEF Shrinks
<1>2. \A i \in 1 .. Len(runs) : runs[i] \in Envs
  BY DEF PoolInv
<1>3. ASSUME profile.serialize, NEW i \in 1 .. Len(runs'), NEW k \in 1 .. Len(runs'),
             i < k, Ctx[runs'[i]] = Ctx[runs'[k]], Lives(runs'[i])
      PROVE  ~Opens(runs'[k])
  <2> DEFINE a == f[i]
             b == f[k]
  <2>1. /\ a \in 1 .. Len(runs) /\ b \in 1 .. Len(runs) /\ a < b
        /\ runs'[i] = runs[a] /\ runs'[k] = runs[b]
    BY <1>1, <1>3, ZenonT(40)
  <2> HIDE DEF a, b
  <2>2. runs[a] \in Envs /\ runs[b] \in Envs
    BY <1>2, <2>1
  <2>3. Active(runs[a])
    BY <1>3, <2>1, <2>2, ZenonT(40) DEF Ages
  <2>4. Behind(runs[b])
    BY <1>3, <2>1, <2>3, ZenonT(40) DEF Behind
  <2>5. ~Opens(runs[b])
    BY <2>2, <2>4, BehindWaits, ZenonT(40)
  <2> QED BY <2>1, <2>5
<1>4. runs' \in Seq(Envs)
  BY DEF Shrinks
<1> QED BY <1>3, <1>4, OrderAfter, ZenonT(40)

LEMMA TidyOpens ==
  ASSUME Typed, InPlace, \A x \in Envs : Plain(x)
  PROVE  \A x \in Envs : Opens(x) => Opened(x)
BY ZenonT(40) DEF Plain, Opens, Opened, InPlace, Later

LEMMA OrderStarts ==
  ASSUME Typed, PairInv, PoolInv, ContextOrder, profile' = profile, jobs' = jobs,
         NEW e \in Envs, Started(e)
  PROVE  ContextOrder'
<1>0. runs' = Append(runs, e)
  BY DEF Started
<1>1. /\ runs' \in Seq(Envs) /\ Len(runs') = Len(runs) + 1
      /\ Len(runs) \in Nat /\ runs'[Len(runs) + 1] = e
      /\ \A i \in 1 .. Len(runs) : runs'[i] = runs[i]
      /\ \A i \in 1 .. Len(runs') : i \in 1 .. Len(runs) \/ i = Len(runs) + 1
      /\ \A i \in 1 .. Len(runs') : ~(Len(runs) + 1 < i)
      /\ \A i \in 1 .. Len(runs) : runs[i] \in Envs
  BY <1>0, AppendedSlots
<1>2. ~Opens(e)
  BY ZenonT(40) DEF PairInv, Paired, Started, Opens
<1>3. ASSUME NEW i \in 1 .. Len(runs)
      PROVE  (Lives(runs[i]) => Active(runs[i])) /\ (Opens(runs[i]) => Opened(runs[i]))
  <2>1. runs[i] \in Envs /\ runs[i] # e
    <3>1. run[runs[i]].state # "free"
      BY DEF PoolInv
    <3>2. run[e].state = "free"
      BY DEF Started
    <3> QED BY <1>1, <3>1, <3>2
  <2>2. run'[runs[i]] = run[runs[i]] /\ log'[runs[i]] = log[runs[i]]
    BY <2>1, ZenonT(40) DEF Started
  <2> QED BY <2>2, ZenonT(40) DEF Lives, Active, Opens, Opened
<1>4. ASSUME profile.serialize, NEW i \in 1 .. Len(runs'), NEW k \in 1 .. Len(runs'),
             i < k, Ctx[runs'[i]] = Ctx[runs'[k]], Lives(runs'[i])
      PROVE  ~Opens(runs'[k])
  <2>1. CASE k = Len(runs) + 1
    BY <1>1, <1>2, <2>1
  <2>2. CASE k \in 1 .. Len(runs)
    <3>1. i \in 1 .. Len(runs)
      BY <1>1, <1>4, <2>2
    <3>2. runs'[i] = runs[i] /\ runs'[k] = runs[k]
      BY <1>1, <2>2, <3>1
    <3>3. Active(runs[i])
      BY <1>3, <1>4, <3>1, <3>2
    <3>4. Behind(runs[k])
      BY <1>4, <2>2, <3>1, <3>2, <3>3, ZenonT(40) DEF Behind
    <3>5. ~Opens(runs[k])
      BY <1>3, <2>2, <3>4, BehindWaits, ZenonT(40)
    <3> QED BY <3>2, <3>5
  <2> QED BY <1>1, <2>1, <2>2
<1> QED BY <1>1, <1>4, OrderAfter, ZenonT(40)

(* The scheduler steps a run only when no older run of its context is in   *)
(* the way.                                                                *)
LEMMA StepperLeads ==
  ASSUME PoolInv, NEW e \in Envs, cur \in Nat \ {0}, cur <= Len(runs), e = runs[cur],
         ~HeldBack(e)
  PROVE  ~Behind(e)
<1>1. SUFFICES ASSUME profile.serialize, NEW i \in 1 .. Len(runs), NEW k \in 1 .. Len(runs),
                      i < k, runs[k] = e, Ctx[runs[i]] = Ctx[e], Active(runs[i])
               PROVE  FALSE
  BY ZenonT(40) DEF Behind
<1>2. cur \in 1 .. Len(runs)
  BY DEF PoolInv
<1>3. k = cur
  <2>1. runs[k] = runs[cur]
    BY <1>1
  <2>2. \A m, n \in 1 .. Len(runs) : runs[m] = runs[n] => m = n
    BY DEF PoolInv
  <2> QED BY <1>2, <2>1, <2>2, ZenonT(40)
<1>4. i \in 1 .. cur - 1
  BY <1>1, <1>3
<1> QED BY <1>1, <1>4, ZenonT(40) DEF HeldBack, Active

LEMMA StepOpens ==
  ASSUME Typed, NEW e \in Envs, RunStep(e), Effect(e)
  PROVE  \A x \in Envs : x # e => (Opens(x) => Opened(x))
<1>1. CASE jobs' = jobs
  BY <1>1, ZenonT(40) DEF RunStep, Opens, Opened
<1>2. CASE Launched(e)
  <2>1. PICK k \in {"agent", "action"}, p \in Number : jobs' = <<NewJob(k, e, p)>> \o jobs
    BY <1>2, ZenonT(40) DEF Launched
  <2> DEFINE j == NewJob(k, e, p)
  <2>2. j \in Job /\ j.run = e
    BY NewJobTyped
  <2>3. jobs' = <<j>> \o jobs
    BY <2>1
  <2> HIDE DEF j
  <2>4. /\ jobs' \in Seq(Job) /\ Len(jobs') = Len(jobs) + 1 /\ jobs'[1] = j
        /\ \A m \in 2 .. Len(jobs) + 1 : jobs'[m] = jobs[m - 1]
    BY <2>2, <2>3, PrependKeeps DEF Typed
  <2>5. \A m \in DOMAIN jobs' : m = 1 \/ (m - 1 \in DOMAIN jobs /\ jobs'[m] = jobs[m - 1])
    BY <2>4 DEF Typed
  <2> QED BY <2>2, <2>4, <2>5, ZenonT(40) DEF RunStep, Opens, Opened
<1> QED BY <1>1, <1>2, ZenonT(40) DEF Effect

LEMMA PumpOpens ==
  ASSUME Typed, NEW i \in 1 .. Len(jobs), jobs' = Unlinked(i), jobs[i].run \in Envs,
         (run' = run /\ log' = log) \/ RunStep(jobs[i].run)
  PROVE  \A x \in Envs : Opens(x) => Opened(x)
<1>1. PICK at : \A k \in DOMAIN jobs' : at[k] \in DOMAIN jobs /\ jobs'[k] = jobs[at[k]]
  <2>1. PICK at : /\ \A k \in DOMAIN jobs' : /\ at[k] \in DOMAIN jobs /\ at[k] # i
                                             /\ jobs'[k] = jobs[at[k]]
                  /\ \A k, m \in DOMAIN jobs' : at[k] = at[m] => k = m
                  /\ \A m \in DOMAIN jobs : m # i => \E k \in DOMAIN jobs' : jobs'[k] = jobs[m]
    BY UnlinkedMap
  <2>2. \A k \in DOMAIN jobs' : at[k] \in DOMAIN jobs /\ jobs'[k] = jobs[at[k]]
    BY <2>1, ZenonT(40)
  <2> QED BY <2>2
<1>2. i \in DOMAIN jobs
  BY DEF Typed
<1>3. \A x : (\E n \in DOMAIN jobs' : jobs'[n].run = x) => \E n \in DOMAIN jobs : jobs[n].run = x
  BY <1>1, ZenonT(40)
<1>4. \A x \in Envs : x = jobs[i].run => Opened(x)
  BY <1>2, ZenonT(40) DEF Opened
<1>5. \A x \in Envs : x # jobs[i].run => log'[x] = log[x]
  BY ZenonT(40) DEF RunStep
<1> QED BY <1>3, <1>4, <1>5, ZenonT(40) DEF Opens, Opened

-----------------------------------------------------------------------------
(* The thread's loop counter, the stop, and the rest of the types.         *)

LEMMA SameProfile ==
  ASSUME [Next]_vars
  PROVE  profile' = profile
BY ZenonT(40) DEF Next, World, Pass, Shutdown, Publish, Cancel, PipeCloses, ChildExits, JobTick,
  RetryClaims, Intake, IntakeDone, PumpJob, WakeSlotWaiters, NextRun, StepRun, Retire,
  ShutdownTerm, ShutdownWait, ShutdownKill, ShutdownEnd, Stopped, vars

LEMMA CurKeeps ==
  ASSUME PoolInv, CurInv, [Next]_vars, StepRun => cur' = cur \/ cur' = cur + 1
  PROVE  CurInv'
<1>1. CASE RetryClaims
  <2>1. pc' = "intake" /\ runs' = runs /\ (cur' = Budget \/ cur' = 0)
    BY <1>1, ZenonT(40) DEF RetryClaims
  <2>2. Len(runs) \in Nat /\ Len(runs) <= MaxActive
    BY DEF PoolInv
  <2>3. Budget \in Nat /\ Budget + Len(runs) <= MaxActive
    BY <2>2, EngineAssumption DEF Budget
  <2>4. cur' \in Nat /\ cur' + Len(runs') <= MaxActive
    BY <2>1, <2>2, <2>3, EngineAssumption
  <2>5. pc' # "step"
    BY <2>1
  <2> QED BY <2>4, <2>5 DEF CurInv
<1>2. CASE Intake
  <2>1. /\ pc = "intake" /\ pc' = "intake" /\ cur > 0 /\ cur' = cur - 1
        /\ runs' = runs \/ runs' = Append(runs, Head(inbox))
    BY <1>2, ZenonT(40) DEF Intake, Admits, ClaimsOnly, Rejects
  <2>2. Len(runs) \in Nat /\ (Len(runs') = Len(runs) \/ Len(runs') = Len(runs) + 1)
    BY <2>1 DEF PoolInv
  <2>3. cur' \in Nat /\ cur' + Len(runs') <= MaxActive
    BY <2>1, <2>2, EngineAssumption DEF CurInv
  <2>4. pc' # "step"
    BY <2>1
  <2> QED BY <2>3, <2>4 DEF CurInv
<1>3. CASE WakeSlotWaiters
  <2>1. pc' = "step" /\ cur' = 1
    BY <1>3, ZenonT(40) DEF WakeSlotWaiters
  <2>2. pc' # "intake" /\ cur' \in Nat \ {0}
    BY <2>1
  <2> QED BY <2>2 DEF CurInv
<1>4. CASE NextRun \/ StepRun
  <2>1. pc = "step" /\ pc' = "step" /\ (cur' = cur \/ cur' = cur + 1)
    BY <1>4, ZenonT(40) DEF NextRun, StepRun
  <2>2. pc' # "intake" /\ cur' \in Nat \ {0}
    BY <2>1 DEF CurInv
  <2> QED BY <2>2 DEF CurInv
<1>5. CASE UNCHANGED vars
  BY <1>5, ZenonT(40) DEF vars, engine, CurInv
<1>6. CASE JobTick \/ IntakeDone \/ Retire \/ ShutdownTerm \/ Shutdown \/ PumpJob \/ Stopped
  <2>1. pc' \in {"claims", "pump", "poll", "draining", "killing", "stopped"}
    BY <1>6, ZenonT(40) DEF JobTick, IntakeDone, Retire, ShutdownTerm, Shutdown, PumpJob,
         Stopped, ShutdownWait, ShutdownKill, ShutdownEnd, vars
  <2>2. pc' # "intake" /\ pc' # "step"
    BY <2>1
  <2> QED BY <2>2 DEF CurInv
<1>7. CASE World
  <2>1. pc' \in {"poll", "draining", "killing"}
    BY <1>7, ZenonT(40) DEF World, Publish, Cancel, PipeCloses, ChildExits, Sleeping
  <2>2. pc' # "intake" /\ pc' # "step"
    BY <2>1
  <2> QED BY <2>2 DEF CurInv
<1> QED BY <1>1, <1>2, <1>3, <1>4, <1>5, <1>6, <1>7, ZenonT(40) DEF Next, Pass

(* SIGKILL reaches every child that is up.                                 *)
LEMMA KillLeavesNone ==
  ASSUME Typed, SlotInv, ShutdownKill
  PROVE  \A i \in DOMAIN jobs' : jobs'[i].child # "run"
<1>1. jobs' = [i \in DOMAIN jobs |->
                 IF jobs[i].st = "running" /\ jobs[i].child = "run"
                 THEN [jobs[i] EXCEPT !.child = "bad"] ELSE jobs[i]]
  BY ZenonT(40) DEF ShutdownKill
<1>2. ASSUME NEW i \in DOMAIN jobs
      PROVE  jobs'[i].child # "run"
  <2>1. jobs[i] \in Job /\ (jobs[i].child = "run" => jobs[i].st = "running")
    BY DEF Typed, SlotInv
  <2>2. CASE jobs[i].child # "run"
    <3>1. jobs'[i] = jobs[i]
      BY <1>1, <2>2, ZenonT(40)
    <3> QED BY <2>2, <3>1
  <2>3. CASE jobs[i].child = "run"
    <3> DEFINE g == [jobs[i] EXCEPT !.child = "bad"]
    <3>1. jobs'[i] = g
      BY <1>1, <2>1, <2>3, ZenonT(40)
    <3>2. "bad" \in Child
      BY DEF Child
    <3>3. g.child = "bad"
      BY <2>1, <3>2, JobExited
    <3> HIDE DEF g
    <3> QED BY <3>1, <3>3
  <2> QED BY <2>2, <2>3
<1> QED BY <1>1, <1>2, ZenonT(40)

LEMMA StopKeeps ==
  ASSUME Typed, SlotInv, StopInv, \A x \in Envs : Sound(run[x]), [Next]_vars
  PROVE  StopInv'
<1>1. ASSUME pc' \in {"poll", "claims", "intake", "pump", "step", "draining"}
      PROVE  StopInv'
  <2>1. pc' # "killing" /\ pc' # "stopped"
    BY <1>1
  <2> QED BY <1>1, <2>1, ZenonT(40) DEF StopInv
<1>2. CASE Pass \/ ShutdownTerm \/ ShutdownWait
  <2>1. pc' \in {"poll", "claims", "intake", "pump", "step", "draining"}
    BY <1>2, ZenonT(40) DEF Pass, JobTick, RetryClaims, Intake, IntakeDone, PumpJob,
         WakeSlotWaiters, NextRun, StepRun, Retire, ShutdownTerm, ShutdownWait
  <2> QED BY <1>1, <2>1
<1>3. CASE World
  <2>1. pc' = pc /\ pc \in {"poll", "draining", "killing"}
    BY <1>3, ZenonT(40) DEF World, Publish, Cancel, PipeCloses, ChildExits, Sleeping
  <2>2. CASE pc = "killing"
    <3>1. InPlace
      BY <1>3, JobsInPlace, ZenonT(40) DEF Tidy
    <3>2. \A i \in DOMAIN jobs' : jobs'[i].child # "run"
      BY <2>2, <3>1, ZenonT(40) DEF StopInv, InPlace, Later
    <3>3. pc' # "stopped"
      BY <2>1, <2>2
    <3> QED BY <2>1, <2>2, <3>2, <3>3, ZenonT(40) DEF StopInv
  <2>3. CASE pc # "killing"
    BY <1>1, <2>1, <2>3
  <2> QED BY <2>2, <2>3
<1>4. CASE ShutdownKill
  <2>1. pc' = "killing"
    BY <1>4, ZenonT(40) DEF ShutdownKill
  <2>2. pc' # "stopped"
    BY <2>1
  <2> QED BY <1>4, <2>1, <2>2, KillLeavesNone, ZenonT(40) DEF StopInv
<1>5. CASE ShutdownEnd
  <2>1. pc' = "stopped" /\ pc = "killing"
    BY <1>5, ZenonT(40) DEF ShutdownEnd
  <2>2. InPlace
    BY <1>5, JobsInPlace, ZenonT(40) DEF Tidy, Shutdown
  <2>3. \A i \in DOMAIN jobs' : jobs'[i].child # "run"
    BY <2>1, <2>2, ZenonT(40) DEF StopInv, InPlace, Later
  <2>4. \A x \in Envs : ~Active(x)'
    BY <1>5, EndPlain, ZenonT(40)
  <2> QED BY <2>1, <2>3, <2>4, ZenonT(40) DEF StopInv
<1>6. CASE Stopped \/ UNCHANGED vars
  <2>1. pc' = pc /\ jobs' = jobs /\ run' = run
    BY <1>6, ZenonT(40) DEF Stopped, vars, engine
  <2> QED BY <2>1, ZenonT(40) DEF StopInv, Active
<1> QED BY <1>2, <1>3, <1>4, <1>5, <1>6, ZenonT(40) DEF Next, Shutdown

LEMMA FaultCounts ==
  ASSUME faults \in 0 .. MaxFaults,
         \/ faults' = faults \/ Fault
         \/ faults < MaxFaults /\ faults' = faults + 1
  PROVE  faults' \in 0 .. MaxFaults
BY EngineAssumption DEF Fault

LEMMA TidyRest ==
  ASSUME SealInv, RestTyped, Tidy
  PROVE  RestTyped'
<1>1. CASE Quiet
  BY <1>1, QuietFrame, ZenonT(40) DEF RestTyped
<1>2. CASE \E e \in Envs : Cancel(e)
  <2>1. refused' = refused /\ heard' = heard /\ faults < MaxFaults /\ faults' = faults + 1
    BY <1>2, ZenonT(40) DEF Cancel
  <2> QED BY <2>1, FaultCounts, ZenonT(40) DEF RestTyped
<1>3. CASE RetryClaims
  <2>1. /\ refused' = refused /\ heard' = heard
        /\ faults' = faults \/ Fault \/ (faults < MaxFaults /\ faults' = faults + 1)
    BY <1>3, ZenonT(40) DEF RetryClaims
  <2> QED BY <2>1, FaultCounts, ZenonT(40) DEF RestTyped
<1>4. CASE Intake
  <2>1. /\ inbox # <<>> /\ heard' = heard
        /\ faults' = faults \/ Fault
        /\ refused' = refused \/ refused' = refused \cup {Head(inbox)}
    BY <1>4, ZenonT(40) DEF Intake, Admits, ClaimsOnly, Rejects
  <2>2. Head(inbox) \in Envs
    BY <2>1 DEF SealInv
  <2>3. refused' \subseteq Envs
    BY <2>1, <2>2, ZenonT(40) DEF RestTyped
  <2> QED BY <2>1, <2>3, FaultCounts, ZenonT(40) DEF RestTyped
<1>5. CASE WakeSlotWaiters \/ ShutdownEnd
  <2>1. refused' = refused /\ heard' = heard /\ faults' = faults
    BY <1>5, ZenonT(40) DEF WakeSlotWaiters, ShutdownEnd
  <2> QED BY <2>1, ZenonT(40) DEF RestTyped
<1>6. CASE Retire
  <2> DEFINE over == {e \in Envs : InPool(e) /\ run[e].state \in Terminal}
  <2>1. /\ refused' = refused /\ faults' = faults
        /\ heard' = [e \in Envs |-> IF e \in over /\ run[e].state = "failed"
                                    THEN heard[e] \cup {"failure"} ELSE heard[e]]
    BY <1>6, ZenonT(40) DEF Retire
  <2> HIDE DEF over
  <2>2. \A e \in Envs : /\ heard[e] \in SUBSET {"reply", "failure"}
                        /\ heard[e] \cup {"failure"} \in SUBSET {"reply", "failure"}
    BY DEF RestTyped
  <2>3. heard' \in [Envs -> SUBSET {"reply", "failure"}]
    BY <2>1, <2>2, ZenonT(40)
  <2> QED BY <2>1, <2>3, ZenonT(40) DEF RestTyped
<1> QED BY <1>1, <1>2, <1>3, <1>4, <1>5, <1>6, TidyCases, ZenonT(40)

LEMMA StepRest ==
  ASSUME RestTyped, StepRun, NEW e \in Envs, Side(e)
  PROVE  RestTyped'
<1>1. refused' = refused
  BY ZenonT(40) DEF StepRun
<1>2. faults' \in 0 .. MaxFaults
  BY FaultCounts DEF RestTyped, Side
<1>3. heard[e] \cup {"reply"} \in SUBSET {"reply", "failure"}
  BY DEF RestTyped
<1>4. heard' \in [Envs -> SUBSET {"reply", "failure"}]
  <2>1. CASE heard' = heard
    BY <2>1 DEF RestTyped
  <2>2. CASE heard' = [heard EXCEPT ![e] = heard[e] \cup {"reply"}]
    <3> DEFINE h == heard[e] \cup {"reply"}
    <3> HIDE DEF h
    <3> QED BY <1>3, <2>2, ZenonT(40) DEF RestTyped, h
  <2> QED BY <2>1, <2>2, ZenonT(40) DEF Side
<1> QED BY <1>1, <1>2, <1>4, ZenonT(40) DEF RestTyped

LEMMA PumpRest ==
  ASSUME RestTyped, PumpJob, faults' = faults \/ Fault
  PROVE  RestTyped'
<1>1. refused' = refused /\ heard' = heard
  BY ZenonT(40) DEF PumpJob
<1> QED BY <1>1, FaultCounts, ZenonT(40) DEF RestTyped

-----------------------------------------------------------------------------
(* Every step keeps the invariant.                                         *)

(* What the record of a run has to do with the profile does not move.      *)
LEMMA SoundAfter ==
  ASSUME profile' = profile, \A x \in Envs : Sound(run'[x])
  PROVE  (\A x \in Envs : Sound(run[x]))'
BY ZenonT(40) DEF Sound, Within, Steps

LEMMA TidyHolds ==
  ASSUME IInv, OInv, Tidy, [Next]_vars
  PROVE  (\A x \in Envs : Sound(run[x]))' /\ PairInv' /\ PoolInv' /\ ContextOrder' /\ RestTyped'
<1>1. /\ Typed /\ SealInv /\ \A x \in Envs : Sound(run[x])
      /\ PairInv /\ PoolInv /\ CurInv /\ RestTyped /\ ContextOrder
  BY DEF IInv, OInv
<1>2. profile' = profile /\ InPlace /\ RestTyped'
  BY <1>1, SameProfile, JobsInPlace, TidyRest
<1>3. CASE ~Intake
  <2>1. \A x \in Envs : Plain(x)
    BY <1>1, <1>3, TidyPlain
  <2>2. \A x \in Envs : Sound(run'[x]) /\ Steady(x) /\ Ages(x)
    BY <2>1, PlainSteady, PlainAges, ZenonT(40) DEF Plain
  <2>3. Shrinks
    BY <1>1, <1>3, TidyShrinks
  <2>4. \A x \in Envs : Opens(x) => Opened(x)
    BY <1>1, <1>2, <2>1, TidyOpens
  <2>5. ContextOrder'
    BY <1>1, <1>2, <2>2, <2>3, <2>4, OrderKeeps, ZenonT(40)
  <2>6. PairInv'
    BY <1>1, <1>2, <2>2, SteadyPairs, ZenonT(40)
  <2>7. PoolInv'
    BY <1>1, <2>2, <2>3, PoolKeeps, ZenonT(40)
  <2> QED BY <1>2, <2>2, <2>5, <2>6, <2>7, SoundAfter, ZenonT(40)
<1>4. CASE Intake
  <2>0. jobs' = jobs /\ pc = "intake" /\ cur > 0
    BY <1>4, ZenonT(40) DEF Intake
  <2>1. CASE run' = run /\ log' = log /\ runs' = runs
    <3>1. \A x \in Envs : Plain(x)
      BY <1>1, <2>1, SamePlain, ZenonT(40)
    <3>2. \A x \in Envs : Sound(run'[x]) /\ Steady(x) /\ Ages(x)
      BY <3>1, PlainSteady, PlainAges, ZenonT(40) DEF Plain
    <3>3. Shrinks
      BY <1>1, <2>1, SameShrinks
    <3>4. \A x \in Envs : Opens(x) => Opened(x)
      BY <1>1, <1>2, <3>1, TidyOpens
    <3>5. ContextOrder'
      BY <1>1, <1>2, <3>2, <3>3, <3>4, OrderKeeps, ZenonT(40)
    <3>6. PairInv'
      BY <1>1, <1>2, <3>2, SteadyPairs, ZenonT(40)
    <3>7. PoolInv'
      BY <1>1, <3>2, <3>3, PoolKeeps, ZenonT(40)
    <3> QED BY <1>2, <3>2, <3>5, <3>6, <3>7, SoundAfter, ZenonT(40)
  <2>2. ASSUME NEW e \in Envs, Started(e)
        PROVE  /\ \A x \in Envs : Sound(run'[x])
               /\ PairInv' /\ PoolInv' /\ ContextOrder'
    <3>1. \A x \in Envs : Sound(run'[x])
      BY <1>1, <2>2, ZenonT(40) DEF Started
    <3>2. PairInv'
      BY <1>1, <1>2, <2>2, StartedSteady, SteadyPairs, ZenonT(40)
    <3>3. Len(runs) < MaxActive
      BY <1>1, <2>0, EngineAssumption DEF CurInv, PoolInv
    <3>4. PoolInv'
      BY <1>1, <2>2, <3>3, PoolStarts
    <3>5. ContextOrder'
      BY <1>1, <1>2, <2>0, <2>2, OrderStarts
    <3> QED BY <3>1, <3>2, <3>4, <3>5
  <2>3. CASE \E e \in Envs : Started(e)
    BY <1>2, <2>2, <2>3, SoundAfter, ZenonT(40)
  <2> QED BY <1>1, <1>4, <2>1, <2>3, IntakeStarts
<1> QED BY <1>3, <1>4

LEMMA StepRunHolds ==
  ASSUME IInv, OInv, StepRun, [Next]_vars
  PROVE  /\ (\A x \in Envs : Sound(run[x]))' /\ PairInv' /\ PoolInv' /\ ContextOrder'
         /\ RestTyped' /\ (cur' = cur \/ cur' = cur + 1)
<1>1. /\ Typed /\ SealInv /\ \A x \in Envs : Sound(run[x])
      /\ PairInv /\ PoolInv /\ CurInv /\ RestTyped /\ ContextOrder
  BY DEF IInv, OInv
<1>2. profile' = profile /\ pc = "step" /\ runs' = runs
  BY SameProfile, ZenonT(40) DEF StepRun
<1>3. PICK e \in Envs : /\ e = runs[cur] /\ cur <= Len(runs) /\ ~HeldBack(e)
                        /\ run[e].state \in {"ready", "running"}
                        /\ Effect(e) /\ Side(e)
  BY <1>1, StepRunFull
<1>4. RunStep(e)
  <2>1. PICK x \in Envs : x = runs[cur] /\ RunStep(x)
    BY <1>1, StepRunEffect, ZenonT(40)
  <2>2. x = e
    BY <1>3, <2>1
  <2> QED BY <2>1, <2>2
<1>5. Active(e)
  BY <1>3 DEF Active, Terminal
<1>6. \A x \in Envs : Sound(run'[x])
  BY <1>1, <1>3, <1>4, ZenonT(40) DEF RunStep, Effect
<1>7. PairInv'
  BY <1>1, <1>3, <1>4, StepPairs
<1>8. Shrinks /\ \A x \in Envs : Ages(x)
  BY <1>1, <1>2, <1>4, <1>5, SameShrinks, StepAges
<1>9. PoolInv'
  BY <1>1, <1>8, PoolKeeps
<1>10. ~Behind(e)
  <2>1. cur \in Nat \ {0}
    BY <1>1, <1>2 DEF CurInv
  <2> QED BY <1>1, <1>3, <2>1, StepperLeads
<1>11. \A x \in Envs : Opens(x) => Opened(x) \/ ~Behind(x)
  BY <1>1, <1>3, <1>4, <1>10, StepOpens, ZenonT(40)
<1>12. ContextOrder'
  BY <1>1, <1>2, <1>8, <1>11, OrderKeeps
<1>13. RestTyped'
  BY <1>1, <1>3, StepRest
<1>14. cur' = cur \/ cur' = cur + 1
  BY <1>3 DEF Side
<1> QED BY <1>2, <1>6, <1>7, <1>9, <1>12, <1>13, <1>14, SoundAfter, ZenonT(40)

LEMMA PumpHolds ==
  ASSUME IInv, OInv, PumpJob, [Next]_vars
  PROVE  (\A x \in Envs : Sound(run[x]))' /\ PairInv' /\ PoolInv' /\ ContextOrder' /\ RestTyped'
<1>1. /\ Typed /\ SealInv /\ \A x \in Envs : Sound(run[x])
      /\ PairInv /\ PoolInv /\ CurInv /\ RestTyped /\ ContextOrder
  BY DEF IInv, OInv
<1>2. profile' = profile /\ runs' = runs
  BY SameProfile, ZenonT(40) DEF PumpJob
<1>3. PICK i \in 1 .. Len(jobs) :
        /\ jobs' = Unlinked(i) /\ jobs[i] \in Job /\ jobs[i].run \in Envs
        /\ \/ /\ ~Matches(jobs[i]) /\ run' = run /\ log' = log /\ faults' = faults
           \/ /\ Matches(jobs[i]) /\ RunStep(jobs[i].run) /\ Woken(jobs[i].run)
  BY <1>1, PumpFull
<1> DEFINE e == jobs[i].run
<1>4. e \in Envs /\ \/ run' = run /\ log' = log /\ faults' = faults
                    \/ /\ Matches(jobs[i]) /\ RunStep(e) /\ Woken(e)
  BY <1>3, ZenonT(40)
<1>5. Matches(jobs[i]) => run[e].state = "waiting_jobs"
  BY ZenonT(40) DEF Matches
<1>6. PairInv'
  BY <1>1, <1>3, PumpPairs, ZenonT(40)
<1>7. \A x \in Envs : Opens(x) => Opened(x)
  BY <1>1, <1>3, PumpOpens, ZenonT(40)
<1> HIDE DEF e
<1>8. \A x \in Envs : Sound(run'[x])
  BY <1>1, <1>4, ZenonT(40) DEF RunStep, Woken
<1>9. \A x \in Envs : Ages(x)
  <2>1. CASE run' = run /\ log' = log
    BY <2>1, ZenonT(40) DEF Ages, Lives, Active
  <2>2. CASE Matches(jobs[i]) /\ RunStep(e)
    <3>1. Active(e)
      BY <1>5, <2>2 DEF Active, Terminal
    <3> QED BY <1>4, <2>2, <3>1, StepAges
  <2> QED BY <1>4, <2>1, <2>2, ZenonT(40)
<1>10. Shrinks
  BY <1>1, <1>2, SameShrinks
<1>11. PoolInv'
  BY <1>1, <1>9, <1>10, PoolKeeps
<1>12. ContextOrder'
  BY <1>1, <1>2, <1>7, <1>9, <1>10, OrderKeeps, ZenonT(40)
<1>13. RestTyped'
  BY <1>1, <1>4, PumpRest, ZenonT(40) DEF Woken
<1> QED BY <1>2, <1>6, <1>8, <1>11, <1>12, <1>13, SoundAfter, ZenonT(40)

LEMMA OStepKeeps ==
  ASSUME IInv, OInv, [Next]_vars
  PROVE  OInv'
<1>1. /\ Typed /\ SlotInv /\ \A x \in Envs : Sound(run[x])
      /\ PoolInv /\ CurInv /\ StopInv
  BY DEF IInv, OInv
<1>2. (\A x \in Envs : Sound(run[x]))' /\ PairInv' /\ PoolInv' /\ ContextOrder' /\ RestTyped'
  BY NextCases, TidyHolds, StepRunHolds, PumpHolds, ZenonT(40)
<1>3. StepRun => cur' = cur \/ cur' = cur + 1
  BY StepRunHolds, ZenonT(40)
<1>4. CurInv'
  BY <1>1, <1>3, CurKeeps
<1>5. StopInv'
  BY <1>1, StopKeeps
<1> QED BY <1>2, <1>4, <1>5, ZenonT(40) DEF OInv

LEMMA OInitHolds == Init => OInv
<1> SUFFICES ASSUME Init PROVE OInv
  OBVIOUS
<1>0. Typed
  BY InitHolds DEF IInv
<1>1. /\ runs = <<>> /\ run = [e \in Envs |-> Blank] /\ jobs = <<>> /\ refused = {}
      /\ log = [e \in Envs |-> "none"] /\ heard = [e \in Envs |-> {}]
      /\ pc = "poll" /\ cur = 0 /\ faults = 0
  BY ZenonT(40) DEF Init
<1>2. Sound(Blank)
  <2>1. Blank.state = "free" /\ Blank.waiting = 0
    BY DEF Blank
  <2>2. Blank.state # "waiting_jobs"
    BY <2>1
  <2> QED BY <1>0, <2>1, <2>2, BlankWithin DEF Sound
<1>3. \A e \in Envs : run[e] = Blank /\ log[e] = "none" /\ heard[e] = {}
  BY <1>1, ZenonT(40)
<1>4. \A e \in Envs : run[e].state = "free" /\ ~Active(e) /\ run[e].state # "waiting_jobs"
  BY <1>3, BlankTyped DEF Active
<1>5. /\ DOMAIN jobs = {} /\ runs \in Seq(Envs) /\ Len(runs) = 0 /\ 1 .. Len(runs) = {}
      /\ DOMAIN runs = {}
  BY <1>1
<1>6. PairInv
  BY <1>4, <1>5, ZenonT(40) DEF PairInv
<1>7. 0 <= MaxActive
  BY EngineAssumption
<1>8. PoolInv
  BY <1>3, <1>4, <1>5, <1>7, ZenonT(40) DEF PoolInv
<1>9. CurInv
  BY <1>1 DEF CurInv
<1>10. StopInv
  BY <1>1, <1>4 DEF StopInv
<1>11. RestTyped
  <2>1. heard \in [Envs -> SUBSET {"reply", "failure"}]
    BY <1>1, ZenonT(40)
  <2>2. faults \in 0 .. MaxFaults
    BY <1>1, EngineAssumption
  <2> QED BY <1>1, <2>1, <2>2, ZenonT(40) DEF RestTyped
<1>12. ContextOrder
  BY <1>5, ZenonT(40) DEF ContextOrder
<1> QED BY <1>2, <1>3, <1>6, <1>8, <1>9, <1>10, <1>11, <1>12, ZenonT(40) DEF OInv

LEMMA OInductive == Spec => [](IInv /\ OInv)
<1>1. Init => IInv /\ OInv
  BY InitHolds, OInitHolds
<1>2. IInv /\ OInv /\ [Next]_vars => IInv' /\ OInv'
  BY StepKeeps, OStepKeeps
<1> QED BY <1>1, <1>2, PTL DEF Spec

-----------------------------------------------------------------------------
LEMMA WithinType ==
  ASSUME NEW r, Within(r)
  PROVE  r \in RunType
<1>1. /\ r \in Rec
      /\ r.phase \in 1 .. Len(Steps) + 1 /\ r.at \in 0 .. Len(Steps)
      /\ r.advance \in 0 .. MaxPasses /\ r.attempts \in 0 .. profile.retry
      /\ r.waiting \in 0 .. 1
  BY DEF Within
<1>2. /\ r = [state |-> r.state, phase |-> r.phase, advance |-> r.advance,
              attempts |-> r.attempts, pending |-> r.pending, wait |-> r.wait,
              at |-> r.at, waiting |-> r.waiting, told |-> r.told, progress |-> r.progress]
      /\ r.state \in States /\ r.pending \in Queue /\ r.wait \in Reasons
      /\ r.told \in Flag /\ r.progress \in Flag
  BY <1>1, ZenonT(40) DEF Rec
<1> QED BY <1>1, <1>2, ZenonT(40) DEF RunType, States, Queue, Reasons, Flag

LEMMA InvTypes == IInv /\ OInv => TypeOK
<1> SUFFICES ASSUME IInv, OInv PROVE TypeOK
  OBVIOUS
<1>1. run \in [Envs -> RunType]
  <2>1. \A e \in Envs : run[e] \in RunType
    BY WithinType, ZenonT(40) DEF OInv, Sound
  <2> QED BY <2>1, ZenonT(40) DEF IInv, Typed
<1>2. \A i \in DOMAIN jobs : jobs[i].run \in Envs /\ jobs[i].st \in {"running", "finished", "failed"}
  <2>1. \A i \in DOMAIN jobs : jobs[i] \in Job
    BY DEF IInv, Typed
  <2> QED BY <2>1, ZenonT(40) DEF Job
<1> QED BY <1>1, <1>2, ZenonT(40) DEF TypeOK, IInv, OInv, Typed, SealInv, PoolInv, StopInv, RestTyped

LEMMA InvPairs == IInv /\ OInv => WaitsMatchJobs
<1> SUFFICES ASSUME IInv, OInv PROVE WaitsMatchJobs
  OBVIOUS
<1>1. Typed /\ PairInv /\ PoolInv
  BY DEF IInv, OInv
<1>2. \A i \in DOMAIN jobs : Matches(jobs[i]) \/ ~Active(jobs[i].run)
  BY <1>1, PairMatches
<1>3. ASSUME NEW e \in Envs, run[e].state = "waiting_jobs"
      PROVE  \E i \in DOMAIN jobs : \A k \in DOMAIN jobs :
               (jobs[k].run = e /\ Matches(jobs[k])) <=> k = i
  <2>1. Active(e)
    BY <1>3 DEF Active, Terminal
  <2>2. PICK i \in DOMAIN jobs : jobs[i].run = e
    BY <1>1, <1>3, ZenonT(40) DEF PairInv
  <2>3. \A k \in DOMAIN jobs : jobs[k].run = e => k = i
    BY <1>1, <2>1, <2>2, ZenonT(40) DEF PairInv
  <2>4. Matches(jobs[i])
    BY <1>2, <2>1, <2>2
  <2> QED BY <2>2, <2>3, <2>4, ZenonT(40)
<1> QED BY <1>2, <1>3, ZenonT(40) DEF WaitsMatchJobs

(* Every variable keeps its type, for every profile and every bound: the   *)
(* pool of s->runs[] is never overrun by the intake (rt_ports_drain_sources*)
(* takes no more than the free slots), a run never has more than one job   *)
(* in flight, begin_advance_if_needed never counts past the pass cap, and  *)
(* wake_run_after_job never retries past the attempts of the profile.      *)
THEOREM TypeCorrect == Spec => []TypeOK
BY InvTypes, OInductive, PTL

(* Until the gateway stops, a run that waits for a job has exactly one job *)
(* that rt_scheduler_find_run_for_job will give to it, and a job that      *)
(* finds no run belongs to a run that is over.                             *)
THEOREM WaitsArePaired == Spec => []WaitsMatchJobs
BY InvPairs, OInductive, PTL

(* With serialize_contexts no run of a context begins, and none has a job, *)
(* while an older run of the same context is live: what                    *)
(* serialized_behind_older_run decides for one step holds in every state.  *)
THEOREM ContextsInOrder == Spec => []ContextOrder
<1>1. OInv => ContextOrder
  BY DEF OInv
<1> QED BY <1>1, OInductive, PTL

(* When rt_scheduler_shutdown has run, no child is alive and every run has *)
(* its outcome, whatever the children did in the meantime.                 *)
THEOREM StopIsClean == Spec => []StopLeavesNothing
<1>1. OInv => StopLeavesNothing
  <2>1. StopInv => StopLeavesNothing
    BY ZenonT(40) DEF StopInv, StopLeavesNothing, Active
  <2> QED BY <2>1 DEF OInv
<1> QED BY <1>1, OInductive, PTL
=============================================================================
