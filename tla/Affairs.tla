------------------------------ MODULE Affairs ------------------------------
(***************************************************************************)
(* Standing concerns ("affairs"): the store affairs.json, the reducer that *)
(* applies affair events to it, the affair actions a run may call, the     *)
(* watcher that fires a review when one is due, and `fclaw affair`, which  *)
(* is another process and rewrites the same file.                          *)
(*                                                                         *)
(* Every mutation loads the whole store and writes the whole store, so it  *)
(* is two steps here, and the other process may write between them.  An    *)
(* action first appends its event to the run's log and then applies it; a  *)
(* crash may fall between, and recovery runs the action again under the    *)
(* same request id.  A context "chat:<channel>[:<adapter>]" is the         *)
(* sequence of its parts.                                                  *)
(***************************************************************************)
EXTENDS Naturals, Sequences, FiniteSets, SequencesExt

CONSTANTS
  OpenIds,      \* ids affair_open may mint, each for one run's event
  CliIds,       \* ids `fclaw affair create` mints, numbers counting up
  Home,         \* [OpenIds \cup CliIds -> contexts]: where each one belongs
  Kinds,        \* the affair actions the runs of this instance call
  MaxItems,     \* AFFAIR_MAX_ITEMS
  NoteMax,      \* AFFAIR_MAX_NOTES
  DueMax,       \* due ids the watcher takes in one tick
  CountMax,     \* the largest counter value, INT64_MAX
  MaxNow, MaxReqs, MaxCli, MaxCrashes, MaxFaults   \* bounds

VARIABLES
  store,    \* affairs.json: [order |-> ids, newest first, item |-> by id]
  now,      \* the clock
  inbox,    \* envelopes on the bus that start runs
  runs,     \* the runs in the scheduler
  log,      \* affair events committed to the run logs
  gw,       \* the gateway's store write in flight
  tick,     \* the watcher's tick in progress
  cli,      \* the command's store write in flight
  refused,  \* logged events the reducer refused
  cut,      \* requests whose event is logged and never reached the store
  raced,    \* a process wrote over a store it had not read
  armed, fired,  \* per affair: times scheduled, reviews the watcher published
  reqs, cmds, crashes, faults

vars == <<store, now, inbox, runs, log, gw, tick, cli, refused, cut, raced,
          armed, fired, reqs, cmds, crashes, faults>>

Ids == OpenIds \cup CliIds
Statuses == {"active", "paused", "closed"}
Blank == [status |-> "closed", next |-> 0, notes |-> <<>>, count |-> 0]
Fresh(next) == [status |-> "active", next |-> next, notes |-> <<>>, count |-> 0]
NoTick == [ids |-> <<>>, done |-> {}]

Has(st, a) == a \in ToSet(st.order)
Free == gw = <<>> /\ tick.ids = <<>>

-----------------------------------------------------------------------------
(* The reducer.                                                            *)

MoveToFront(st, a) == [st EXCEPT !.order = <<a>> \o SelectSeq(@, LAMBDA b : b # a)]

NoteAppend(notes, r) ==
  Append(IF Len(notes) >= NoteMax THEN Tail(notes) ELSE notes, r)

\* The reducer takes the event e on the store st; a patch must name the
\* context the affair was created in.
Accepts(st, e) ==
  CASE e.kind = "open" -> Len(st.order) < MaxItems /\ ~Has(st, e.affair)
    [] e.kind \in {"defer", "close"} -> Has(st, e.affair) /\ e.ctx = Home[e.affair]
    [] e.kind = "note" -> Has(st, e.affair)
    [] e.kind = "bump" -> Has(st, e.affair) /\ st.item[e.affair].count < CountMax

Create(st, a, next) ==
  [order |-> <<a>> \o st.order, item |-> [st.item EXCEPT ![a] = Fresh(next)]]

Applied(st, e) ==
  CASE e.kind = "open" -> Create(st, e.affair, e.next)
    [] e.kind = "defer" ->
         MoveToFront([st EXCEPT !.item[e.affair].status = "active",
                                !.item[e.affair].next = e.next], e.affair)
    [] e.kind = "close" ->
         MoveToFront([st EXCEPT !.item[e.affair].status = "closed"], e.affair)
    [] e.kind = "note" ->
         [st EXCEPT !.item[e.affair].notes = NoteAppend(@, e.req)]
    [] e.kind = "bump" -> [st EXCEPT !.item[e.affair].count = @ + 1]

Reviewed(st, a) == [st EXCEPT !.item[a].next = 0]

\* A store write: the schedules it sets, and whether it overwrites a store
\* its process did not read.
Written(w) ==
  /\ store' = w.new
  /\ raced' = (raced \/ w.base # store)
  /\ armed' = [a \in Ids |-> armed[a] +
                 (IF store.item[a].next = 0 /\ w.new.item[a].next # 0 THEN 1 ELSE 0)]

-----------------------------------------------------------------------------
(* Bus and runs.                                                           *)

\* publish_review: the channel at the top, the adapter in the payload.
WatcherRoute(c) == [ch |-> <<c[2]>>, ad |-> SubSeq(c, 3, Len(c))]
\* do_review: the whole context id as the channel.
CliRoute(c) == [ch |-> c, ad |-> <<>>]

\* populate_inbound_context: the context of the run an envelope starts.
ContextOf(env) == <<"chat">> \o env.ch \o env.ad

Review(a, route, by) == [affair |-> a, ch |-> route.ch, ad |-> route.ad, by |-> by]

Active(ctx) == \E i \in DOMAIN runs : runs[i].ctx = ctx
\* One run of a context executes at a time, in arrival order.
Runs(i) == \A j \in 1..(i - 1) : runs[j].ctx # runs[i].ctx

Intake ==
  /\ Free /\ inbox # <<>>
  /\ runs' = Append(runs, [affair |-> Head(inbox).affair,
                           ctx |-> ContextOf(Head(inbox)),
                           by |-> Head(inbox).by, pc |-> "idle", e |-> <<>>])
  /\ inbox' = Tail(inbox)
  /\ UNCHANGED <<store, now, log, gw, tick, cli, refused, cut, raced, armed,
                 fired, reqs, cmds, crashes, faults>>

\* rt_affair_reference_in_context
Referenced(ctx, a) == Has(store, a) /\ Home[a] = ctx

\* What an action checks before it acts: defer and affair_close act on the
\* affair under review, counter_bump on an affair of this context, note_add
\* on either.
UnderReview(r, e) == r.affair = e.affair
Allowed(r, e) ==
  CASE e.kind \in {"defer", "close"} -> UnderReview(r, e)
    [] e.kind = "bump" -> Referenced(r.ctx, e.affair)
    [] e.kind = "note" -> UnderReview(r, e) \/ Referenced(r.ctx, e.affair)
    [] e.kind = "open" -> TRUE

\* The run requests an affair action.
Ask(i) ==
  /\ Free /\ Runs(i) /\ runs[i].pc = "idle" /\ reqs < MaxReqs
  /\ \E k \in Kinds, a \in Ids :
       LET e == [req |-> reqs + 1, kind |-> k, affair |-> a, by |-> runs[i].by,
                 ctx |-> runs[i].ctx,
                 next |-> IF k \in {"open", "defer"} THEN now + 1 ELSE 0]
       IN /\ Allowed(runs[i], e)
          /\ k = "open" => /\ a \in OpenIds /\ Home[a] = runs[i].ctx
                           /\ \A f \in log : ~(f.kind = "open" /\ f.affair = a)
          /\ runs' = [runs EXCEPT ![i].pc = "started", ![i].e = <<e>>]
  /\ reqs' = reqs + 1
  /\ UNCHANGED <<store, now, inbox, log, gw, tick, cli, refused, cut, raced,
                 armed, fired, cmds, crashes, faults>>

\* rt_action_committed_effect: the log already holds this request's event.
Committed(e) == \E f \in log : f.req = e.req

\* A deadline is computed from the clock when the event is appended.
Stamped(e) == [e EXCEPT !.next = IF e.next = 0 THEN 0 ELSE now + 1]

\* The action runs: its effect is already committed and is reported as
\* recovered, or its precondition fails, or its event is appended (which may
\* fail).
Act(i) ==
  LET e == runs[i].e[1]
      done == runs' = [runs EXCEPT ![i].pc = "ending"]
  IN
  /\ Free /\ Runs(i) /\ runs[i].pc = "started"
  /\ \/ (Committed(e) \/ ~Allowed(runs[i], e)) /\ done /\ UNCHANGED <<log, faults>>
     \/ /\ ~Committed(e) /\ Allowed(runs[i], e)
        /\ log' = log \cup {Stamped(e)}
        /\ runs' = [runs EXCEPT ![i].pc = "apply", ![i].e = <<Stamped(e)>>]
        /\ UNCHANGED faults
     \/ /\ ~Committed(e) /\ Allowed(runs[i], e)
        /\ faults < MaxFaults /\ faults' = faults + 1
        /\ done /\ UNCHANGED log
  /\ UNCHANGED <<store, now, inbox, gw, tick, cli, refused, cut, raced, armed,
                 fired, reqs, cmds, crashes>>

\* The appended event reaches the reducer, which loads the store.  A refusal
\* is an error event; the action still reports success.
Apply(i) ==
  LET e == runs[i].e[1] IN
  /\ Free /\ runs[i].pc = "apply"
  /\ IF Accepts(store, e)
     THEN /\ gw' = <<[base |-> store, new |-> Applied(store, e), run |-> i]>>
          /\ runs' = [runs EXCEPT ![i].pc = "write"]
          /\ UNCHANGED refused
     ELSE /\ refused' = refused \cup {e}
          /\ runs' = [runs EXCEPT ![i].pc = "ending"]
          /\ UNCHANGED gw
  /\ UNCHANGED <<store, now, inbox, log, tick, cli, cut, raced, armed, fired,
                 reqs, cmds, crashes, faults>>

\* The gateway's write lands or fails.
GatewayWrite ==
  /\ gw # <<>>
  /\ LET w == gw[1]
         over == IF w.run = 0 THEN runs
                 ELSE [runs EXCEPT ![w.run].pc = "ending"] IN
     /\ gw' = <<>> /\ runs' = over
     /\ \/ Written(w) /\ UNCHANGED <<cut, faults>>
        \/ /\ faults < MaxFaults /\ faults' = faults + 1
           /\ cut' = IF w.run = 0 THEN cut ELSE cut \cup {runs[w.run].e[1].req}
           /\ UNCHANGED <<store, raced, armed>>
  /\ UNCHANGED <<now, inbox, log, tick, cli, refused, fired, reqs, cmds, crashes>>

\* The action's terminal event is appended: it will not be run again.
Settle(i) ==
  /\ Free /\ runs[i].pc = "ending"
  /\ runs' = [runs EXCEPT ![i].pc = "idle", ![i].e = <<>>]
  /\ UNCHANGED <<store, now, inbox, log, gw, tick, cli, refused, cut, raced,
                 armed, fired, reqs, cmds, crashes, faults>>

\* The run ends; a run that asked for nothing more leaves the scheduler.
Finish(i) ==
  /\ Free /\ Runs(i) /\ runs[i].pc = "idle"
  /\ runs' = RemoveAt(runs, i)
  /\ UNCHANGED <<store, now, inbox, log, gw, tick, cli, refused, cut, raced,
                 armed, fired, reqs, cmds, crashes, faults>>

-----------------------------------------------------------------------------
(* The watcher.                                                            *)

\* rt_affair_list_due
Due(a) == /\ store.item[a].status = "active"
          /\ store.item[a].next # 0 /\ store.item[a].next <= now
ListDue ==
  LET due == SelectSeq(store.order, Due)
  IN SubSeq(due, 1, IF Len(due) < DueMax THEN Len(due) ELSE DueMax)

WatcherTick ==
  /\ Free /\ ListDue # <<>>
  /\ tick' = [ids |-> ListDue, done |-> {}]
  /\ UNCHANGED <<store, now, inbox, runs, log, gw, cli, refused, cut, raced,
                 armed, fired, reqs, cmds, crashes, faults>>

\* The next due affair is passed over: gone, its context has a run, or this
\* tick already fired in its context.
PassedOver(a) == ~Has(store, a) \/ Active(Home[a]) \/ Home[a] \in tick.done

\* One due affair of the tick: publish its review, which may fail, and clear
\* its schedule either way.
WatcherNext ==
  /\ gw = <<>> /\ tick.ids # <<>>
  /\ LET a == Head(tick.ids) IN
     \/ /\ PassedOver(a)
        /\ tick' = [tick EXCEPT !.ids = Tail(@)]
        /\ UNCHANGED <<gw, inbox, fired, faults>>
     \/ /\ ~PassedOver(a)
        /\ tick' = [ids |-> Tail(tick.ids), done |-> tick.done \cup {Home[a]}]
        /\ gw' = <<[base |-> store, new |-> Reviewed(store, a), run |-> 0]>>
        /\ \/ /\ inbox' = Append(inbox, Review(a, WatcherRoute(Home[a]), "watcher"))
              /\ fired' = [fired EXCEPT ![a] = @ + 1]
              /\ UNCHANGED faults
           \/ /\ faults < MaxFaults /\ faults' = faults + 1
              /\ UNCHANGED <<inbox, fired>>
  /\ UNCHANGED <<store, now, runs, log, cli, refused, cut, raced, armed, reqs,
                 cmds, crashes>>

Elapse ==
  /\ now < MaxNow /\ now' = now + 1
  /\ UNCHANGED <<store, inbox, runs, log, gw, tick, cli, refused, cut, raced,
                 armed, fired, reqs, cmds, crashes, faults>>

-----------------------------------------------------------------------------
(* fclaw affair.                                                           *)

\* The stores the commands that write would leave, from the store they load.
NextCliId(st) == 1 + Cardinality({a \in CliIds : Has(st, a)})
Commands(st) ==
  {[st EXCEPT !.item[a].next = now + 1] : a \in {b \in Ids : Has(st, b)}} \cup
  {[st EXCEPT !.item[p[1]].status = p[2]] :
     p \in {b \in Ids : Has(st, b)} \X Statuses} \cup
  (IF NextCliId(st) \in CliIds /\ Len(st.order) < MaxItems
   THEN {Create(st, NextCliId(st), n) : n \in {0, now + 1}} ELSE {})

CliLoad ==
  /\ cli = <<>> /\ cmds < MaxCli /\ cmds' = cmds + 1
  /\ \E new \in Commands(store) : cli' = <<[base |-> store, new |-> new]>>
  /\ UNCHANGED <<store, now, inbox, runs, log, gw, tick, refused, cut, raced,
                 armed, fired, reqs, crashes, faults>>

CliWrite ==
  /\ cli # <<>> /\ Written(cli[1]) /\ cli' = <<>>
  /\ UNCHANGED <<now, inbox, runs, log, gw, tick, refused, cut, fired, reqs,
                 cmds, crashes, faults>>

\* do_review
CliReview ==
  /\ cli = <<>> /\ cmds < MaxCli /\ cmds' = cmds + 1
  /\ \E a \in Ids : /\ Has(store, a)
                    /\ inbox' = Append(inbox, Review(a, CliRoute(Home[a]), "cli"))
  /\ UNCHANGED <<store, now, runs, log, gw, tick, cli, refused, cut, raced,
                 armed, fired, reqs, crashes, faults>>

-----------------------------------------------------------------------------
\* The gateway dies and is restarted: a run whose action had started runs it
\* again; what the watcher and the reducer were doing is gone.
Crash ==
  /\ crashes < MaxCrashes /\ crashes' = crashes + 1
  /\ gw' = <<>> /\ tick' = NoTick
  /\ runs' = [i \in DOMAIN runs |->
                IF runs[i].pc \in {"apply", "write", "ending"}
                THEN [runs[i] EXCEPT !.pc = "started"] ELSE runs[i]]
  /\ cut' = cut \cup {runs[i].e[1].req :
                        i \in {j \in DOMAIN runs : runs[j].pc \in {"apply", "write"}}}
  /\ UNCHANGED <<store, now, inbox, log, cli, refused, raced, armed, fired,
                 reqs, cmds, faults>>

\* An empty store and one user message in a context of some affair.
Init ==
  /\ store = [order |-> <<>>, item |-> [a \in Ids |-> Blank]]
  /\ now = 0 /\ runs = <<>> /\ log = {} /\ gw = <<>> /\ tick = NoTick /\ cli = <<>>
  /\ inbox = <<Review(0, WatcherRoute(Home[CHOOSE a \in OpenIds : TRUE]), "user")>>
  /\ refused = {} /\ cut = {} /\ raced = FALSE
  /\ armed = [a \in Ids |-> 0] /\ fired = [a \in Ids |-> 0]
  /\ reqs = 0 /\ cmds = 0 /\ crashes = 0 /\ faults = 0

Next ==
  \/ Intake \/ GatewayWrite \/ WatcherTick \/ WatcherNext
  \/ Elapse \/ CliLoad \/ CliWrite \/ CliReview \/ Crash
  \/ \E i \in DOMAIN runs : Ask(i) \/ Act(i) \/ Apply(i) \/ Settle(i) \/ Finish(i)

Spec == Init /\ [][Next]_vars

-----------------------------------------------------------------------------
Items == [status : Statuses, next : Nat, notes : Seq(Nat), count : Nat]

\* Every variable has its type, and each affair is in the store once.
TypeOK ==
  /\ store.order \in Seq(Ids) /\ IsInjective(store.order)
  /\ Len(store.order) <= MaxItems
  /\ \A a \in Ids : store.item[a] \in Items /\ Len(store.item[a].notes) <= NoteMax
  /\ now \in Nat /\ Len(gw) <= 1 /\ Len(cli) <= 1 /\ raced \in BOOLEAN
  /\ \A i \in DOMAIN runs :
       runs[i].pc \in {"idle", "started", "apply", "write", "ending"}
  /\ refused \subseteq log /\ cut \subseteq 1..MaxReqs

Waiting == {runs[i].e[1].req : i \in {j \in DOMAIN runs : runs[j].pc \in {"apply", "write"}}}
Reached(a, k) ==
  {e \in log : e.affair = a /\ e.kind = k /\ e \notin refused
               /\ e.req \notin cut /\ e.req \notin Waiting}

\* A counter change and a note reach the store at most once however often
\* recovery runs the action again, and exactly once unless a crash or a
\* failed write separated the logged event from the store.  It holds as long
\* as no process overwrites a store it did not read (action_runtime_affair.c,
\* rt_action_committed_effect).
EffectsApplyOnce ==
  /\ ~raced => \A a \in Ids : store.item[a].count = Cardinality(Reached(a, "bump"))
  /\ \A a \in Ids : /\ IsInjective(store.item[a].notes)
                    /\ \A i \in DOMAIN store.item[a].notes :
                         \E e \in log : /\ e.req = store.item[a].notes[i]
                                        /\ e.kind = "note" /\ e.affair = a
                    /\ store.item[a].count <=
                         Cardinality({e \in log : e.affair = a /\ e.kind = "bump"})

\* Each time an affair is scheduled the watcher publishes one review: a
\* second only when a crash or a failed write fell between the publication
\* and the cleared schedule, none only when the publication failed
\* (watcher_tick and apply_reviewed).
OneReviewPerArming ==
  ~raced => \A a \in Ids :
    /\ fired[a] <= armed[a] + crashes + faults
    /\ armed[a] <= fired[a] + faults + (IF store.item[a].next # 0 THEN 1 ELSE 0)

\* The run of a review the watcher published can act on its affair: the
\* reducer refuses none of its patches (publish_review: "otherwise the review
\* run lands in a different context and every affair mutation it makes is
\* rejected by the reducer").
WatcherReviewsCanAct ==
  ~raced => \A e \in refused : e.kind \in {"defer", "close"} => e.by # "watcher"
=============================================================================
