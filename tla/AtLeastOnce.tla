----------------------------- MODULE AtLeastOnce -----------------------------
(***************************************************************************)
(* At-least-once delivery of one channel to one session, composed from the *)
(* parts that race for it: publishers (engine.go Publish, Consumer.Deliver)*)
(* the session's dispatch goroutine (ops.go Subscribe, Unsubscribe and     *)
(* Confirm), the redelivery sweeper (Consumer.Tick), the pump both of them *)
(* run (Consumer.pump), the channel's bounded history and its TTL sweeper, *)
(* and the bounded send ring towards the client.                           *)
(*                                                                         *)
(* A channel incarnation is named by its epoch; epochs are numbered in the *)
(* order of creation (the code draws them at random and never reuses one). *)
(* Windows are numbered in the order subscribes install them, because a    *)
(* thread may go on using the window it looked up after it was replaced.   *)
(* Each action is one lock-protected section of the code.                  *)
(***************************************************************************)
EXTENDS Window, SequencesExt

CONSTANTS
  Pubs,         \* publishing goroutines
  HistCap,      \* history capacity of the channel
  Ttl,          \* TRUE when the history TTL is positive
  IdleReap,     \* TRUE when the namespace's idle_reap is positive
  PumpBatch,    \* pumpBatch: items one pump iteration requests
  QueueCap,     \* capacity of the session's send ring
  Seed,         \* publications before the session arrives, 0 = no channel yet
  Resubscribing, \* may a subscribe come for a channel already subscribed?
  Recovering,   \* do subscribes carry a recover point?
  Confirming,   \* does the client confirm what it reads?
  Stopping,     \* may the session end and the server's sweeper stop?
  MaxPublish,   \* bound: publishes started
  MaxEpoch,     \* bound: channel incarnations
  MaxWindows    \* bound: windows installed

ASSUME DeliveryAssumption ==
  /\ HistCap \in Nat \ {0} /\ PumpBatch \in Nat \ {0} /\ QueueCap \in Nat \ {0}
  /\ Seed \in Nat /\ MaxPublish \in Nat
  /\ MaxEpoch \in Nat \ {0} /\ MaxWindows \in Nat \ {0}
  /\ Resubscribing \in BOOLEAN /\ Recovering \in BOOLEAN /\ Confirming \in BOOLEAN
  /\ Stopping \in BOOLEAN /\ Ttl \in BOOLEAN /\ IdleReap \in BOOLEAN
  /\ Recovering => Seed > 0

Epochs     == 1..MaxEpoch
MaxOffset  == Seed + MaxPublish
Deliveries == [epoch : Epochs, offset : 1..MaxOffset]
Threads    == {"dispatch", "tick"}

VARIABLES
  chans,    \* epoch -> [last, count, sub]: last offset, retained, subscribed?
  live,     \* epoch of the channel in the registry, 0 = none
  newest,   \* number of incarnations created
  pub,      \* Publish of each publisher
  budget,   \* publishes that may still start
  wins,     \* every window installed so far
  cur,      \* index of the window in Consumer.windows, 0 = none
  swept,    \* is the consumer registered with its sweeper?
  sweeper,  \* its loop: not started, running, joined; and was it told to stop?
  fenced,   \* Consumer.stopped
  th,       \* the dispatch goroutine and the sweeper's tick
  queue,    \* the session's send ring
  seen,     \* deliveries the client received
  ack,      \* offset of the confirm in transit, 0 = none
  owed,     \* ghost: deliveries fanned out to the session
  given,    \* ghost: deliveries dropped as poison
  lost,     \* ghost: did a pump count a lost gap?
  silent    \* ghost: was an owed delivery judged Dup that was never sent?

engineVars == <<chans, live, newest>>
lifeVars   == <<swept, sweeper, fenced>>
ghostVars  == <<owed, given, lost, silent>>
vars == <<chans, live, newest, pub, budget, wins, cur, swept, sweeper, fenced, th,
          queue, seen, ack, owed, given, lost, silent>>

IdlePub    == [pc |-> "idle", epoch |-> 0, offset |-> 0, win |-> 0]
IdleThread == [pc |-> "idle", win |-> 0, from |-> 0, epoch |-> 0, room |-> 0, batch |-> <<>>]
NoChannel  == [last |-> 0, count |-> 0, sub |-> FALSE]

SmallerOf(a, b) == IF a < b THEN a ELSE b

\* Everything handed to the transport.
Sent == seen \union ToSet(queue)

Init ==
  /\ chans = [e \in Epochs |->
       IF e = 1 THEN [last |-> Seed, count |-> SmallerOf(Seed, HistCap), sub |-> FALSE]
       ELSE NoChannel]
  /\ live = IF Seed > 0 THEN 1 ELSE 0
  /\ newest = live
  /\ pub = [p \in Pubs |-> IdlePub]
  /\ budget = MaxPublish
  /\ wins = <<>>
  /\ cur = 0
  /\ swept = FALSE /\ sweeper = [loop |-> "off", stopped |-> FALSE] /\ fenced = FALSE
  /\ th = [t \in Threads |-> IdleThread]
  /\ queue = <<>>
  /\ seen = {}
  /\ ack = 0
  /\ owed = {} /\ given = {} /\ lost = FALSE /\ silent = FALSE

-----------------------------------------------------------------------------
\* Admission through a window, and the transport's send it runs.

\* TryProduce: is there room in the send ring?
Accepts == Len(queue) < QueueCap

\* Session.produce: the send ring takes the delivery or refuses it.
Enqueue(d) == queue' = Append(queue, d)

VerdictOf(i, d) == Admit(wins[i], d.offset, d.epoch, 1, Accepts).verdict

\* Window.Admit of d through window i: every caller goes through here.
AdmitThrough(i, d) ==
  LET r == Admit(wins[i], d.offset, d.epoch, 1, Accepts)
  IN  /\ wins' = [wins EXCEPT ![i] = r.window]
      /\ IF r.verdict = "Admitted" THEN Enqueue(d) ELSE UNCHANGED queue
      /\ silent' = (silent \/ (r.verdict = "Dup" /\ d \in owed \ (Sent \union given)))

-----------------------------------------------------------------------------
\* Publishers: engine.Publish as far as this session is concerned.

\* The channel is looked up and acquired under the shard's read lock.
PubAcquire(p) ==
  /\ pub[p].pc = "idle"
  /\ live # 0
  /\ budget > 0
  /\ budget' = budget - 1
  /\ pub' = [pub EXCEPT ![p] = [IdlePub EXCEPT !.pc = "append", !.epoch = live]]
  /\ UNCHANGED <<lifeVars, engineVars, wins, cur, th, queue, seen, ack, ghostVars>>

\* history.appendNext: the offset is assigned and stored under one lock.
PubAppend(p) ==
  LET e == pub[p].epoch
      o == chans[e].last + 1
  IN  /\ pub[p].pc = "append"
      /\ chans' = [chans EXCEPT ![e].last = o,
                                ![e].count = SmallerOf(@ + 1, HistCap)]
      /\ pub' = [pub EXCEPT ![p].pc = "fan", ![p].offset = o]
      /\ UNCHANGED <<lifeVars, live, newest, budget, wins, cur, th, queue, seen, ack, ghostVars>>

\* The subscriber snapshot of the fan-out decides whether we are a recipient.
PubFan(p) ==
  LET d == [epoch |-> pub[p].epoch, offset |-> pub[p].offset]
  IN  /\ pub[p].pc = "fan"
      /\ IF chans[d.epoch].sub
         THEN /\ pub' = [pub EXCEPT ![p].pc = "gate"]
              /\ owed' = owed \union {d}
         ELSE /\ pub' = [pub EXCEPT ![p] = IdlePub]
              /\ UNCHANGED owed
      /\ UNCHANGED <<lifeVars, engineVars, budget, wins, cur, th, queue, seen, ack,
                     given, lost, silent>>

\* Consumer.Deliver looks its window up.
PubGate(p) ==
  /\ pub[p].pc = "gate"
  /\ pub' = [pub EXCEPT ![p].pc = "deliver", ![p].win = cur]
  /\ UNCHANGED <<lifeVars, engineVars, budget, wins, cur, th, queue, seen, ack, ghostVars>>

\* Consumer.Deliver through the window found, or straight to the transport.
PubDeliver(p) ==
  LET d == [epoch |-> pub[p].epoch, offset |-> pub[p].offset]
  IN  /\ pub[p].pc = "deliver"
      /\ pub' = [pub EXCEPT ![p] = IdlePub]
      /\ IF pub[p].win = 0
         THEN /\ IF Accepts THEN Enqueue(d) ELSE UNCHANGED queue
              /\ UNCHANGED <<wins, silent>>
         ELSE AdmitThrough(pub[p].win, d)
      /\ UNCHANGED <<lifeVars, engineVars, budget, cur, th, seen, ack, owed, given, lost>>

-----------------------------------------------------------------------------
\* The engine's history: what RecoverN finds, and what expires.

\* The offset of the oldest retained entry.
Oldest(c) == c.last - c.count + 1

\* A range that starts at the oldest retained entry is refused.
RecoverOkOffByOne(from, epoch) ==
  /\ live # 0
  /\ live = epoch
  /\ \/ from = chans[live].last
     \/ /\ from < chans[live].last
        /\ chans[live].count > 0
        /\ from >= Oldest(chans[live])

\* RecoverN: can the range above "from" be served, and up to which offset?
RecoverOk(from, epoch) ==
  /\ live # 0
  /\ live = epoch
  /\ \/ from = chans[live].last
     \/ /\ from < chans[live].last
        /\ chans[live].count > 0
        /\ from + 1 >= Oldest(chans[live])

\* The items RecoverN returns, oldest first; max = 0 asks for all of them.
RecoverItems(from, max) ==
  LET upTo == IF max = 0 THEN chans[live].last
              ELSE SmallerOf(chans[live].last, from + max)
  IN  [i \in 1..(upTo - from) |-> [epoch |-> live, offset |-> from + i]]

\* history.sweep: the TTL trims entries off the tail.
Expire ==
  /\ Ttl
  /\ live # 0
  /\ \E n \in 0..(chans[live].count - 1) :
       chans' = [chans EXCEPT ![live].count = n]
  /\ UNCHANGED <<lifeVars, live, newest, pub, budget, wins, cur, th, queue, seen, ack, ghostVars>>

\* runHistorySweeper reaps a channel nobody is subscribed to once its history
\* is drained, or once it was idle for idle_reap whatever history still holds; a
\* publisher that acquired it keeps the incarnation it holds.
Reap ==
  /\ live # 0
  /\ ~chans[live].sub
  /\ chans[live].count = 0 \/ IdleReap
  /\ newest < MaxEpoch
  /\ live' = 0
  /\ UNCHANGED <<lifeVars, chans, newest, pub, budget, wins, cur, th, queue, seen, ack, ghostVars>>

-----------------------------------------------------------------------------
\* The dispatch goroutine: Subscribe, Unsubscribe and Confirm, one at a time.

At(t, pc) == th[t].pc = pc

\* The recover points a client can hold: anything it was ever sent.
RecoverPoints == { d \in Deliveries : d.epoch <= newest /\ d.offset <= chans[d.epoch].last }

\* Sweeper.add: refused once stopped; the first consumer starts the loop.
SweeperAdd ==
  IF sweeper.stopped THEN UNCHANGED <<swept, sweeper>>
  ELSE swept' = TRUE /\ sweeper' = [sweeper EXCEPT !.loop = "on"]

\* Consumer.Subscribe: an active window is never replaced; the first one joins
\* the sweeper.
ConsumerSubscribe(w) ==
  IF cur # 0 THEN UNCHANGED <<wins, cur, swept, sweeper>>
  ELSE wins' = Append(wins, w) /\ cur' = Len(wins) + 1 /\ SweeperAdd

\* Consumer.Unsubscribe: the last window takes the consumer off the sweeper.
DropWindow == cur' = 0 /\ swept' = FALSE

\* ops.go Subscribe, up to Consumer.Subscribe: the new window is pinned to the
\* recover point and installed, unless a window is already there.  A recover
\* point says that the client holds everything up to it.
SubInstall ==
  LET begun == [IdleThread EXCEPT !.pc = "subscribe", !.win = IF cur = 0 THEN Len(wins) + 1 ELSE 0]
  IN  /\ At("dispatch", "idle")
      /\ IF cur = 0 THEN Len(wins) < MaxWindows ELSE Resubscribing
      /\ IF Recovering
         THEN \E r \in RecoverPoints :
                /\ ConsumerSubscribe(Baseline(NewWindow, r.offset, r.epoch))
                /\ th' = [th EXCEPT !["dispatch"] =
                     [begun EXCEPT !.from = r.offset, !.epoch = r.epoch]]
                /\ seen' = seen \union { d \in RecoverPoints : d.epoch = r.epoch /\ d.offset <= r.offset }
         ELSE /\ ConsumerSubscribe(NewWindow)
              /\ th' = [th EXCEPT !["dispatch"] = begun]
              /\ UNCHANGED seen
      /\ UNCHANGED <<fenced, engineVars, pub, budget, queue, ack, ghostVars>>

\* engine.SubscribePriority succeeds: a missing channel is created first.
SubEngine ==
  LET e == IF live = 0 THEN newest + 1 ELSE live
  IN  /\ At("dispatch", "subscribe")
      /\ ~chans[e].sub
      /\ live' = e
      /\ newest' = IF live = 0 THEN e ELSE newest
      /\ chans' = [chans EXCEPT ![e].sub = TRUE]
      /\ th' = [th EXCEPT !["dispatch"] =
           IF Recovering THEN [@ EXCEPT !.pc = "replay"] ELSE IdleThread]
      /\ UNCHANGED <<lifeVars, pub, budget, wins, cur, queue, seen, ack, ghostVars>>

\* A rejected subscribe tears down whatever window is there.
SubRefusedUnscoped ==
  /\ At("dispatch", "subscribe")
  /\ live # 0
  /\ DropWindow
  /\ th' = [th EXCEPT !["dispatch"] = IdleThread]
  /\ UNCHANGED <<sweeper, fenced, engineVars, pub, budget, wins, queue, seen, ack, ghostVars>>

\* engine.SubscribePriority fails: already subscribed, or the channel is
\* full.  The window goes, but only if this request installed it.
SubRefused ==
  /\ At("dispatch", "subscribe")
  /\ live # 0
  /\ IF th["dispatch"].win # 0 THEN DropWindow ELSE UNCHANGED <<cur, swept>>
  /\ th' = [th EXCEPT !["dispatch"] = IdleThread]
  /\ UNCHANGED <<sweeper, fenced, engineVars, pub, budget, wins, queue, seen, ack, ghostVars>>

\* engine.Recover for the subscribe's replay; an unserved gap replays nothing.
SubRecover ==
  LET r == th["dispatch"]
  IN  /\ At("dispatch", "replay")
      /\ th' = [th EXCEPT !["dispatch"] =
           IF RecoverOk(r.from, r.epoch)
           THEN [@ EXCEPT !.pc = "deliver", !.batch = RecoverItems(r.from, 0)]
           ELSE IdleThread]
      /\ UNCHANGED <<lifeVars, engineVars, pub, budget, wins, cur, queue, seen, ack, ghostVars>>

\* The replay goes through Consumer.Deliver, which looks the window up (only
\* the dispatch goroutine changes it) and ignores what the window defers.
SubReplay ==
  LET b == th["dispatch"].batch
  IN  /\ At("dispatch", "deliver")
      /\ IF b = <<>>
         THEN /\ th' = [th EXCEPT !["dispatch"] = IdleThread]
              /\ UNCHANGED <<wins, queue, silent>>
         ELSE /\ AdmitThrough(cur, Head(b))
              /\ th' = [th EXCEPT !["dispatch"].batch = Tail(b)]
      /\ UNCHANGED <<lifeVars, engineVars, pub, budget, cur, seen, ack, owed, given, lost>>

\* ops.go Unsubscribe: the engine first; a channel with history stays.
UnsubEngine ==
  /\ At("dispatch", "idle")
  /\ live # 0 /\ chans[live].sub
  /\ Len(wins) < MaxWindows
  /\ chans' = [chans EXCEPT ![live].sub = FALSE]
  /\ th' = [th EXCEPT !["dispatch"].pc = "unsubscribe"]
  /\ UNCHANGED <<lifeVars, live, newest, pub, budget, wins, cur, queue, seen, ack, ghostVars>>

\* ... then Consumer.Unsubscribe drops the window.
UnsubWindow ==
  /\ At("dispatch", "unsubscribe")
  /\ DropWindow
  /\ th' = [th EXCEPT !["dispatch"] = IdleThread]
  /\ UNCHANGED <<sweeper, fenced, engineVars, pub, budget, wins, queue, seen, ack, ghostVars>>

\* Consumer.Confirm: the window is looked up and trimmed, then pumped.
DispatchConfirm ==
  /\ At("dispatch", "idle")
  /\ ack # 0
  /\ ack' = 0
  /\ IF cur = 0
     THEN UNCHANGED <<wins, th>>
     ELSE /\ wins' = [wins EXCEPT ![cur] = Confirm(@, ack)]
          /\ th' = [th EXCEPT !["dispatch"] = [IdleThread EXCEPT !.pc = "point", !.win = cur]]
  /\ UNCHANGED <<lifeVars, engineVars, pub, budget, cur, queue, seen, ghostVars>>

-----------------------------------------------------------------------------
\* The redelivery tick and the pump.

\* Sweeper.run: the ticker fires and a registered consumer is called, without
\* the sweeper's lock.
SweepTick ==
  /\ sweeper.loop = "on"
  /\ At("tick", "idle")
  /\ swept
  /\ th' = [th EXCEPT !["tick"].pc = "called"]
  /\ UNCHANGED <<lifeVars, engineVars, pub, budget, wins, cur, queue, seen, ack, ghostVars>>

\* A tick that does not look at stopped.
TickStartUnfenced ==
  /\ At("tick", "called")
  /\ th' = [th EXCEPT !["tick"] =
       IF cur = 0 THEN IdleThread ELSE [IdleThread EXCEPT !.pc = "check", !.win = cur]]
  /\ UNCHANGED <<lifeVars, engineVars, pub, budget, wins, cur, queue, seen, ack, ghostVars>>

\* Consumer.Tick takes tickMu and, unless the consumer has no window or is
\* stopped, looks the channel's window up,
TickStart ==
  /\ At("tick", "called")
  /\ th' = [th EXCEPT !["tick"] =
       IF cur = 0 \/ fenced THEN IdleThread
       ELSE [IdleThread EXCEPT !.pc = "check", !.win = cur]]
  /\ UNCHANGED <<lifeVars, engineVars, pub, budget, wins, cur, queue, seen, ack, ghostVars>>

\* The tick pumps only when something timed out.
TickCheckLazy ==
  LET w == wins[th["tick"].win]
  IN  /\ At("tick", "check")
      /\ wins' = [wins EXCEPT ![th["tick"].win] = CheckRedelivery(@)]
      /\ given' = IF Poisoned(w) # 0
                  THEN given \union {[epoch |-> w.epoch, offset |-> Poisoned(w)]}
                  ELSE given
      /\ th' = [th EXCEPT !["tick"] =
           IF RedeliveryDue(w) THEN [@ EXCEPT !.pc = "point"] ELSE IdleThread]
      /\ UNCHANGED <<lifeVars, engineVars, pub, budget, cur, queue, seen, ack, owed, lost, silent>>

\* ... checks it for redelivery, and pumps it in any case.
TickCheck ==
  LET w == wins[th["tick"].win]
  IN  /\ At("tick", "check")
      /\ wins' = [wins EXCEPT ![th["tick"].win] = CheckRedelivery(@)]
      /\ given' = IF Poisoned(w) # 0
                  THEN given \union {[epoch |-> w.epoch, offset |-> Poisoned(w)]}
                  ELSE given
      /\ th' = [th EXCEPT !["tick"].pc = "point"]
      /\ UNCHANGED <<lifeVars, engineVars, pub, budget, cur, queue, seen, ack, owed, lost, silent>>

\* pump: Window.PumpPoint; a full or unpinned window has nothing to fetch.
PumpStart(t) ==
  LET p == PumpPoint(wins[th[t].win])
  IN  /\ At(t, "point")
      /\ th' = [th EXCEPT ![t] =
           IF p.room <= 0 \/ p.epoch = 0
           THEN IdleThread
           ELSE [@ EXCEPT !.pc = "fetch", !.from = p.from, !.epoch = p.epoch,
                          !.room = SmallerOf(p.room, PumpBatch)]]
      /\ UNCHANGED <<lifeVars, engineVars, pub, budget, wins, cur, queue, seen, ack, ghostVars>>

\* pump: RecoverN, from the snapshot PumpStart took.
PumpFetch(t) ==
  LET r == th[t]
      items == RecoverItems(r.from, r.room)
  IN  /\ At(t, "fetch")
      /\ th' = [th EXCEPT ![t] =
           IF ~RecoverOk(r.from, r.epoch) THEN [@ EXCEPT !.pc = "reset"]
           ELSE IF items = <<>> THEN IdleThread
           ELSE [@ EXCEPT !.pc = "admit", !.batch = items]]
      /\ UNCHANGED <<lifeVars, engineVars, pub, budget, wins, cur, queue, seen, ack, ghostVars>>

\* pump: the gap is unrecoverable, it is counted and the window reset.
PumpReset(t) ==
  /\ At(t, "reset")
  /\ lost' = TRUE
  /\ wins' = [wins EXCEPT ![th[t].win] = Reset(@)]
  /\ th' = [th EXCEPT ![t] = IdleThread]
  /\ UNCHANGED <<lifeVars, engineVars, pub, budget, cur, queue, seen, ack, owed, given, silent>>

\* pump: one item of the batch; Full and Refused end the pump, the end of
\* the batch starts the next iteration.
PumpAdmit(t) ==
  LET b == th[t].batch
  IN  /\ At(t, "admit")
      /\ AdmitThrough(th[t].win, Head(b))
      /\ th' = [th EXCEPT ![t] =
           IF VerdictOf(th[t].win, Head(b)) \in {"Full", "Refused"} THEN IdleThread
           ELSE IF Len(b) = 1 THEN [IdleThread EXCEPT !.pc = "point", !.win = th[t].win]
           ELSE [@ EXCEPT !.batch = Tail(b)]]
      /\ UNCHANGED <<lifeVars, engineVars, pub, budget, cur, seen, ack, owed, given, lost>>

\* The head of the current window outlives the redelivery timeout.
Age ==
  /\ cur # 0
  /\ wins[cur].inflight # <<>> /\ ~wins[cur].aged
  /\ wins' = [wins EXCEPT ![cur] = Aged(@)]
  /\ UNCHANGED <<lifeVars, engineVars, pub, budget, cur, th, queue, seen, ack, ghostVars>>

-----------------------------------------------------------------------------
\* The end of the session and of the server.

\* cleanupSession: Consumer.Stop fences the ticks,
SessionStop ==
  /\ Stopping
  /\ At("dispatch", "idle")
  /\ fenced' = TRUE
  /\ swept' = FALSE
  /\ th' = [th EXCEPT !["dispatch"].pc = "joining"]
  /\ UNCHANGED <<sweeper, engineVars, pub, budget, wins, cur, queue, seen, ack, ghostVars>>

\* ... and joins one that already runs by taking tickMu; the subscriptions
\* go after that.
SessionJoin ==
  /\ At("dispatch", "joining")
  /\ th["tick"].pc \in {"idle", "called"}
  /\ th' = [th EXCEPT !["dispatch"].pc = "ended"]
  /\ chans' = [e \in Epochs |-> [chans[e] EXCEPT !.sub = FALSE]]
  /\ UNCHANGED <<lifeVars, live, newest, pub, budget, wins, cur, queue, seen, ack, ghostVars>>

\* Sweeper.Stop closes the loop's stop channel,
SweeperStop ==
  /\ Stopping
  /\ ~sweeper.stopped
  /\ sweeper' = [sweeper EXCEPT !.stopped = TRUE]
  /\ UNCHANGED <<swept, fenced, engineVars, pub, budget, wins, cur, th, queue, seen, ack, ghostVars>>

\* ... and the loop ends between two rounds of ticks.
SweeperExit ==
  /\ sweeper.stopped /\ sweeper.loop = "on"
  /\ At("tick", "idle")
  /\ sweeper' = [sweeper EXCEPT !.loop = "gone"]
  /\ UNCHANGED <<swept, fenced, engineVars, pub, budget, wins, cur, th, queue, seen, ack, ghostVars>>

-----------------------------------------------------------------------------
\* The client: it reads its stream in order and may confirm what it read.

ClientRecv ==
  /\ queue # <<>>
  /\ seen' = seen \union {Head(queue)}
  /\ queue' = Tail(queue)
  /\ UNCHANGED <<lifeVars, engineVars, pub, budget, wins, cur, th, ack, ghostVars>>

ClientConfirm ==
  /\ Confirming
  /\ ack = 0
  /\ \E d \in seen : ack' = d.offset
  /\ UNCHANGED <<lifeVars, engineVars, pub, budget, wins, cur, th, queue, seen, ghostVars>>

-----------------------------------------------------------------------------
PubStep(p)  == PubAppend(p) \/ PubFan(p) \/ PubGate(p) \/ PubDeliver(p)
PumpStep(t) == PumpStart(t) \/ PumpFetch(t) \/ PumpReset(t) \/ PumpAdmit(t)
DispatchStep == SubEngine \/ SubRefused \/ SubRecover \/ SubReplay \/ UnsubWindow

Next ==
  \/ \E p \in Pubs : PubAcquire(p) \/ PubStep(p)
  \/ SubInstall \/ UnsubEngine \/ DispatchConfirm \/ DispatchStep
  \/ SweepTick \/ TickStart \/ TickCheck
  \/ \E t \in Threads : PumpStep(t)
  \/ Age \/ Expire \/ Reap
  \/ SessionStop \/ SessionJoin \/ SweeperStop \/ SweeperExit
  \/ ClientRecv \/ ClientConfirm

TickStep == SweepTick \/ TickStart \/ TickCheck \/ PumpStep("tick")

\* Goroutines that started a call finish it, the sweeper's ticker keeps
\* firing, time passes and a connected client keeps reading.  Publishes, reads
\* and timeouts are finitely many, so one condition is enough for them.  Nobody
\* has to publish, confirm or unsubscribe, and history need not expire.
Fairness ==
  /\ WF_vars((\E p \in Pubs : PubStep(p)) \/ ClientRecv \/ Age)
  /\ WF_vars(TickStep)

Spec     == Init /\ [][Next]_vars
FairSpec == Spec /\ Fairness

-----------------------------------------------------------------------------
PubStates    == {"idle", "append", "fan", "gate", "deliver"}
ThreadStates == {"idle", "subscribe", "replay", "deliver", "unsubscribe",
                 "joining", "ended", "called", "check", "point", "fetch", "reset", "admit"}

\* Every variable keeps its type and every index stays in range.
TypeOK ==
  /\ chans \in [Epochs -> [last : 0..MaxOffset, count : 0..HistCap, sub : BOOLEAN]]
  /\ live \in 0..newest /\ newest \in 0..MaxEpoch
  /\ \A p \in Pubs : pub[p].pc \in PubStates /\ pub[p].win \in 0..Len(wins)
  /\ cur \in 0..Len(wins) /\ Len(wins) <= MaxWindows
  /\ \A t \in Threads : th[t].pc \in ThreadStates /\ ToSet(th[t].batch) \subseteq Deliveries
  /\ Len(queue) <= QueueCap /\ Sent \subseteq Deliveries
  /\ owed \subseteq Deliveries /\ given \subseteq Deliveries

\* Between two requests of a session its channel has a window installed if
\* and only if the engine fans out to it, and only the registered incarnation
\* has subscribers (ops.go:119-139, 201-213; engine.go:793-803): no refused
\* subscribe, reap or unsubscribe leaves a subscription without its window or
\* a window without its subscription.  Within a request the window is there as
\* long as the subscription: "deliveries must never bypass the gate"
\* (ops.go:113-115).
WindowMatchesSubscription ==
  /\ At("dispatch", "idle") => (cur # 0 => live # 0 /\ chans[live].sub)
  /\ \A e \in Epochs : chans[e].sub => e = live /\ cur # 0

\* "No tick-driven pump can touch the transport afterward" (consumer.go:106):
\* once Consumer.Stop returned, no tick is past its fence, although the loop
\* may still hold the consumer it read before; and until then the sweeper has
\* the consumer exactly while it has a window to pump, its loop running.
SweeperFollowsSession ==
  /\ At("dispatch", "ended") => ~swept /\ th["tick"].pc \in {"idle", "called"}
  /\ swept => cur # 0 /\ ~fenced /\ sweeper.loop # "off"
  /\ (cur # 0 /\ ~fenced /\ ~sweeper.stopped) => swept

\* The stream has no silent hole: when a delivery was sent, every earlier
\* publication fanned out to the session was sent before it or dropped as
\* poison, whichever of the live path, the replay and the two pumps sent it,
\* unless a lost gap was counted (window.go:107-112, consumer.go:155-189).
GapFree ==
  lost \/ \A d \in Sent, e \in owed :
            (e.epoch = d.epoch /\ e.offset < d.offset) => e \in Sent \union given

\* "Dup: the offset was already delivered; drop silently" (window.go:22):
\* a fanned-out delivery judged Dup was handed to the transport before, as
\* long as no lost gap re-baselined the window.
DupMeansDelivered == silent => lost

\* Everything the current window counts as confirmed was read by the client
\* or dropped as poison (window.go:169-180): a confirm that arrives late,
\* twice, or while a rewind is being resent never acknowledges a delivery
\* still on its way.
ConfirmedWasReceived ==
  (cur # 0 /\ ~lost) =>
    \A o \in 1..wins[cur].confirmed :
      [epoch |-> wins[cur].epoch, offset |-> o] \in seen \union given

\* The offsets of incarnation e that history still holds, and whether it lacks
\* one of those above offset "from".
Retained(e)   == IF e = live THEN Oldest(chans[e]) .. chans[e].last ELSE {}
Gone(from, e) == e # live \/ ~((from + 1) .. chans[e].last \subseteq Retained(e))

\* A gap is counted only for a range that is gone: from the moment a pump finds
\* its range unserved until it resets the window, history lacks a publication
\* above the cursor the pump took before, or the whole incarnation
\* (consumer.go:165-173, history.go:63-77).  A pump that races publishers,
\* evictions, confirms, a reap and another pump, and works from a snapshot that
\* may be old, never gives up a range that was still retained.
LostRangeIsGone ==
  \A t \in Threads : At(t, "reset") => Gone(th[t].from, th[t].epoch)

\* At-least-once: a publication fanned out to a session that stays subscribed
\* is eventually handed to its transport, dropped as poison, or accounted for
\* by a lost gap, even when it was deferred by a full window, overtaken by a
\* later one or refused by a full send ring (consumer.go:133-142, 223-226).
OwedIsSent == []<>(lost \/ owed \subseteq Sent \union given)

\* "A delivery whose epoch differs from the baselined one is a recreated
\* channel" (window.go:80-83): a window never goes back to an incarnation
\* older than the one it is pinned to.
EpochNeverRegresses ==
  [][ \A i \in DOMAIN wins :
        (wins[i].baselined /\ wins'[i].baselined) => wins'[i].epoch >= wins[i].epoch ]_vars

\* "Reset drops the baseline after an unrecoverable gap" (window.go:149): at
\* the moment a window is reset, what follows its cursor cannot be recovered.
ResetOnlyOnGap ==
  [][ \A i \in DOMAIN wins :
        (wins[i].baselined /\ ~wins'[i].baselined)
          => ~RecoverOk(wins[i].delivered, wins[i].epoch) ]_vars
=============================================================================
