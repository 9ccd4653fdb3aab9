# Verification of gentis

gentis is a publish/subscribe server in Go. Clients open a stream (gRPC or
websocket), authenticate with a token, subscribe to channels or wildcard
patterns, publish, and, where a namespace offers it, receive with at-least-once
delivery: a credit window per subscription, cumulative confirms, redelivery and
recovery from a bounded history. A relay serves local clients the same way and
keeps one connection to an upstream server for all of them.

This directory holds TLA+ modules that model the parts of the program where
goroutines meet, the TLC configurations that check them on small instances, and
TLAPS proofs of what matters most about eight of them, for every value of their
constants. `PROJECT.json` maps every
definition to the source lines it stands for, and lists runs, mutants, hazards
and theorems. Paths below are relative to `src/internal/` unless they
start with `src/`.

## 1. Inventory

| Component | State it keeps | Operations | Meets others through |
|---|---|---|---|
| credit window `qos/window.go` | epoch, delivered and confirmed cursor, in-flight entries with sizes, attempts of the head | Admit, Baseline, Reset, Confirm, CheckRedelivery, PumpPoint | `Window.mu`; called by publishers, dispatch and the sweeper |
| consumer `qos/consumer.go` | windows by channel, stopped flag | Subscribe, Unsubscribe, Deliver, Confirm, pump, Tick, Stop | engine recovery, session's `produce` |
| sweeper `qos/sweeper.go` | registered consumers, tick goroutine | add, remove, run, Stop | calls `Consumer.Tick` |
| history `engine/history.go` | circular array, head, count, last offset | appendNext, replayN, sweep | publishers, recoveries, TTL sweeper |
| channel `engine/channel.go` | subscriber list, ranks and top cohort, refs, generation, recycled and pooled flags | Subscribe, Unsubscribe, priorities, Acquire, Release, recycle, returnToPool | lock-free readers, `sync.Pool` shared by all shards |
| engine `engine/engine.go`, `shard.go`, `subscription.go` | shard maps, reverse index, counters | Subscribe, SubscribePattern, Unsubscribe, UnsubscribeAll, Publish, Recover, sweeps and reaps | everything |
| pattern registry `engine/pattern.go`, `pattern/pattern.go` | patterns by subscriber, immutable snapshot, sharded match cache | add, remove, removeAll, subscribersFor; Match | publishers read it without a lock |
| namespaces `namespace/namespace.go` | settings by prefix | validate, Resolve, Prefix, Split | engine, consumer policy |
| fan-out pool `engine/fanout.go` | workers, job channel | submit, stop | Publish |
| GC pacer `engine/gcpacer.go` | memory target | periodic adjustment | Go runtime |
| send ring `ringbuf/pointerring.go` and sender `grpc/handler.go`, `grpc/session.go` | slots with sequence numbers, wake and drain tokens, pending batch | TryProduce, TryConsume, produce, send, runSender | publishers, dispatch, the stream |
| arena `arena/` | mmapped slots, bump pointer, free list | Alloc, Free, Close; slot reads and writes | one owner per slot, timers |
| session store `transport/transport.go` | generations, flat array, overflow map | AllocID, Register, Unregister, Deliver | publishers of every transport |
| servers `grpc/server.go`, `relay/relay.go`, `ws/server.go` | id counters, counts, arena | New, Start, createSession, cleanupSession, Stop | engine, store, arena |
| protocol `protocol/ops.go` | none (works on the session) | Connect, Refresh, Subscribe, Unsubscribe, Publish, Confirm, Ping | session state, engine, consumer, hooks |
| client and arena state `client/client.go`, `arena/state.go` | authentication, subject, subscriptions | Authenticate, AddSubscription, RemoveSubscription | dispatch loop, auth timer |
| relay upstream `relay/upstream.go` | stream, reference counts, recover points, pending acks, send channel | Subscribe, Unsubscribe, Publish, send and receive loops, reconnect | relay sessions, upstream server |
| relay data plane `relay/relay.go`, `relay/dedup.go`, `relay/router.go` | incoming channel, seen identities with their age, routes | enqueue, fan-out workers, Check, cleanup, Stop | upstream, engine |
| websocket session `ws/handler.go`, `ws/session.go` | bounded Go channel, protocol version, batch, write buffer, time of the last read | produce, send, runReader, runWriter, drainWrites, ping, close | net.Conn, store, dispatch |
| authentication, CLI, configuration, logging, metrics | none that changes while serving | - | - |

What is hard here, and what the properties are about:

* **Lock-free reading.** A publisher loads a channel, its subscriber list, the
  pattern snapshot and a cached match in separate steps while all of them
  change, and it keeps a channel object that may be dropped, pooled and reused.
* **Several paths to one window.** A delivery can reach the transport on the
  live path, in the replay of a subscribe, or in the pump of a confirm or of a
  tick. Each reads state, lets go of a lock and comes back.
* **Identities that are reused.** Channels have epochs, channel objects have
  generations, arena slots have generations, streams to the upstream are
  replaced. A stale holder must notice.
* **Timers and shutdown.** Expiry, auth deadline, redelivery, TTL sweep, idle
  reap and server stop run against the dispatch loop.
* **Bounds.** Full send ring, full window, full history, full arena, full
  upstream send channel.

## 2. Modules

    Names <- EngineRegistry <- MCEngineRegistry
    Sessions <- MCSessions
    Sessions <- SessionsProofs
    Window <- CreditWindow <- CreditWindowProofs
    Window <- AtLeastOnce <- AtLeastOnceProofs
    HistoryLog <~ History <- HistoryProofs
    BoundedFifo <~ SendRing <- SendRingProofs
    ChannelPool <- ChannelPoolProofs
    Upstream <- UpstreamProofs
    RelayData <- RelayDataProofs
    FanoutPool
    WsSession

(`<-` is EXTENDS, `<~` is a refinement stated with INSTANCE.)

`Window` holds the window's operations as operators on a record, so that the
module that checks and proves the window alone (`CreditWindow`) and the one that
composes it with everything that races for it (`AtLeastOnce`) use one
definition. `HistoryLog` and `BoundedFifo` say what the history and the send
ring promise; `History` and `SendRing` are the code's data structures, shown to
implement them.

Each module says in its head comment what one step stands for. As a rule it is
one critical section or one atomic operation, with what its goroutine does
privately before the next one. A definition placed just before another one and
named after it (`InsertBlind` before `Insert`) is a plausible wrong version
of it: `PROJECT.json` lists them as mutants, and each property is shown to be
violated by at least one.

### Window, CreditWindow

State: one window record (`w`), and ghosts for the current baseline, the number
of times each offset was handed to the transport and the offsets given up.
Actions are the calls: `AdmitCall` (with the transport's answer), `BaselineCall`,
`ResetCall`, `ConfirmCall` with any offset, `RedeliveryCall`; `TimePasses` lets
the head's timeout pass (the code compares clocks; only whether the head is
older than the timeout matters).

### AtLeastOnce

One channel, one session, all threads: publishers (`PubAcquire`, `PubAppend`,
`PubFan`, `PubGate`, `PubDeliver`), the dispatch goroutine (`SubInstall`,
`SubEngine`, `SubRefused`, `SubRecover`, `SubReplay`, `UnsubEngine`,
`UnsubWindow`, `DispatchConfirm`), the sweeper (`SweepTick`, `TickStart`, `TickCheck`), the
pump either of them runs (`PumpStart`, `PumpFetch`, `PumpReset`, `PumpAdmit`),
the history's eviction, expiry and reaping (`Reap`: drained, or with `IdleReap`
idle for longer than `idle_reap` whatever history still holds), the bounded send
ring and a client that reads and confirms. `ConsumerSubscribe` puts the consumer on the sweeper's
list and starts its loop, `DropWindow` takes it off; `SessionStop` and
`SessionJoin` are `Consumer.Stop`, which fences ticks and joins one that runs;
`SweeperStop` and `SweeperExit` are the end of the server. A window looked up
before it was replaced stays usable, as in the code.

### History, HistoryLog

The circular array with head, count and last offset, `AppendNext`, `Sweep` and
the two answers of `replayN`. `storedAt` stamps need not be ordered, because the
code takes them before the lock. `HistoryLog` is a log that forgets a prefix.

### ChannelPool

Every atomic operation of `NewChannel`, `Acquire`, `Release`, `recycleChannel`
and `returnToPool` on objects shared by two shards. The code has two windows in
which the protocol fails (section 6); ghosts record them, and the other
properties are checked outside them, so that a third one would be found.

### SendRing, BoundedFifo

Producers that give up (`produce`) or wait (`send`), the batching sender, the
wake and drain tokens, a stream that breaks and a session that is cancelled.

### Upstream

Reference counts, the bounded send channel, both loops, teardown, and the
reconnect goroutine with its resubscribe sweep. `streamMu` and `subsMu` are
functions of where the goroutines stand. The upstream server is external: what
this client can observe of it.

### RelayData

The way of one channel's publications through a relay. External, as this code
observes it: an upstream that numbers its publications, fans out, drops when its
buffer is full, restarts with a new epoch, and replays from history on a
subscribe with a recover point (`UpPublish`, `UpDeliver`, `StreamDies`,
`UpReplay`). The relay: `Receive` moves the recover point to the delivery that
arrived, `Hand` and `HandGivesUp` are the select of `enqueueUpstreamMessage`,
`Take`, `Look`, `Insert` and `Publish` a fan-out worker with the two locks of
`Deduplicator.Check`, `EntryLapses` and `Cleanup` the age of entries (fresh,
older than the TTL, deleted), `Resubscribe` the new stream, and `StopCancel`,
`StopUpstream`, `StopClose`, `StopWait` the order of `Server.Stop`. The
handshake of a new stream and the reference counts are `Upstream`'s. Hash
collisions of two identities are left out.

### FanoutPool

`parallelFanout` and its pool: `Begin` computes the chunks, `Submit` and
`SubmitSend` are the two halves of `submit` (the decision under the read lock,
the send with it still held), a refused chunk is delivered inline, chunk 0 by the
caller; `WorkerTake`, `WorkerDeliver`, `WorkerDone`, `WorkerExit` are the worker,
`HaltBegin`, `HaltSet`, `HaltClose`, `HaltWait` are `Engine.Stop` and
`fanoutPool.stop`. A waiting writer keeps new readers out (`LockWanted`), as Go's
RWMutex does. The code's jobs channel holds twice the number of workers; the
instance gives it one place, so that a submit meets it full.

### WsSession

One websocket session. Publishers look it up (`Look`) and hand over (`Produce`)
in two steps; the reader handles a request and waits for room for its reply
(`ReadConnect`, `ReadRequest`, `Reply`, `ReplyGivesUp`, `ReadFails`); the writer
collects frames (`WriterTake`, `BatchMore`, `BatchEnd`), flushes or fails, pings,
and closes. A Connect changes the protocol version while the writer batches. The
peer reads, or closed, or vanished, or keeps the connection up and reads nothing.
Encoding is left out: a frame is the sequence of messages it carries, and a
payload that cannot be encoded does not occur.

### Names, EngineRegistry

`Names` has the pure functions: star matching, namespace prefix and settings.
`EngineRegistry` has the shard maps, the reverse index, the patterns with their
snapshot generation and match cache, and the counters. Subscribers call
`Subscribe`/`SubscribeIndex`, `Unsubscribe`/`UnsubscribeIndex`,
`SubscribePattern`/`CountPattern`, `UnsubscribePattern`/`UncountPatterns`/
`ReapEmpty`, and `UnsubscribeAll`/`LeaveOne`/`RemoveAll`/`RemovePatterns`, each
slash a release of a lock. In a priority namespace the stores of the list and of
the cohort are two steps as well, `Subscribe`/`SubscribeRank` and
`Unsubscribe`/`Unrank` (`LeaveOne`/`Unrank`), with the shard still locked
(`Locked`): publishers that already hold the channel see what is in between. A publisher goes through `PubLookup`, `PubPeek`,
`PubSnapshot`, `PubCache`, `Materialize`, `Recheck`, `PubDrop`, `PubAppend`,
`PubCohort`, `PubDeliver`. The sweeper is `SweepScan` and `SweepReap`. Calls for one
subscriber are serial, which the engine demands of its transports
(`engine/engine.go:155-161`) and which they do by construction. What the fan-out
reaches is compared, at the end of a publish, with who was subscribed all the
while (`steadyExact`, `steadyTop` for those nobody outranked, `steadyPat`) or at
some moment (`present`). Left out: the
exclusion of the publisher's own identity, the shared wire frame, the shrinking
of the maps. Every channel is its own shard.

### Sessions

The life of a session on any of the transports. `Open`, `AllocPop`,
`AllocBump`, `AllocRollback`, `AllocRepop` and `Register` are `createSession`
with the arena's lock and bump pointer; `Serve` handles one request (`Connect`,
`Refresh`, `Subscribe`, `Unsubscribe` or one that changes nothing); `AuthFires`,
`AuthDeadline` and `ExpiryFires` are the timers, where a callback that has begun
outlives `Timer.Stop`; `CleanupUnregister`, `CleanupUnsubscribe`,
`CleanupUpstream`, `FreeMark`, `FreeClear` and `FreeAppend` are `cleanupSession`;
`PubLoad` and `PubDeliver` a publisher that holds identities across all of this;
`StopWs`, `StopCancel` and `StopArena` are `stopServe`. The gRPC server and the
relay have the same code twice; `Relay` adds the relay's hooks, and `Relayed`
stands for its router. The arena's generations are counted modulo `GenLimit`
(2^32 in the code), which has to exceed the number of sessions a publisher can
sleep through: the model assumes it and the code relies on it.

## 3. Runs

All passing runs check every reachable state of their instance. Deadlock
checking is off where the bounded environment may simply fall silent;
`credit_window` has it on.

| Run | Instance | What it shows |
|---|---|---|
| `credit_window` | count 2, bytes 3 with payloads of 1 and 4, one resend, offsets to 4, two epochs | `Contiguous`, `CreditRespected` (with the byte total), `ConfirmCoversSent`, `PoisonedAfterBudget`, `ConfirmedNeverRegresses` |
| `at_least_once` | 2 publishers, 2 publishes after 1, history 2, credit 1, send ring 1, fair | `GapFree`, `DupMeansDelivered`, `ConfirmedWasReceived`, `OwedIsSent` |
| `at_least_once_churn` | 1 publisher, 2 incarnations of the channel, 2 windows, history 2 filled by 2 earlier publications, TTL and `idle_reap`, no redelivery timeout, the session's and the sweeper's end | `WindowMatchesSubscription`, `SweeperFollowsSession`, `LostRangeIsGone` |
| `channel_pool` | 2 objects, 2 shards, 2 readers, 3 channels | `ReaderKeepsItsChannel`, `LiveChannelIsOwned` (and pooled once), `NoLeak` |
| `history` | ring of 3, 7 publishes, 2 payloads, 3 stamps | `ReplayIsExact`, `ImplementsLog` |
| `send_ring` | ring of 2, a publisher and the dispatch goroutine, 2 messages each, batches of 2 | `ImplementsFifo`, `SentInClaimOrder`, `RefusedOnlyWhenFull`, `AcceptedIsSent`, `SendReturns` |
| `upstream` | 1 channel, 2 sessions with 2 calls each, 3 streams, buffer 2 | `SettledCovers`, `OnlyDeadStreamsDropped` |
| `relay_data` | 2 workers, buffer 1, history 1, 2 publications, 2 epochs, 2 outages, 1 expired entry, fair | `OncePerTtl`, `SuppressedWasPublished`, `StopDrains`, `OutageIsRecovered` |
| `engine_registry` | 2 subscribers, 3 calls, 2 publishes, a broadcast, a priority and a round-robin channel, 2 patterns | `IndexAgrees` (and no drained channel), `PublishReaches`, `CachedMatchIsExact` |
| `fanout_pool` | 2 publishers, 2 workers, lists of 1 and 3, threshold 2, jobs channel of 1, fair | `FanoutExact`, `PublishReturns` |
| `sessions` | 2 streams and a websocket for 2 sessions, 1 slot, 3 requests, 2 subjects, 2 channels (one relayed), 1 publish | `IdentityIsItsOwn`, `DeliveredToItsSession` (and live is reachable), `SlotsAccounted` (and quiescent before unmapping), `BooksBalance`, `ClosesInTime` |
| `ws_session` | 2 publishers with 2 deliveries, 3 requests, queue of 2, batches of 2, passes of 2 frames, idle limit 2, fair | `FramesFaithful`, `SessionEnds` |

Why the bounds are enough to be interesting:

* The window run has a payload larger than the byte limit, more offsets than
  credit, and an epoch change, so that each branch of `Admit`, `Confirm` and
  `CheckRedelivery` is taken. The proofs remove its bounds.
* In `at_least_once` the history holds both publications after the first, so that
  nothing excuses an unsent one; in `at_least_once_churn` it holds two, is full
  from the start and expires: a pump meets an offset that is still retained, the
  oldest one retained included, while a publish evicts, and one that is gone; the
  redelivery timeout is left to `at_least_once`. With a send ring of one, the
  transport refuses. Two incarnations are needed for a stale epoch, two windows for a
  window that outlives its subscription.
* The ring of three wraps twice, so head, oldest and count meet at every residue.
* A ring of two with two producers has a claimed but unpublished slot in front of
  a published one, and a full ring.
* Three streams let a failure hit a reconnect that is still finishing; the last
  stream does not fail, so that the run ends.
* In `relay_data` two publications, a history of one and two outages give a live
  delivery that overtakes its replay, an evicted gap and a restart; two workers
  check the two copies of one identity at once.
* A list of three over two workers has chunks of two and one; a list of one stays
  below the threshold. The stop can come before, between and after the submits.
* Three requests in `ws_session` are a connect, a subscribe and a reply that
  meets the full queue or ends a batch; the code's idle limit of three intervals
  differs from two only in how often nothing happens.
* In `engine_registry` three calls are a pattern subscribe, an unsubscribe and
  one call of the other subscriber, and two publishes let the second find what
  the first one cached. The default namespace admits wildcards and its pattern
  `*` matches, by its text, the two exclusive channels.
* One slot for two streams makes the second overflow to the heap, or wait in the
  middle of its allocation until the first one frees the slot. Three requests
  are a connect, a subscribe and an unsubscribe, or a second subscribe that the
  slot has no room for.

`TypeOK` is defined in the other modules too, as a statement of what the
variables hold; it is true of the same instances and is not part of their runs,
which are kept to what could be wrong.

## 4. Fairness

* `AtLeastOnce`: a publish that began goes on, the sweeper ticks, time passes, and
  a connected client reads. Nobody has to publish, confirm or unsubscribe, and
  the dispatch goroutine may stop anywhere: a subscribe that hangs in its replay
  does not keep the tick from sending what is owed.
* `SendRing`: producers and the sender run; `stream.Send` returns, because flow
  control gives way or the stream breaks. The publisher is not obliged to
  produce. `SendReturns` needs the publisher's finite budget: publishers that
  keep the ring full for ever can starve a blocked `send`.
* `Upstream`: goroutines run, and a dial that can be tried again and again
  succeeds at last (strong fairness of `DialOk`): the upstream does not refuse
  for ever. The refutation of `StreamComesBack` holds in spite of that.
* `RelayData`: workers, receive loop and Stop run, the upstream finishes what it
  started and the reconnect gets through in the end (whether it is always tried
  is `StreamComesBack` of `Upstream`). Nobody has to publish, fail or stop.
* `FanoutPool`: publishers that began, workers and a stop that began run;
  deliveries return.
* `WsSession`: reader and writer run and time passes. The writer's ping and
  `ctx.Done` get strong fairness: they are cases of a select whose choice among
  ready cases is random, so a busy send channel cannot keep them out for ever,
  and a drain ends after `maxDrainFrames` frames.
* `Sessions`: as long as a handler, a timer or `Stop` can take a step, one of
  them does. That is weaker than fairness for each goroutine and is enough
  because a session has finitely many such steps. The handler leaves its loop
  when its context is cancelled although the client may keep sending: the
  receiving goroutine selects between handing over the next message and the
  cancelled context, and Go chooses at random among ready cases. An auth
  deadline is taken to be configured.

## 5. Proofs

Proved by TLAPS for every value of the constants allowed by the modules'
assumptions:

* `CreditWindowProofs`: `WindowInvariant` (`Spec => []IInv`) and from it
  `WindowTypeCorrect`, `WindowIsContiguous`, `ConfirmNeverOvertakesSend`,
  `PoisonNeedsBudget` and, with `StepKeepsConfirmed`, the action property
  `ConfirmedIsMonotonic`. Assumptions: `WindowAssumption` of `Window` and the
  bounds' types in `CreditWindow`.
  The invariant has to say more than the properties. A confirm moves the
  confirmed cursor over entries in flight, so what is in flight must have been
  sent as well (`InflightSent`), which names the right offsets only because the
  entries are contiguous (`Contiguous`) and a window without a baseline is empty
  (`UnpinnedIsEmpty`). That a message is given up only after its own budget
  needs the attempts counter to be paid for by sends of the offset it is kept
  for (`AttemptsPaid`). There is one lemma per action; `Admit` has one for a
  delivery of the window's epoch and one for a re-baseline.
* `HistoryProofs`: `HistoryInvariant`, `HistoryTypeCorrect`, `ReplayCorrect` and
  the refinement `RingImplementsLog` (`Spec => Log!Spec`). The invariant
  (`RingHolds`) puts offset `o` into slot `(o - 1) % Cap` while it is retained.
  The provers know no modular arithmetic beyond division with remainder, so the
  module proves what it needs: uniqueness of quotient and remainder,
  `ModPlus`, `ModWrap`, and that residues of different retained offsets differ.
* `AtLeastOnceProofs`: `DeliveryInvariant` and from it
  `WindowMatchesSubscriptionHolds`, `SweeperFollowsSessionHolds` and
  `LostRangeIsGoneHolds`, for any number of publishers, windows and channel
  incarnations, any limits and any history. Three arguments carry
  them. `Session` says how far the request in progress has come: a subscribe
  that installed a window finds no subscription, one that did not finds the
  subscription that is there, and that is why a refused subscribe may tear down
  a window only if it installed it; `Fence` ties the fence to the state of
  the session's end. `LostRangeIsGone` needs that a pump asks
  only for what exists: every window stays at or behind the history of the
  incarnation it is pinned to (`Follows`), also after it was replaced, and
  whatever a publisher or a pump has read and not yet used stays reached
  (`GoodPub`, `GoodThread`), since a history only grows (`Grown`). A `RecoverN`
  that refuses a reached cursor then means that the publication after it, or the
  incarnation, is gone (`UnservedIsGone`). Between that answer and the reset
  anybody may move: the first and the last retained offset only go up and a
  reaped incarnation never comes back (`Onwards`), so the range stays gone
  (`GoneStays`), and only a refused fetch leads to a reset (`RefusedByFetch`);
  `Refused` is the invariant. The
  operations of `Window` have a lemma each (`AdmitSane`, `ConfirmSane`,
  `CheckSane`, ...): entries in flight are the range between the two cursors, and
  a confirm cuts off exactly what it covers (`TrimmedCount`). The byte counter is
  left without a type, because its value is a sum.

  The promises to the client, `GapFree`, `DupMeansDelivered` and
  `ConfirmedWasReceived`, are proved on top of that for a client that brings its
  recover point (`Recovering`) and a channel that is not recreated
  (`MaxEpoch = 1`); TLC refutes each of them without one of the two (section 6).
  `DupMeansDeliveredHolds` then needs nothing more: `Caught` says that no window,
  current or replaced, is past a publication that was neither handed to the
  transport nor given up. `GapFreeHolds` and `ConfirmedWasReceivedHolds` have the
  hypothesis `[]Gated`: a publisher that looks for its window after an
  unsubscribe removed it delivers around the gate, and TLC has the gap that
  makes (section 6). `OneSubscriptionIsGated` proves that this needs an
  unsubscribe, so `OneSubscriptionInOrder` has the two promises for a session
  that subscribes once without that hypothesis. Their invariant is `InOrder`:
  every entry of the send ring has everything before it in the ring ahead of it,
  with the client, or given up; what the client holds is closed downwards in the
  same sense, and therefore so is what it confirms. A rewind resends a range and
  a confirm for it may arrive at any time, so the statement is about the order
  in the ring and not about the window's cursor.
* `ChannelPoolProofs`: `ReaderKeepsItsChannelHolds`, `LiveChannelIsOwnedHolds` and
  `NoLeakHolds`, for any number of objects, shards and readers (`Readers` finite,
  so that they can be counted). As in the run, the properties hold outside the
  two windows of section 6, and so does the invariant: it is the reference count
  as a cardinality (`RefsCounted`), what each phase of a return may assume of the
  object (`MarkAlone`, `ReturnDropped`, `ClearAlone`, `InitAlone`: a thread with
  the current generation meets a dropped object nobody holds, one with an old
  generation can do nothing), the pool (`PooledOnce`), and who is responsible
  for returning an object that left its map (`Cared`), which is what a leak
  would break.
* `SendRingProofs`: `RingInvariant`, `TypeCorrect`, `SentInClaimOrderHolds`,
  `RefusedOnlyWhenFullHolds` and the refinement `RingImplementsFifo`, for every
  capacity of at least 2 (`NewPointer` refuses less), every batch size and any
  number of producers. `Laps` says that each slot's sequence number is that of
  the one position of the current window it serves, free or filled; `Sound` what
  a producer between two atomic operations still knows (a stale cursor is never
  ahead, so the CAS fails when it is behind); `NothingLost` that consumed
  messages are sent, pending or in hand, in this order. `Outstanding` of the
  refinement is the slice of the claims from tail to head.
* `UpstreamProofs`: `SettledCoversHolds` and the action property
  `OnlyDeadStreamsDroppedHolds`, for any number of sessions, channels, streams
  and any send buffer. `AllCovered` follows each referenced channel
  through the resubscribe sweep, a caller that has not queued its message yet,
  the queue, the send loop's hands and the server, with no unsubscribe behind
  it; it needs `CallerAlone` (what `subsMu` protects), `AuthComing` (the connect is
  ahead of the subscribes) and `TeardownAlone`.
* `RelayDataProofs`: `TypeCorrect`, `OncePerTtlHolds`,
  `SuppressedWasPublishedHolds` and `StopDrainsHolds`, for any finite non-empty
  set of workers and any buffer, history, outages and lapses. `SeenOnce` relates
  an entry to the publications and to the workers about to publish; `Conserved`
  and `PlainCounted` account for every accepted message, the ones without an
  identity by counting; `ShutDown` is the order of `Server.Stop`.
* `SessionsProofs`: `SessionInvariant` and from it `IdentityIsItsOwnHolds`,
  `DeliveredToItsSessionHolds`, `SlotsAccountedHolds` and `BooksBalanceHolds`, for
  any finite number of streams and websocket connections, any arena (none
  included), channels, tokens, limits and publishers, a relay or a server.
  Assumed of the constants (`SessionsAssumption`): fewer streams in the life of
  the process than the generation counter counts (2^32) and than there is room
  below the websocket range.
  `Placed` puts every slot with one session, on the free list once, or above the
  bump pointer, and lets the pointer pass the end by exactly the number of
  allocations that are about to take their bump back; without that count a
  rollback racing another bump could not be told from a lost slot.
  `Identified` bounds every generation and counter by the sessions named so far,
  which keeps the three ranges of identities apart and a generation from coming
  back; `Stored` is what the store holds under them, and `Addressed` that a
  publisher never asks for a slot without a generation. `Wiped` says that memory
  nobody registered with is clean: it is the reason a session that takes over a
  slot starts unauthenticated. `Books`, `Listening`, `RefsCounted` and
  `ConnsCounted` are the accounts; that a full slot never drops a channel the
  engine has subscribed is `LimitFits`, from the clamp of the configured limit.

Besides the named lemmas the modules use the library's theorems on sequences
and finite sets.

Only model-checked, and why:

* `CreditRespected` and `FanoutExact`: a sum over a sequence and the chunks of a
  list; what a fold computes for every input needs induction over data.
* `GapFree`, `DupMeansDelivered` and `ConfirmedWasReceived` outside the conditions
  above, where they are false.
* `IndexAgrees`, `PublishReaches` and `CachedMatchIsExact`: not attempted.
* `FramesFaithful`: it compares the concatenation of all frames with what entered
  the channel, and what a concatenation of sequences (a fold) returns for every
  input needs induction over data.
* What `Match` computes (`MatchIsGlob`, an assumption of `MCEngineRegistry` that
  TLC evaluates over all patterns and names up to four characters).
* All liveness.

## 6. Where the code does not keep a promise

Statements of what a comment promises, kept in the modules and refuted by TLC
with the constants given. They are not among the runs; the runs' properties are
stated so that they hold beside them, and the exceptions are named there.

* `StaleReturnIsNoOp` (`ChannelPool`; one object, one shard, one reader,
  MaxGen = 2): `returnToPool` checks the generation and swaps `pooled` in two
  steps (`engine/channel.go:101`, `104`). A caller preempted between them clears a
  channel that was pooled and reused meanwhile, where `engine/channel.go:84` says
  that "the stale generation will cause it to no-op instead of clearing a live
  channel".
* `StreamComesBack` (`Upstream`; `FairSpec`, one channel, one client, SendCap = 1,
  Auth = FALSE, MaxRetries = 0, MaxStreams = 3, MaxCalls = 0, MaxMsgs = 0): a
  stream that dies before the reconnect that opened it has reset its flag is
  never replaced (`relay/upstream.go:378`), where `relay/upstream.go:298` says
  that a server-side close is "a disconnect to recover from".
* `OutageIsRecovered` (`RelayData`) without `~serial`: the recover point is the
  last delivery received (`relay/upstream.go:343`); of two overlapping publishes
  the later may arrive first, and an outage then skips the earlier. Without
  `outages > 1`: a live delivery overtakes the replay and the stream fails
  before the replay comes.
* `SessionEnds` (`WsSession`) without the stalled peer: the close frame is written
  without a deadline (`ws/handler.go:360`), so a peer that stops reading with its
  buffers full keeps a cancelled session's writer, and with it the reader.
* By reading only: a fan-out threshold of zero with several workers and an empty
  subscriber list divides by zero (`engine/fanout.go:141`).
* `StandbyTakesOver` (`EngineRegistry`; as `engine_registry`): a publisher loads
  a priority channel's cohort without the lock (`engine/engine.go:580`), before or
  while the only member of the top rank unsubscribes (`engine/engine.go:435`,
  `440`), and delivers to the leaver alone. The standby subscriber, subscribed
  throughout, gets nothing, where `namespace/namespace.go:40-41` says that lower
  cohorts "take over on disconnect"; they do for publishes that load the cohort
  later. `PublishReaches` promises a priority channel's subscriber a message only
  if nobody outranked it during the publish.
* `ResetOnlyOnGap` (`AtLeastOnce`; as `at_least_once_churn`): a pump resets a
  window that a delivery of the new epoch has rebased since the pump's snapshot
  (`qos/consumer.go:157`).
* `EpochNeverRegresses` (`AtLeastOnce`; as `at_least_once_churn` with
  Recovering = FALSE and two publishers with two publishes): a late delivery of a
  reaped channel takes the window back to the old epoch (`qos/window.go:97`).
* `GapFree` and `ConfirmedWasReceived` (`AtLeastOnce`; as `at_least_once` with
  MaxWindows = 2): a publisher
  that was fanned out to the session and looks for the window after an
  unsubscribe took it away hands its delivery to the transport directly
  (`qos/consumer.go:136`), ahead of an earlier one that is still deferred. A
  subscribe installs its window first because "deliveries must never bypass the
  gate" (`protocol/ops.go:114`); an unsubscribe cannot order its steps so that
  none does.
* `DupMeansDelivered`, `GapFree` and `ConfirmedWasReceived` with Recovering = FALSE:
  without a recover point the first delivery seen pins the window, and an earlier
  one that arrives later is a Dup that was never sent (`qos/window.go:92`). The
  same happens with a recover point of an incarnation that was reaped since
  (MaxEpoch = 2, Ttl = TRUE): the first delivery of the new one re-baselines the
  window (`qos/window.go:97`). Otherwise they hold, and that is what the run
  checks and the theorems say.
* `ReadersComplete` (`ChannelPool`): the second window, in which a `Release`
  that read its decrement sees `recycled` set on a channel acquired again
  (`engine/channel.go:136`).
* `CallersNotWedged` (`Upstream`; 2 channels, SendCap = 1): the resubscribe sweep
  fills the send channel while it holds the locks the send loop needs
  (`relay/upstream.go:261`).
* `RecoverPointsAreSubscribed` and `PendingMeansRecover` (`Upstream`): two
  unlocked steps of the receive loop (`relay/upstream.go:342`, `350`).
* `SlotNotReadLate` (`Sessions`): the auth timer's callback may read a slot after
  it was freed (`grpc/session.go:260`).

## 7. Not modelled

* The dispatch loop's receiving goroutine (its effect is a fairness assumption of
  `Sessions`), and the dial of the upstream other than as success or failure.
* The GC pacer: a feedback loop over memory statistics that nothing else reads.
* JSON and protobuf encoding, the shared wire frame, and the message pools: a
  pooled message has one owner at a time, handed over through the ring or
  channel that is modelled.
* Exclusion of a publisher's own identity outside `FanoutPool`.
* Token verification, YAML and flags, logging and metrics: no state shared
  between goroutines.
* String lengths: a subject longer than an arena slot's field is cut off by the
  code (`arena/session.go:23`); subjects are model values here.

## 8. Plan

In order, with what is done marked:

1. [done] `Window`, `CreditWindow`, `History`: the data structures at-least-once
   delivery rests on, with proofs.
2. [done] `AtLeastOnce`: their composition with the threads that race for them,
   with the sweeper and the session's end.
3. [done] `ChannelPool`, `SendRing`, `Upstream`: reuse, lock-free ring, reconnect.
4. [done] `EngineRegistry`, `Names`, `Sessions`: registries and session life.
5. [done] `RelayData`, `FanoutPool`, `WsSession`: the relay's data plane and
   deduplicator, parallel fan-out and its stop, the websocket session.
6. Proofs. [done] `RelayData`, `ChannelPool`, `Upstream`, `SendRing` with its
   refinement, `Sessions`, and `AtLeastOnce` with its promises to the client.
   Left: `IndexAgrees` of `EngineRegistry`.
7. `StreamLoop`: the dispatch loop and its receiving goroutine, which would
   replace the fairness assumption of `Sessions`.
