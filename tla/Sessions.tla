------------------------------ MODULE Sessions ------------------------------
(***************************************************************************)
(* The life of a session, from the stream that opens it to the slot it     *)
(* gives back: createSession, the dispatch loop and the timers,            *)
(* cleanupSession and the server's Stop                                    *)
(* (src/internal/grpc, src/internal/relay, src/internal/ws), the arena its *)
(* state lives in (src/internal/arena), the store that finds it by its     *)
(* identity (src/internal/transport) and the requests that change its      *)
(* state (src/internal/protocol/ops.go).                                   *)
(*                                                                         *)
(* A session is named by its connection.  What dispatch does for one       *)
(* request is one step: nobody else writes what it writes.  The engine is  *)
(* a set of subscriber identities per channel; EngineRegistry opens it up. *)
(***************************************************************************)
EXTENDS Naturals, Sequences, FiniteSets, SequencesExt

CONSTANTS
  Conns,             \* streams to the gRPC server or the relay
  WsConns,           \* websocket connections
  NoConn,            \* no connection
  Pubs,              \* publishing goroutines
  Chans,             \* channels
  Tokens,            \* verified claims: [subject, chans, expires]
  NoSubject,         \* the subject of a session that never connected
  MaxSlots,          \* arena capacity, 0 = no arena
  SlotCap,           \* arena.MaxSubscriptions
  MaxSubscriptions,  \* configured limit, 0 = none
  GenLimit,          \* generations are counted modulo this (2^32 in the code)
  WsOffset,          \* wsIDOffset
  Relay,             \* is the server a relay?
  Relayed,           \* channels its router sends to the upstream
  MaxOpens,          \* bound: sessions opened
  MaxOps,            \* bound: requests that change something
  MaxPubs            \* bound: publishes

ASSUME SessionsAssumption ==
  /\ Conns \intersect WsConns = {} /\ NoConn \notin Conns \union WsConns
  /\ IsFiniteSet(Conns) /\ IsFiniteSet(WsConns)
  /\ MaxSlots \in Nat /\ SlotCap \in Nat \ {0} /\ MaxSubscriptions \in Nat
  /\ GenLimit \in Nat /\ GenLimit > Cardinality(Conns) + 1
  /\ WsOffset \in Nat /\ WsOffset > MaxSlots + Cardinality(Conns)
  /\ \A t \in Tokens : t.subject # NoSubject /\ t.chans \subseteq Chans
  /\ Relay \in BOOLEAN /\ Relayed \subseteq Chans /\ MaxOpens \in Nat /\ MaxOps \in Nat /\ MaxPubs \in Nat

All   == Conns \union WsConns
Slots == 1 .. MaxSlots

VARIABLES
  sess,      \* connection -> its Session
  heap,      \* connection -> client.State, for a session without a slot
  slots,     \* arena memory: slot -> SessionSlot
  arena,     \* offset, free list and membership guard
  gen,       \* slot -> SessionStore.gen
  arr,       \* slot -> SessionStore.arr
  overflow,  \* SessionStore.overflow
  nextID,    \* counters of the two servers
  engine,    \* channel -> subscribed identities
  refs,      \* channel -> Upstream reference count
  count,     \* connectionCount of the two servers
  pub,       \* publisher -> identities still to be served
  stop,      \* how far stopServe got
  budget,    \* sessions, requests and publishes that may still come
  who,       \* ghost: connection -> the subject it first connected as
  stray,     \* ghost: did a delivery reach a session of another identity?
  late       \* ghost: was a slot read through a closed ArenaState?

vars == <<sess, heap, slots, arena, gen, arr, overflow, nextID, engine, refs, count,
          pub, stop, budget, who, stray, late>>

storeVars == <<gen, arr, overflow, nextID, count>>
busVars   == <<engine, refs>>
envVars   == <<pub, stop, budget>>
ghosts    == <<who, stray, late>>

Clean   == [auth |-> FALSE, subject |-> NoSubject, subs |-> {}]
NoId    == [n |-> 0, gen |-> 0]
NoEntry == [gen |-> 0, conn |-> NoConn]
Fresh   == [pc |-> "new", slot |-> 0, id |-> NoId, done |-> FALSE,
            authTimer |-> "off", expiry |-> "off",
            allow |-> Chans, up |-> {}]

\* ... above the arena's when there is one.
FirstID == MaxSlots

Init ==
  /\ sess = [c \in All |-> Fresh]
  /\ heap = [c \in All |-> Clean]
  /\ slots = [i \in Slots |-> Clean]
  /\ arena = [offset |-> 0, free |-> <<>>, inFree |-> {}]
  /\ gen = [i \in Slots |-> 0]
  /\ arr = [i \in Slots |-> NoEntry]
  /\ overflow = {}
  /\ nextID = [grpc |-> FirstID, ws |-> WsOffset]
  /\ engine = [ch \in Chans |-> {}]
  /\ refs = [ch \in Chans |-> 0]
  /\ count = [grpc |-> 0, ws |-> 0]
  /\ pub = [p \in Pubs |-> {}]
  /\ stop = "running"
  /\ budget = [opens |-> MaxOpens, ops |-> MaxOps, pubs |-> MaxPubs]
  /\ who = [c \in All |-> NoSubject]
  /\ stray = FALSE /\ late = FALSE

At(c, pc)     == sess[c].pc = pc
Goto(c, pc)   == sess' = [sess EXCEPT ![c].pc = pc]
Server(c)     == IF c \in Conns THEN "grpc" ELSE "ws"
Hooked(c)     == Relay /\ c \in Conns
Serving(c)    == sess[c].pc = "serve"

\* The session's context: its own cancel, or its server's.
Cancelled(c) ==
  \/ sess[c].done
  \/ IF c \in Conns THEN stop \notin {"running", "wsDown"} ELSE stop # "running"

\* ArenaState reads its slot, whoever owns that by now; client.State is the
\* session's own.
State(c) == IF sess[c].slot = 0 THEN heap[c] ELSE slots[sess[c].slot]

WriteState(c, st) ==
  IF sess[c].slot = 0
  THEN heap' = [heap EXCEPT ![c] = st] /\ UNCHANGED slots
  ELSE slots' = [slots EXCEPT ![sess[c].slot] = st] /\ UNCHANGED heap

-----------------------------------------------------------------------------
\* Arena: Alloc, in the steps of its lock and its bump pointer.

Another == budget.opens > 0 /\ budget' = [budget EXCEPT !.opens = @ - 1]

\* A stream is accepted until GracefulStop begins.
Open(c) ==
  /\ At(c, "new")
  /\ stop \in {"running", "wsDown"}
  /\ Another
  /\ Goto(c, IF MaxSlots = 0 THEN "register" ELSE "pop")
  /\ UNCHANGED <<heap, slots, arena, storeVars, busVars, pub, stop, ghosts>>

\* The slot stays on the list.
PopFreePeek(c) ==
  /\ sess' = [sess EXCEPT ![c].slot = Last(arena.free), ![c].pc = "register"]
  /\ arena' = [arena EXCEPT !.inFree = @ \ {Last(arena.free)}]

PopFree(c) ==
  /\ sess' = [sess EXCEPT ![c].slot = Last(arena.free), ![c].pc = "register"]
  /\ arena' = [arena EXCEPT !.free = Front(@), !.inFree = @ \ {Last(arena.free)}]

AllocPop(c) ==
  /\ At(c, "pop")
  /\ IF arena.free # <<>> THEN PopFree(c) ELSE Goto(c, "bump") /\ UNCHANGED arena
  /\ UNCHANGED <<heap, slots, storeVars, busVars, envVars, ghosts>>

\* offset.Add(1): a slot, or one past the end.
AllocBump(c) ==
  /\ At(c, "bump")
  /\ arena' = [arena EXCEPT !.offset = @ + 1]
  /\ sess' = IF arena.offset < MaxSlots
             THEN [sess EXCEPT ![c].slot = arena.offset + 1, ![c].pc = "register"]
             ELSE [sess EXCEPT ![c].pc = "rollback"]
  /\ UNCHANGED <<heap, slots, storeVars, busVars, envVars, ghosts>>

AllocRollback(c) ==
  /\ At(c, "rollback")
  /\ arena' = [arena EXCEPT !.offset = @ - 1]
  /\ Goto(c, "repop")
  /\ UNCHANGED <<heap, slots, storeVars, busVars, envVars, ghosts>>

\* The free list again; ErrFull leaves the session to the heap.
AllocRepop(c) ==
  /\ At(c, "repop")
  /\ IF arena.free # <<>> THEN PopFree(c) ELSE Goto(c, "register") /\ UNCHANGED arena
  /\ UNCHANGED <<heap, slots, storeVars, busVars, envVars, ghosts>>

-----------------------------------------------------------------------------
\* SessionStore.

Flat(id) == id.n \in Slots

\* AllocID skips generation zero.
NextGen(i) == IF (gen[i] + 1) % GenLimit = 0 THEN 1 ELSE (gen[i] + 1) % GenLimit

\* The entry serves whatever generation asks.
LookupUnchecked(id) ==
  IF Flat(id) THEN arr[id.n].conn
  ELSE IF \E e \in overflow : e.id = id
       THEN (CHOOSE e \in overflow : e.id = id).conn ELSE NoConn

\* Deliver: the sender registered under this identity, if there is one.
Lookup(id) ==
  IF Flat(id)
  THEN IF id.gen = 0 \/ id.gen = arr[id.n].gen THEN arr[id.n].conn ELSE NoConn
  ELSE IF \E e \in overflow : e.id = id
       THEN (CHOOSE e \in overflow : e.id = id).conn ELSE NoConn

StoreRegister(id, c) ==
  IF Flat(id)
  THEN arr' = [arr EXCEPT ![id.n] = [gen |-> id.gen, conn |-> c]] /\ UNCHANGED overflow
  ELSE overflow' = { e \in overflow : e.id # id } \union {[id |-> id, conn |-> c]}
       /\ UNCHANGED arr

StoreUnregister(id) ==
  IF Flat(id)
  THEN arr' = [arr EXCEPT ![id.n] = NoEntry] /\ UNCHANGED overflow
  ELSE overflow' = { e \in overflow : e.id # id } /\ UNCHANGED arr

-----------------------------------------------------------------------------
\* The rest of createSession: the identity, the auth timer, the registration.

\* The identity the counter or the arena gives, stamped by AllocID.
Identify(n) == [n |-> n, gen |-> IF n \in Slots THEN NextGen(n) ELSE 0]

Registered(c, id) ==
  /\ sess' = [sess EXCEPT ![c].id = id, ![c].authTimer = "armed", ![c].pc = "serve"]
  /\ gen' = IF Flat(id) THEN [gen EXCEPT ![id.n] = id.gen] ELSE gen
  /\ count' = [count EXCEPT ![Server(c)] = @ + 1]
  /\ StoreRegister(id, c)

Register(c) ==
  LET n == IF sess[c].slot = 0 THEN nextID.grpc + 1 ELSE sess[c].slot
  IN  /\ At(c, "register")
      /\ nextID' = IF sess[c].slot = 0 THEN [nextID EXCEPT !.grpc = @ + 1] ELSE nextID
      /\ Registered(c, Identify(n))
      /\ UNCHANGED <<heap, slots, arena, busVars, envVars, ghosts>>

\* A websocket session: counter identity, heap state.
WsOpen(c) ==
  /\ At(c, "new")
  /\ stop = "running"
  /\ Another
  /\ nextID' = [nextID EXCEPT !.ws = @ + 1]
  /\ Registered(c, Identify(nextID.ws + 1))
  /\ UNCHANGED <<heap, slots, arena, busVars, pub, stop, ghosts>>

-----------------------------------------------------------------------------
\* Requests, as dispatch handles them.  A refused one changes nothing.

Spend == budget.ops > 0 /\ budget' = [budget EXCEPT !.ops = @ - 1]

\* Authenticate and scheduleExpiry.
Admitted(c, t) ==
  /\ WriteState(c, [State(c) EXCEPT !.auth = TRUE, !.subject = t.subject])
  /\ sess' = [sess EXCEPT ![c].allow = t.chans,
                             ![c].expiry = IF t.expires THEN "armed" ELSE "off"]
  /\ UNCHANGED <<arena, storeVars, busVars, pub, stop, stray, late>>

Connect(c) ==
  \E t \in Tokens :
    /\ Spend
    /\ State(c).auth => t.subject = State(c).subject
    /\ who' = [who EXCEPT ![c] = IF @ = NoSubject THEN t.subject ELSE @]
    /\ Admitted(c, t)

Refresh(c) ==
  \E t \in Tokens :
    /\ Spend
    /\ State(c).auth /\ t.subject = State(c).subject
    /\ UNCHANGED who
    /\ Admitted(c, t)

\* The configured limit as it is.
LimitUnclamped(c) == MaxSubscriptions

\* New clamps the limit to what an arena slot holds; the websocket server has
\* no arena.
Limit(c) ==
  IF c \in Conns /\ MaxSlots > 0 /\ (MaxSubscriptions = 0 \/ MaxSubscriptions > SlotCap)
  THEN SlotCap ELSE MaxSubscriptions

\* AddSubscription: a full slot drops the channel.
Added(c, ch) ==
  IF sess[c].slot # 0 /\ Cardinality(State(c).subs) >= SlotCap
  THEN State(c) ELSE [State(c) EXCEPT !.subs = @ \union {ch}]

\* RemoveSubscription.
Removed(c, ch) == [State(c) EXCEPT !.subs = @ \ {ch}]

\* Subscribe and the relay's OnSubscribed.
Subscribe(c) ==
  \E ch \in sess[c].allow :
    /\ Spend
    /\ State(c).auth
    /\ Limit(c) > 0 => Cardinality(State(c).subs) < Limit(c)
    /\ sess[c].id \notin engine[ch]
    /\ engine' = [engine EXCEPT ![ch] = @ \union {sess[c].id}]
    /\ WriteState(c, Added(c, ch))
    /\ IF Hooked(c)
       THEN /\ sess' = [sess EXCEPT ![c].up = @ \union {ch}]
            /\ refs' = [refs EXCEPT ![ch] = IF ch \in Relayed THEN @ + 1 ELSE @]
       ELSE UNCHANGED <<sess, refs>>
    /\ UNCHANGED <<arena, storeVars, pub, stop, ghosts>>

\* Unsubscribe and the relay's OnUnsubscribed.
Unsubscribe(c) ==
  \E ch \in Chans :
    /\ Spend
    /\ State(c).auth
    /\ sess[c].id \in engine[ch]
    /\ engine' = [engine EXCEPT ![ch] = @ \ {sess[c].id}]
    /\ WriteState(c, Removed(c, ch))
    /\ IF Hooked(c)
       THEN /\ sess' = [sess EXCEPT ![c].up = @ \ {ch}]
            /\ refs' = [refs EXCEPT ![ch] = IF ch \in Relayed THEN @ - 1 ELSE @]
       ELSE UNCHANGED <<sess, refs>>
    /\ UNCHANGED <<arena, storeVars, pub, stop, ghosts>>

\* A ping, a confirm, a publish, or a request that is refused; as many as the
\* client likes.
Other(c) ==
  UNCHANGED <<sess, heap, slots, arena, storeVars, busVars, envVars, ghosts>>

Handle(c) ==
  \/ Connect(c) \/ Refresh(c)
  \/ Subscribe(c) \/ Unsubscribe(c) \/ Other(c)

-----------------------------------------------------------------------------
\* The stream's loop takes message after message ...
Serve(c) == Serving(c) /\ Handle(c)

\* ... until the stream ends,
EndOfStream(c) ==
  /\ Serving(c)
  /\ Goto(c, "cleanup")
  /\ UNCHANGED <<heap, slots, arena, storeVars, busVars, envVars, ghosts>>

\* ... or the session is cancelled, and what was pending has been handled.
Leave(c) ==
  /\ Serving(c) /\ Cancelled(c)
  /\ Goto(c, "cleanup")
  /\ UNCHANGED <<heap, slots, arena, storeVars, busVars, envVars, ghosts>>

\* runReader, whose connection runWriter closes when the session is cancelled.
WsLeave(c) ==
  /\ Serving(c) /\ Cancelled(c)
  /\ Goto(c, "cleanup")
  /\ UNCHANGED <<heap, slots, arena, storeVars, busVars, envVars, ghosts>>

\* runWriter gives up: a failed write, or three silent ping intervals.
WsGiveUp(c) ==
  /\ Serving(c) /\ ~sess[c].done
  /\ sess' = [sess EXCEPT ![c].done = TRUE]
  /\ UNCHANGED <<heap, slots, arena, storeVars, busVars, envVars, ghosts>>

-----------------------------------------------------------------------------
\* Timers.  Stopping one does not wait for a callback that already runs.

AuthFires(c) ==
  /\ sess[c].authTimer = "armed"
  /\ sess' = [sess EXCEPT ![c].authTimer = "running"]
  /\ UNCHANGED <<heap, slots, arena, storeVars, busVars, envVars, ghosts>>

\* The deadline only looks at the timer, not at the session.
AuthDeadlineLenient(c) ==
  /\ sess[c].authTimer = "running"
  /\ sess' = [sess EXCEPT ![c].authTimer = "off"]
  /\ UNCHANGED <<heap, slots, arena, storeVars, busVars, envVars, ghosts>>

AuthDeadline(c) ==
  /\ sess[c].authTimer = "running"
  /\ late' = (late \/ (sess[c].slot # 0 /\ sess[c].pc \in {"clear", "append", "gone"}))
  /\ sess' = [sess EXCEPT ![c].authTimer = "off", ![c].done = @ \/ ~State(c).auth]
  /\ UNCHANGED <<heap, slots, arena, storeVars, busVars, envVars, who, stray>>

\* Its callback only cancels: whether it runs before or after a Refresh that
\* re-arms the timer makes no difference.
ExpiryFires(c) ==
  /\ sess[c].expiry = "armed"
  /\ sess' = [sess EXCEPT ![c].expiry = "off", ![c].done = TRUE]
  /\ UNCHANGED <<heap, slots, arena, storeVars, busVars, envVars, ghosts>>

-----------------------------------------------------------------------------
\* cleanupSession.

\* The timers are stopped, the context cancelled, the store's entry removed.
CleanupUnregister(c) ==
  /\ At(c, "cleanup")
  /\ sess' = [sess EXCEPT ![c].expiry = "off", ![c].done = TRUE, ![c].pc = "unsubscribe",
                          ![c].authTimer = IF @ = "armed" THEN "off" ELSE @]
  /\ who' = [who EXCEPT ![c] = NoSubject]
  /\ count' = [count EXCEPT ![Server(c)] = @ - 1]
  /\ StoreUnregister(sess[c].id)
  /\ UNCHANGED <<heap, slots, arena, gen, nextID, busVars, envVars, stray, late>>

\* What is left of a session whose handler returned.
Gone(c) == [Fresh EXCEPT !.pc = "gone", !.done = TRUE, !.id = sess[c].id,
                         !.authTimer = sess[c].authTimer,
                         !.slot = IF sess[c].authTimer = "running" THEN sess[c].slot ELSE 0]

\* engine.UnsubscribeAll.
CleanupUnsubscribe(c) ==
  /\ At(c, "unsubscribe")
  /\ engine' = [ch \in Chans |-> engine[ch] \ {sess[c].id}]
  /\ sess' = IF Hooked(c) THEN [sess EXCEPT ![c].pc = "upstream"]
             ELSE IF sess[c].slot # 0 THEN [sess EXCEPT ![c].pc = "free"]
             ELSE [sess EXCEPT ![c] = Gone(c)]
  /\ UNCHANGED <<heap, slots, arena, storeVars, refs, envVars, ghosts>>

\* The relay gives up the session's channels upstream, whichever way they are
\* routed; Upstream.Unsubscribe knows nothing of a channel without references.
CleanupUpstream(c) ==
  /\ At(c, "upstream")
  /\ refs' = [ch \in Chans |-> IF ch \in sess[c].up /\ refs[ch] > 0 THEN refs[ch] - 1 ELSE refs[ch]]
  /\ sess' = IF sess[c].slot # 0 THEN [sess EXCEPT ![c].pc = "free", ![c].up = {}]
             ELSE [sess EXCEPT ![c] = Gone(c)]
  /\ UNCHANGED <<heap, slots, arena, storeVars, engine, envVars, ghosts>>

\* ArenaState.Close, once per session: Free marks the slot,
FreeMark(c) ==
  LET i == sess[c].slot
  IN  /\ At(c, "free")
      /\ IF i \in arena.inFree \/ i > arena.offset
         THEN sess' = [sess EXCEPT ![c] = Gone(c)] /\ UNCHANGED arena
         ELSE Goto(c, "clear") /\ arena' = [arena EXCEPT !.inFree = @ \union {i}]
      /\ UNCHANGED <<heap, slots, storeVars, busVars, envVars, ghosts>>

\* The memory stays as it is.
FreeClearNot(c) ==
  /\ At(c, "clear")
  /\ Goto(c, "append")
  /\ UNCHANGED <<heap, slots, arena, storeVars, busVars, envVars, ghosts>>

\* ... wipes it,
FreeClear(c) ==
  /\ At(c, "clear")
  /\ slots' = [slots EXCEPT ![sess[c].slot] = Clean]
  /\ Goto(c, "append")
  /\ UNCHANGED <<heap, arena, storeVars, busVars, envVars, ghosts>>

\* ... and lists it.
FreeAppend(c) ==
  /\ At(c, "append")
  /\ arena' = [arena EXCEPT !.free = Append(@, sess[c].slot)]
  /\ sess' = [sess EXCEPT ![c] = Gone(c)]
  /\ UNCHANGED <<heap, slots, storeVars, busVars, envVars, ghosts>>

-----------------------------------------------------------------------------
\* Publishers: Engine.Publish loads the list of identities, if it has any, ...
PubLoad(p, ch) ==
  /\ pub[p] = {} /\ engine[ch] # {}
  /\ budget.pubs > 0
  /\ budget' = [budget EXCEPT !.pubs = @ - 1]
  /\ pub' = [pub EXCEPT ![p] = engine[ch]]
  /\ UNCHANGED <<sess, heap, slots, arena, storeVars, busVars, stop, ghosts>>

\* ... and hands the delivery to whoever the store finds.
PubDeliver(p) ==
  \E id \in pub[p] :
    /\ pub' = [pub EXCEPT ![p] = @ \ {id}]
    /\ stray' = (stray \/ (Lookup(id) # NoConn /\ sess[Lookup(id)].id # id))
    /\ UNCHANGED <<sess, heap, slots, arena, storeVars, busVars, stop, budget, who, late>>

-----------------------------------------------------------------------------
\* stopServe: the websocket server, then the other one, then its arena.

StopTo(s) ==
  /\ stop' = s
  /\ UNCHANGED <<sess, heap, slots, arena, storeVars, busVars, pub, budget, ghosts>>

StopWs == stop = "running" /\ StopTo("wsDown")

\* Every session is cancelled and GracefulStop refuses new streams; one that
\* slips in between is cancelled too.
StopCancel == stop = "wsDown" /\ StopTo("draining")

\* GracefulStop waits for every handler.
StopArena ==
  /\ stop = "draining"
  /\ \A c \in Conns : sess[c].pc \in {"new", "gone"}
  /\ StopTo("closed")

-----------------------------------------------------------------------------
AllocStep(c)   == AllocPop(c) \/ AllocBump(c) \/ AllocRollback(c) \/ AllocRepop(c) \/ Register(c)
CleanupStep(c) == \/ CleanupUnregister(c) \/ CleanupUnsubscribe(c) \/ CleanupUpstream(c)
                  \/ FreeMark(c) \/ FreeClear(c) \/ FreeAppend(c)
\* The handler's goroutine, where nothing but the scheduler holds it up.
HandlerStep(c) == \/ c \in Conns /\ (AllocStep(c) \/ Leave(c))
                  \/ c \in WsConns /\ WsLeave(c)
                  \/ CleanupStep(c)
TimerStep(c)   == AuthFires(c) \/ AuthDeadline(c) \/ ExpiryFires(c)
StopStep       == StopCancel \/ StopArena

Next ==
  \/ \E c \in Conns : Open(c)
  \/ \E c \in WsConns : WsOpen(c) \/ WsGiveUp(c)
  \/ \E c \in All : Serve(c) \/ EndOfStream(c) \/ HandlerStep(c) \/ TimerStep(c)
  \/ \E p \in Pubs : PubDeliver(p) \/ \E ch \in Chans : PubLoad(p, ch)
  \/ StopWs \/ StopStep

Runs == \/ \E c \in All : HandlerStep(c) \/ TimerStep(c)
        \/ StopStep

\* Goroutines run and timers fire: as long as one of them can, one of them
\* does, which is less than the runtime promises each of them.  No client has
\* to send, hang up or authenticate, and nobody has to stop the server.  That a
\* cancelled session leaves its loop although its client keeps sending rests on
\* the receiving goroutine, whose select between handing a message over and the
\* cancelled context picks at random among the ready cases.
Fairness == WF_vars(Runs)

Spec == Init /\ [][Next]_vars /\ Fairness

-----------------------------------------------------------------------------
\* A session's state is its own: it is authenticated if and only if it
\* connected itself, and always as the subject of its first connect, however
\* often its slot changed hands (ops.go:25-46, 48-70; arena.go:114-137).
IdentityIsItsOwn ==
  \A c \in All : Serving(c) =>
    /\ State(c).auth = (who[c] # NoSubject)
    /\ State(c).subject = who[c]

\* "Deliver reject[s] in-flight messages addressed to a previous occupant"
\* (transport.go:114-118): a publisher that read an identity before its
\* session closed never reaches the session that has the slot now; a session
\* that is up is what the store finds under its identity, and one that is gone
\* is found under none (transport.go:135-153, server.go:85-94,
\* ws/server.go:73-75): slots, counters and the websocket range never
\* overwrite or wipe each other's entries.
DeliveredToItsSession ==
  /\ ~stray
  /\ \A c \in All :
       /\ (Serving(c) \/ At(c, "cleanup")) => Lookup(sess[c].id) = c
       /\ At(c, "gone") => Lookup(sess[c].id) = NoConn

\* Every arena slot is in one place: with one session, on the free list once,
\* or not handed out yet; none is shared and none is lost, through bumps past
\* the end and releases that race them (arena.go:77-137), and once the arena
\* is unmapped no handler allocates, uses or frees one: "callers must quiesce
\* the arena before Close" (arena.go:146-149).
SlotsAccounted ==
  /\ \A i \in Slots :
       LET owners == { c \in Conns : sess[c].slot = i /\ sess[c].pc # "gone" }
           listed == { k \in DOMAIN arena.free : arena.free[k] = i }
       IN  Cardinality(owners) + Cardinality(listed) = (IF i <= arena.offset THEN 1 ELSE 0)
  /\ (\A c \in Conns : ~At(c, "rollback")) => arena.offset <= MaxSlots
  /\ stop = "closed" => \A c \in Conns : sess[c].pc \in {"new", "gone"}

\* Between requests a session's own list is what the engine serves it and what
\* the relay holds upstream for it; a closed session leaves no subscription,
\* no upstream reference and no count behind (session.go:278-300,
\* relay.go:445-461, 492-528; server.go:56-61: the limit stays "the single
\* source of truth").
BooksBalance ==
  /\ \A c \in All : Serving(c) =>
       /\ State(c).subs = { ch \in Chans : sess[c].id \in engine[ch] }
       /\ Hooked(c) => sess[c].up = State(c).subs
  /\ \A ch \in Chans :
       /\ \A id \in engine[ch] : \E c \in All :
            sess[c].id = id /\ (Serving(c) \/ sess[c].pc \in {"cleanup", "unsubscribe"})
       /\ refs[ch] = IF ch \in Relayed THEN Cardinality({ c \in Conns : ch \in sess[c].up }) ELSE 0
  /\ count.grpc = Cardinality({ c \in Conns : Serving(c) \/ At(c, "cleanup") })

\* Nothing stays half done: a cancelled session is cleaned up, whatever its
\* client keeps sending, one that never authenticates is closed at its
\* deadline, every allocation and every cleanup ends, and Stop returns
\* (handler.go:55-84, session.go:258-266, server.go:171-197).  A connection
\* lives once, so that all of them are settled again and again says that each
\* of them settles.
Settled ==
  /\ \A c \in All : At(c, "new") \/ At(c, "gone") \/ (Serving(c) /\ State(c).auth /\ ~Cancelled(c))
  /\ stop \in {"running", "closed"}

ClosesInTime == []<>Settled

\* "The caller must not invoke any other method on this ArenaState once Close
\* has run" (arena/state.go:143-146).
SlotNotReadLate == ~late
=============================================================================
