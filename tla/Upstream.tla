------------------------------ MODULE Upstream ------------------------------
(***************************************************************************)
(* The relay's connection to its upstream server (src/internal/relay/      *)
(* upstream.go): reference-counted subscriptions made by the local         *)
(* sessions, the send and receive loops, the teardown of a failed stream   *)
(* and the reconnect goroutine that re-establishes it and subscribes       *)
(* again.                                                                  *)
(*                                                                         *)
(* Streams are numbered in the order they are opened.  streamMu is held    *)
(* for longer than one step only by establishStream, subsMu only by the    *)
(* sweep of establishStream and by a caller waiting for room in sendCh, so *)
(* both locks are functions of the goroutines' places.  Of the messages    *)
(* the upstream sends, only the channel, and of a recover point, only its  *)
(* presence is kept.  The server end is what this code can see of it.      *)
(***************************************************************************)
EXTENDS Integers, Sequences, FiniteSets

CONSTANTS
  Channels,
  Clients,     \* dispatch goroutines of local sessions
  SendCap,     \* capacity of sendCh
  Auth,        \* is an auth token configured?
  MaxRetries,  \* policy.MaxRetries, 0 = retry for ever
  MaxStreams,  \* bound: streams opened; the last one does not fail
  MaxCalls,    \* bound: calls per client
  MaxMsgs      \* bound: messages the upstream sends

ASSUME UpstreamAssumption ==
  /\ SendCap \in Nat \ {0} /\ Auth \in BOOLEAN /\ MaxRetries \in Nat
  /\ MaxStreams \in Nat \ {0} /\ MaxCalls \in Nat /\ MaxMsgs \in Nat

VARIABLES
  stream,      \* u.stream, 0 = nil
  connected, reconnecting,
  subs,        \* subscriptions: channel -> reference count
  lastSeen,    \* channels with a recover point
  pending,     \* pendingRecovers
  sendCh,
  cl,          \* each client: its place, its message, its calls, its channels
  snd, rcv,    \* sendLoop and receiveLoop
  rec,         \* the reconnect goroutine
  opened,      \* number of streams opened
  alive,       \* the stream the server still serves, 0 = none
  srv,         \* the server's end of it: authenticated, subscribed, messages sent
  misread      \* ghost: was the ack of a plain subscribe taken for a recovery's?

localVars  == <<stream, connected, reconnecting>>
subVars    == <<subs, lastSeen, pending>>
serverVars == <<opened, alive, srv>>
vars == <<stream, connected, reconnecting, subs, lastSeen, pending, sendCh, cl,
          snd, rcv, rec, opened, alive, srv, misread>>

NoChannel == "none"
Msg(kind, ch, rp) == [kind |-> kind, ch |-> ch, rp |-> rp]
NoMsg   == Msg("none", NoChannel, FALSE)
NoServer == [authed |-> FALSE, subs |-> {}, inbox |-> <<>>]
NoRec   == [pc |-> "none", todo |-> {}, attempts |-> 0]

\* After Start: a first stream, no subscription yet.
Init ==
  /\ stream = 1 /\ connected = TRUE /\ reconnecting = FALSE
  /\ subs = [ch \in Channels |-> 0] /\ lastSeen = {} /\ pending = {}
  /\ sendCh = IF Auth THEN <<Msg("connect", NoChannel, FALSE)>> ELSE <<>>
  /\ cl = [c \in Clients |-> [pc |-> "idle", msg |-> NoMsg, calls |-> 0, mine |-> {}]]
  /\ snd = [pc |-> "idle", msg |-> NoMsg, stream |-> 0]
  /\ rcv = [pc |-> "idle", msg |-> NoMsg, stream |-> 0]
  /\ rec = NoRec
  /\ opened = 1 /\ alive = 1 /\ srv = NoServer
  /\ misread = FALSE

\* Who holds the locks.
StreamMuFree == rec.pc \notin {"dial", "auth", "lock", "sweep"}
SubsMuFree   == rec.pc # "sweep" /\ \A c \in Clients : cl[c].pc # "enqueue"
Room         == Len(sendCh) < SendCap

-----------------------------------------------------------------------------
\* Calls of the local sessions.

MayCall(c) == cl[c].pc = "idle" /\ cl[c].calls < MaxCalls

\* A message goes out when the stream is up: "enqueue" is the call of enqueue
\* with subsMu held.
Called(c, mine, msg) ==
  cl' = [cl EXCEPT ![c] = [pc |-> IF msg # NoMsg /\ connected THEN "enqueue" ELSE "idle",
                           msg |-> IF connected THEN msg ELSE NoMsg,
                           calls |-> @.calls + 1, mine |-> mine]]

\* Subscribe does not wait for the sweep.
SubscribeUnlocked(c, ch) ==
  /\ MayCall(c)
  /\ ch \notin cl[c].mine
  /\ subs' = [subs EXCEPT ![ch] = @ + 1]
  /\ Called(c, cl[c].mine \union {ch},
            IF subs[ch] = 0 THEN Msg("subscribe", ch, FALSE) ELSE NoMsg)
  /\ UNCHANGED <<localVars, lastSeen, pending, sendCh, snd, rcv, rec, serverVars, misread>>

\* Only the first subscriber of a channel reaches the upstream.
Subscribe(c, ch) ==
  /\ MayCall(c) /\ SubsMuFree
  /\ ch \notin cl[c].mine
  /\ subs' = [subs EXCEPT ![ch] = @ + 1]
  /\ Called(c, cl[c].mine \union {ch},
            IF subs[ch] = 0 THEN Msg("subscribe", ch, FALSE) ELSE NoMsg)
  /\ UNCHANGED <<localVars, lastSeen, pending, sendCh, snd, rcv, rec, serverVars, misread>>

\* ... and only the last to leave, which forgets the recover point too.
Unsubscribe(c, ch) ==
  /\ MayCall(c) /\ SubsMuFree
  /\ ch \in cl[c].mine
  /\ subs' = [subs EXCEPT ![ch] = IF @ > 0 THEN @ - 1 ELSE 0]
  /\ lastSeen' = IF subs[ch] = 1 THEN lastSeen \ {ch} ELSE lastSeen
  /\ Called(c, cl[c].mine \ {ch},
            IF subs[ch] = 1 THEN Msg("unsubscribe", ch, FALSE) ELSE NoMsg)
  /\ UNCHANGED <<localVars, pending, sendCh, snd, rcv, rec, serverVars, misread>>

\* Publish: refused without a stream, otherwise queued without a lock.
Publish(c, ch) ==
  /\ MayCall(c)
  /\ cl' = [cl EXCEPT ![c].pc = IF connected THEN "publish" ELSE "idle",
                      ![c].msg = IF connected THEN Msg("publish", ch, FALSE) ELSE NoMsg,
                      ![c].calls = @ + 1]
  /\ UNCHANGED <<localVars, subVars, sendCh, snd, rcv, rec, serverVars, misread>>

\* The send on sendCh of a pending call.
Enqueue(c) ==
  /\ cl[c].pc \in {"enqueue", "publish"}
  /\ Room
  /\ sendCh' = Append(sendCh, cl[c].msg)
  /\ cl' = [cl EXCEPT ![c].pc = "idle", ![c].msg = NoMsg]
  /\ UNCHANGED <<localVars, subVars, snd, rcv, rec, serverVars, misread>>

-----------------------------------------------------------------------------
\* The reconnect goroutine and establishStream.

\* The backoff passes; a bounded policy gives up.
Backoff ==
  /\ rec.pc = "delay"
  /\ rec' = IF MaxRetries > 0 /\ rec.attempts + 1 > MaxRetries
            THEN [rec EXCEPT !.pc = "finish"]
            ELSE [rec EXCEPT !.pc = "dial", !.attempts = @ + 1]
  /\ UNCHANGED <<localVars, subVars, sendCh, cl, snd, rcv, serverVars, misread>>

\* establishStream: client.Stream fails,
DialFail ==
  /\ rec.pc = "dial"
  /\ rec' = [rec EXCEPT !.pc = "delay", !.attempts = IF MaxRetries = 0 THEN 0 ELSE @]
  /\ UNCHANGED <<localVars, subVars, sendCh, cl, snd, rcv, serverVars, misread>>

\* ... or opens a new stream.
DialOk ==
  /\ rec.pc = "dial"
  /\ opened < MaxStreams
  /\ opened' = opened + 1
  /\ alive' = opened + 1
  /\ srv' = NoServer
  /\ stream' = opened + 1
  /\ rec' = [rec EXCEPT !.pc = IF Auth THEN "auth" ELSE "lock"]
  /\ UNCHANGED <<connected, reconnecting, subVars, sendCh, cl, snd, rcv, misread>>

\* The Connect message, sent to sendCh with streamMu held.
SendAuth ==
  /\ rec.pc = "auth"
  /\ Room
  /\ sendCh' = Append(sendCh, Msg("connect", NoChannel, FALSE))
  /\ rec' = [rec EXCEPT !.pc = "lock"]
  /\ UNCHANGED <<localVars, subVars, cl, snd, rcv, serverVars, misread>>

\* subsMu for the resubscribe sweep.
LockSubs ==
  /\ rec.pc = "lock"
  /\ SubsMuFree
  /\ rec' = [rec EXCEPT !.pc = "sweep", !.todo = { ch \in Channels : subs[ch] > 0 }]
  /\ UNCHANGED <<localVars, subVars, sendCh, cl, snd, rcv, serverVars, misread>>

\* One channel is subscribed again, from its recover point if it has one.
Resubscribe ==
  /\ rec.pc = "sweep"
  /\ Room
  /\ \E ch \in rec.todo :
       /\ sendCh' = Append(sendCh, Msg("subscribe", ch, ch \in lastSeen))
       /\ pending' = IF ch \in lastSeen THEN pending \union {ch} ELSE pending
       /\ rec' = [rec EXCEPT !.todo = @ \ {ch}]
  /\ UNCHANGED <<localVars, subs, lastSeen, cl, snd, rcv, serverVars, misread>>

\* Every channel is back: the relay counts as connected and both locks open.
Established ==
  /\ rec.pc = "sweep"
  /\ rec.todo = {}
  /\ connected' = TRUE
  /\ rec' = [rec EXCEPT !.pc = "finish"]
  /\ UNCHANGED <<stream, reconnecting, subVars, sendCh, cl, snd, rcv, serverVars, misread>>

\* The deferred reconnecting.Store(false) as reconnect returns.
ReconnectReturns ==
  /\ rec.pc = "finish"
  /\ reconnecting' = FALSE
  /\ rec' = NoRec
  /\ UNCHANGED <<stream, connected, subVars, sendCh, cl, snd, rcv, serverVars, misread>>

-----------------------------------------------------------------------------
\* handleDisconnect of the stream a loop saw failing: "t" is the loop's record
\* and "u" that record afterwards.

\* Any error tears down the current stream.
DropStreamAny(t, u) ==
  /\ t.pc = "drop"
  /\ StreamMuFree
  /\ IF stream = 0
     THEN u = [t EXCEPT !.pc = "idle", !.stream = 0] /\ UNCHANGED stream
     ELSE u = [t EXCEPT !.pc = "offline"] /\ stream' = 0
  /\ UNCHANGED <<connected, reconnecting, rec>>

\* A late error of a stream already replaced is ignored.
DropStream(t, u) ==
  /\ t.pc = "drop"
  /\ StreamMuFree
  /\ IF stream # t.stream
     THEN u = [t EXCEPT !.pc = "idle", !.stream = 0] /\ UNCHANGED stream
     ELSE u = [t EXCEPT !.pc = "offline"] /\ stream' = 0
  /\ UNCHANGED <<connected, reconnecting, rec>>

GoOffline(t, u) ==
  /\ t.pc = "offline"
  /\ connected' = FALSE
  /\ u = [t EXCEPT !.pc = "restart"]
  /\ UNCHANGED <<stream, reconnecting, rec>>

\* reconnecting.CompareAndSwap(false, true) starts the goroutine.
StartReconnect(t, u) ==
  /\ t.pc = "restart"
  /\ u = [t EXCEPT !.pc = "idle", !.stream = 0]
  /\ IF reconnecting
     THEN UNCHANGED <<reconnecting, rec>>
     ELSE reconnecting' = TRUE /\ rec' = [NoRec EXCEPT !.pc = "delay"]
  /\ UNCHANGED <<stream, connected>>

HandleDisconnect(t, u) == DropStream(t, u) \/ GoOffline(t, u) \/ StartReconnect(t, u)

-----------------------------------------------------------------------------
\* sendLoop.

SendTake ==
  /\ snd.pc = "idle"
  /\ sendCh # <<>>
  /\ snd' = [snd EXCEPT !.pc = "load", !.msg = Head(sendCh)]
  /\ sendCh' = Tail(sendCh)
  /\ UNCHANGED <<localVars, subVars, cl, rcv, rec, serverVars, misread>>

\* Without a stream the message is dropped.
SendLoad ==
  /\ snd.pc = "load"
  /\ StreamMuFree
  /\ snd' = IF stream = 0 THEN [pc |-> "idle", msg |-> NoMsg, stream |-> 0]
            ELSE [snd EXCEPT !.pc = "send", !.stream = stream]
  /\ UNCHANGED <<localVars, subVars, sendCh, cl, rcv, rec, serverVars, misread>>

\* What the server does with a request: unauthenticated ones are refused, a
\* first subscribe is acknowledged, a repeated one is an error.
Served(m) ==
  IF m.kind = "connect" THEN [srv EXCEPT !.authed = TRUE]
  ELSE IF Auth /\ ~srv.authed THEN srv
  ELSE IF m.kind = "subscribe" /\ m.ch \notin srv.subs
  THEN [srv EXCEPT !.subs = @ \union {m.ch}, !.inbox = Append(@, Msg("ack", m.ch, m.rp))]
  ELSE IF m.kind = "unsubscribe" THEN [srv EXCEPT !.subs = @ \ {m.ch}]
  ELSE srv

\* stream.Send: a dead stream loses the message, with or without an error.
SendMsg ==
  /\ snd.pc = "send"
  /\ IF alive = snd.stream
     THEN /\ srv' = Served(snd.msg)
          /\ snd' = [pc |-> "idle", msg |-> NoMsg, stream |-> 0]
     ELSE /\ \E pc \in {"idle", "drop"} :
               snd' = [pc |-> pc, msg |-> NoMsg,
                       stream |-> IF pc = "drop" THEN snd.stream ELSE 0]
          /\ UNCHANGED srv
  /\ UNCHANGED <<localVars, subVars, sendCh, cl, rcv, rec, opened, alive, misread>>

SendDisconnect ==
  /\ HandleDisconnect(snd, snd')
  /\ UNCHANGED <<subVars, sendCh, cl, rcv, serverVars, misread>>

-----------------------------------------------------------------------------
\* receiveLoop.

\* Without a stream it polls.
RecvLoad ==
  /\ rcv.pc = "idle"
  /\ StreamMuFree
  /\ stream # 0
  /\ rcv' = [rcv EXCEPT !.pc = "recv", !.stream = stream]
  /\ UNCHANGED <<localVars, subVars, sendCh, cl, snd, rec, serverVars, misread>>

\* stream.Recv and the first half of handleMessage.  A subscribe ack settles
\* a pending recovery; a channel message looks its subscription up.
RecvMsg ==
  /\ rcv.pc = "recv"
  /\ IF rcv.stream = opened /\ srv.inbox # <<>>
     THEN LET m == Head(srv.inbox)
          IN  /\ srv' = [srv EXCEPT !.inbox = Tail(@)]
              /\ rcv' = IF m.kind = "data" /\ subs[m.ch] > 0
                        THEN [rcv EXCEPT !.pc = "store", !.msg = m]
                        ELSE [rcv EXCEPT !.pc = "idle", !.stream = 0]
              /\ pending' = IF m.kind = "ack" THEN pending \ {m.ch} ELSE pending
              /\ misread' = (misread \/ (m.kind = "ack" /\ m.ch \in pending /\ ~m.rp))
     ELSE /\ alive # rcv.stream
          /\ rcv' = [rcv EXCEPT !.pc = "drop"]
          /\ UNCHANGED <<srv, pending, misread>>
  /\ UNCHANGED <<localVars, subs, lastSeen, sendCh, cl, snd, rec, opened, alive>>

\* The rest of handleMessage: the recover point moves on, the handler runs.
RecvStore ==
  /\ rcv.pc = "store"
  /\ lastSeen' = lastSeen \union {rcv.msg.ch}
  /\ rcv' = [pc |-> "idle", msg |-> NoMsg, stream |-> 0]
  /\ UNCHANGED <<localVars, subs, pending, sendCh, cl, snd, rec, serverVars, misread>>

RecvDisconnect ==
  /\ HandleDisconnect(rcv, rcv')
  /\ UNCHANGED <<subVars, sendCh, cl, snd, serverVars, misread>>

-----------------------------------------------------------------------------
\* The upstream publishes to a subscribed channel,
ServerMessage ==
  /\ alive # 0
  /\ Cardinality({ i \in 1 .. Len(srv.inbox) : srv.inbox[i].kind = "data" }) < MaxMsgs
  /\ \E ch \in srv.subs : srv' = [srv EXCEPT !.inbox = Append(@, Msg("data", ch, FALSE))]
  /\ UNCHANGED <<localVars, subVars, sendCh, cl, snd, rcv, rec, opened, alive, misread>>

\* ... and a stream fails, losing what it did not deliver yet.
StreamDies ==
  /\ alive # 0
  /\ alive < MaxStreams
  /\ alive' = 0
  /\ \E n \in 0 .. Len(srv.inbox) : srv' = [srv EXCEPT !.inbox = SubSeq(@, 1, n)]
  /\ UNCHANGED <<localVars, subVars, sendCh, cl, snd, rcv, rec, opened, misread>>

-----------------------------------------------------------------------------
ClientStep(c) == Enqueue(c)
RecStep  == Backoff \/ SendAuth \/ LockSubs \/ Resubscribe \/ Established \/ ReconnectReturns
SendStep == SendTake \/ SendLoad \/ SendMsg \/ SendDisconnect
RecvStep == RecvLoad \/ RecvMsg \/ RecvStore \/ RecvDisconnect

Next ==
  \/ \E c \in Clients, ch \in Channels : Subscribe(c, ch) \/ Unsubscribe(c, ch) \/ Publish(c, ch)
  \/ \E c \in Clients : ClientStep(c)
  \/ RecStep \/ DialFail \/ DialOk
  \/ SendStep \/ RecvStep
  \/ ServerMessage \/ StreamDies

\* Goroutines that can run do, and the upstream does not refuse new streams
\* for ever.
Fairness ==
  /\ \A c \in Clients : WF_vars(ClientStep(c))
  /\ WF_vars(RecStep) /\ SF_vars(DialOk)
  /\ WF_vars(SendStep) /\ WF_vars(RecvStep)

Spec     == Init /\ [][Next]_vars
FairSpec == Spec /\ Fairness

-----------------------------------------------------------------------------
\* Streams, goroutines and queues have their types, and a channel's count is
\* the number of sessions that hold it.
TypeOK ==
  /\ stream \in 0 .. opened /\ alive \in {0, opened} /\ opened \in 1 .. MaxStreams
  /\ connected \in BOOLEAN /\ reconnecting \in BOOLEAN
  /\ lastSeen \subseteq Channels /\ pending \subseteq Channels
  /\ Len(sendCh) <= SendCap
  /\ \A ch \in Channels : subs[ch] = Cardinality({ c \in Clients : ch \in cl[c].mine })
  /\ rec.pc \in {"none", "delay", "dial", "auth", "lock", "sweep", "finish"}

\* Nothing is on its way between the relay and a live stream.
Settled ==
  /\ stream # 0 /\ alive = stream
  /\ sendCh = <<>> /\ snd.pc = "idle"
  /\ rec.pc \in {"none", "finish"}
  /\ \A c \in Clients : cl[c].pc = "idle"

\* "subsMu serializes the resubscribe sweep against Subscribe: a subscription
\* registered mid-sweep would see connected=false and never reach the
\* upstream" (upstream.go:249-251): once everything queued has been sent, the
\* server has every channel the local sessions hold, however subscribes,
\* unsubscribes, failures and sweeps fell together.
SettledCovers == Settled => { ch \in Channels : subs[ch] > 0 } \subseteq srv.subs

\* "One disconnect cannot cancel the reconnect that just succeeded"
\* (upstream.go:364-366): the loops tear down a stream only when that stream
\* is dead.
OnlyDeadStreamsDropped ==
  [][ (stream # 0 /\ stream' = 0) => alive # stream ]_vars

\* A server-side close is "a disconnect to recover from, not a reason to stop
\* receiving forever" (upstream.go:298-299): a relay without a stream gets
\* one again.
StreamComesBack == stream = 0 ~> stream # 0

\* enqueue never wedges its caller (upstream.go:181-183): neither a session's
\* call nor the resubscribe sweep stays blocked while it holds subsMu.
CallersNotWedged ==
  /\ \A c \in Clients : cl[c].pc = "enqueue" ~> cl[c].pc # "enqueue"
  /\ rec.pc = "sweep" ~> rec.pc # "sweep"

\* "Track recover points only for channels with an exact upstream
\* subscription" (upstream.go:338-340).
RecoverPointsAreSubscribed == \A ch \in lastSeen : subs[ch] > 0

\* "A Recovered=false ack is distinguishable from a plain subscribe ack"
\* (upstream.go:59-61): only the ack of a subscribe that carried a recover
\* point is read as the outcome of a recovery.
PendingMeansRecover == ~misread
=============================================================================
