--------------------------- MODULE UpstreamProofs ---------------------------
(***************************************************************************)
(* For every number of sessions and channels and every bound: the loops    *)
(* only tear down dead streams, and what the sessions hold is on its way   *)
(* to the live stream or has arrived there.                                *)
(***************************************************************************)
EXTENDS Upstream, TLAPS

-----------------------------------------------------------------------------
\* The inductive invariant.

Msgs == [kind : {"none", "connect", "subscribe", "unsubscribe", "publish", "ack", "data"},
         ch : Channels \union {NoChannel}, rp : BOOLEAN]

Calls   == [pc : {"idle", "enqueue", "publish"}, msg : Msgs, calls : Nat,
            mine : SUBSET Channels]
Recs    == [pc : {"none", "delay", "dial", "auth", "lock", "sweep", "finish"},
            todo : SUBSET Channels, attempts : Nat]
Servers == [authed : BOOLEAN, subs : SUBSET (Channels \union {NoChannel}), inbox : Seq(Msgs)]
Senders == [pc : {"idle", "load", "send", "drop", "offline", "restart"},
            msg : Msgs, stream : Nat]
Receivers == [pc : {"idle", "recv", "store", "drop", "offline", "restart"},
              msg : Msgs, stream : Nat]

ServerTypes ==
  /\ opened \in Nat \ {0} /\ stream \in {0, opened} /\ alive \in {0, opened}
  /\ srv \in Servers

LoopTypes ==
  /\ snd \in Senders /\ rcv \in Receivers
  /\ snd.stream <= opened /\ rcv.stream <= opened

CallTypes ==
  /\ connected \in BOOLEAN /\ reconnecting \in BOOLEAN
  /\ subs \in [Channels -> Nat]
  /\ sendCh \in Seq(Msgs)
  /\ cl \in [Clients -> Calls] /\ rec \in Recs

Types == ServerTypes /\ LoopTypes /\ CallTypes

\* A loop reports only streams that are gone for good.
DropsDead(t) ==
  /\ t.pc \in {"send", "recv", "drop"} => t.stream # 0
  /\ t.pc = "drop" => t.stream # alive

Leaving == {"offline", "restart"}

\* The teardown of a stream belongs to one loop, and comes before any reconnect.
TeardownAlone ==
  /\ \A t \in {snd, rcv} : t.pc \in Leaving => stream = 0 /\ rec.pc \in {"none", "finish"}
  /\ \A t \in {snd, rcv} : t.pc = "restart" => ~connected
  /\ ~(snd.pc \in Leaving /\ rcv.pc \in Leaving)

\* The flags follow the reconnect goroutine.
Phase ==
  /\ reconnecting <=> rec.pc # "none"
  /\ rec.pc \in {"delay", "dial"} => stream = 0 /\ ~connected
  /\ rec.pc \in {"auth", "lock", "sweep"} => stream = opened /\ ~connected
  /\ (stream # 0 /\ rec.pc \in {"none", "finish"}) => connected

\* subsMu: one caller at a time, none during the sweep, and the count a caller
\* acted upon does not move before its message is queued.
CallerAlone(c) ==
  cl[c].pc = "enqueue" =>
    /\ rec.pc # "sweep"
    /\ \A d \in Clients \ {c} : cl[d].pc # "enqueue"
    /\ cl[c].msg.kind \in {"subscribe", "unsubscribe"}
    /\ cl[c].msg.kind = "unsubscribe" => subs[cl[c].msg.ch] = 0

CallerPublishes(c) == cl[c].pc = "publish" => cl[c].msg.kind = "publish"

\* The message in the send loop's hands will reach the live stream.
Carried == snd.pc = "load" \/ (snd.pc = "send" /\ snd.stream = alive)
Carries(kind, ch) == Carried /\ snd.msg.kind = kind /\ snd.msg.ch = ch

Queued(i, kind, ch) == sendCh[i].kind = kind /\ sendCh[i].ch = ch
Serving == stream # 0 /\ alive = stream

\* The server accepts requests already, or does when it gets to position i.
Authorised(i) ==
  \/ ~Auth \/ srv.authed
  \/ Carried /\ snd.msg.kind = "connect"
  \/ \E k \in 1 .. Len(sendCh) : k < i /\ sendCh[k].kind = "connect"

AuthComing ==
  (Serving /\ rec.pc \in {"lock", "sweep", "none", "finish"}) => Authorised(Len(sendCh) + 1)

\* Nothing after position i takes channel ch away again.
Kept(ch, i) == \A j \in 1 .. Len(sendCh) : j > i => ~Queued(j, "unsubscribe", ch)

\* Channel ch is subscribed at the server, or will be when what is on its way
\* has been served.
ToSweep(ch)   == rec.pc = "sweep" /\ ch \in rec.todo
ToEnqueue(ch) == \E c \in Clients : cl[c].pc = "enqueue" /\ cl[c].msg.kind = "subscribe"
                                    /\ cl[c].msg.ch = ch
InQueue(ch)   == \E i \in 1 .. Len(sendCh) :
                   Queued(i, "subscribe", ch) /\ Kept(ch, i) /\ Authorised(i)
InHand(ch)    == Carries("subscribe", ch) /\ (Auth => srv.authed) /\ Kept(ch, 0)
AtServer(ch)  == ch \in srv.subs /\ ~Carries("unsubscribe", ch) /\ Kept(ch, 0)
OnTheWay(ch)  == InQueue(ch) \/ InHand(ch) \/ AtServer(ch)
Covered(ch)   == ToSweep(ch) \/ ToEnqueue(ch) \/ OnTheWay(ch)

AllCovered ==
  (Serving /\ rec.pc \in {"sweep", "none", "finish"}) =>
    \A ch \in Channels : subs[ch] > 0 => Covered(ch)

Streams == DropsDead(snd) /\ DropsDead(rcv) /\ TeardownAlone /\ Phase
Callers == \A c \in Clients : CallerAlone(c) /\ CallerPublishes(c)

IInv == Types /\ Streams /\ Callers /\ AuthComing /\ AllCovered

-----------------------------------------------------------------------------
\* Types.

LEMMA MsgTypes ==
  /\ NoMsg \in Msgs /\ Msg("connect", NoChannel, FALSE) \in Msgs
  /\ \A ch \in Channels : /\ Msg("subscribe", ch, FALSE) \in Msgs
                           /\ Msg("subscribe", ch, TRUE) \in Msgs
                           /\ Msg("unsubscribe", ch, FALSE) \in Msgs
                           /\ Msg("publish", ch, FALSE) \in Msgs
                           /\ Msg("data", ch, FALSE) \in Msgs
BY DEF NoMsg, Msg, Msgs

\* What a call of Subscribe or Unsubscribe leaves its client with.
LEMMA CalledTypes ==
  ASSUME connected \in BOOLEAN, cl \in [Clients -> Calls], NEW c \in Clients,
         NEW mine \in SUBSET Channels, NEW msg \in Msgs, Called(c, mine, msg)
  PROVE  cl' \in [Clients -> Calls]
<1>1. NoMsg \in Msgs
  BY MsgTypes
<1>2. CASE connected
  <2>1. CASE msg = NoMsg
    BY <1>1, <1>2, <2>1 DEF Called, Calls
  <2>2. CASE msg # NoMsg
    BY <1>1, <1>2, <2>2 DEF Called, Calls
  <2> QED BY <2>1, <2>2
<1>3. CASE ~connected
  BY <1>1, <1>3 DEF Called, Calls
<1> QED BY <1>2, <1>3

\* Calls of the sessions.
LEMMA SessionTypes ==
  ASSUME Types, NEW c \in Clients, NEW ch \in Channels,
         Subscribe(c, ch) \/ Unsubscribe(c, ch) \/ Publish(c, ch)
  PROVE  Types'
<1>1. connected \in BOOLEAN /\ cl \in [Clients -> Calls] /\ cl[c].mine \in SUBSET Channels
  BY DEF Types, CallTypes, Calls
<1>2. subs' \in [Channels -> Nat]
  <2>1. subs \in [Channels -> Nat]
    BY DEF Types, CallTypes
  <2>2. \/ UNCHANGED subs \/ subs' = [subs EXCEPT ![ch] = subs[ch] + 1]
        \/ subs[ch] > 0 /\ subs' = [subs EXCEPT ![ch] = subs[ch] - 1]
        \/ subs' = [subs EXCEPT ![ch] = 0]
    BY DEF Subscribe, Unsubscribe, Publish, subVars
  <2>3. CASE subs' = [subs EXCEPT ![ch] = subs[ch] + 1]
    BY <2>1, <2>3
  <2>4. CASE subs[ch] > 0 /\ subs' = [subs EXCEPT ![ch] = subs[ch] - 1]
    BY <2>1, <2>4
  <2>5. CASE subs' = [subs EXCEPT ![ch] = 0]
    BY <2>1, <2>5
  <2> QED BY <2>1, <2>2, <2>3, <2>4, <2>5
<1>3. cl' \in [Clients -> Calls]
  <2>1. CASE Subscribe(c, ch)
    <3>1. CASE subs[ch] = 0
      BY <1>1, <2>1, <3>1, CalledTypes, MsgTypes DEF Subscribe
    <3>2. CASE subs[ch] # 0
      BY <1>1, <2>1, <3>2, CalledTypes, MsgTypes DEF Subscribe
    <3> QED BY <3>1, <3>2
  <2>2. CASE Unsubscribe(c, ch)
    <3>1. CASE subs[ch] = 1
      BY <1>1, <2>2, <3>1, CalledTypes, MsgTypes DEF Unsubscribe
    <3>2. CASE subs[ch] # 1
      BY <1>1, <2>2, <3>2, CalledTypes, MsgTypes DEF Unsubscribe
    <3> QED BY <3>1, <3>2
  <2>3. CASE Publish(c, ch)
    <3>1. CASE connected
      BY <1>1, <2>3, <3>1, MsgTypes DEF Publish, Calls
    <3>2. CASE ~connected
      BY <1>1, <2>3, <3>2, MsgTypes DEF Publish, Calls
    <3> QED BY <3>1, <3>2
  <2> QED BY <2>1, <2>2, <2>3
<1>4. UNCHANGED <<localVars, sendCh, snd, rcv, rec, serverVars>>
  BY DEF Subscribe, Unsubscribe, Publish
<1> QED
  BY <1>2, <1>3, <1>4
     DEF Types, ServerTypes, LoopTypes, CallTypes, localVars, serverVars

LEMMA EnqueueTypes ==
  ASSUME Types, NEW c \in Clients, Enqueue(c)
  PROVE  Types'
<1>1. cl \in [Clients -> Calls] /\ cl[c].msg \in Msgs /\ sendCh \in Seq(Msgs)
  BY DEF Types, CallTypes, Calls
<1>2. /\ cl' = [cl EXCEPT ![c].pc = "idle", ![c].msg = NoMsg]
      /\ sendCh' = Append(sendCh, cl[c].msg)
      /\ UNCHANGED <<localVars, subs, snd, rcv, rec, serverVars>>
  BY DEF Enqueue, subVars
<1>3. cl' \in [Clients -> Calls]
  BY <1>1, <1>2, MsgTypes DEF Calls
<1>4. sendCh' \in Seq(Msgs)
  BY <1>1, <1>2
<1> QED
  BY <1>2, <1>3, <1>4 DEF Types, ServerTypes, LoopTypes, CallTypes, localVars, serverVars

\* The reconnect goroutine.
LEMMA ReconnectTypes ==
  ASSUME Types, RecStep \/ DialFail
  PROVE  Types'
<1>1. rec \in Recs /\ sendCh \in Seq(Msgs)
  BY DEF Types, CallTypes
<1>2. rec' \in Recs
  <2>1. CASE Backoff
    <3>1. CASE rec' = [rec EXCEPT !.pc = "finish"]
      BY <1>1, <3>1 DEF Recs
    <3>2. CASE rec' = [rec EXCEPT !.pc = "dial", !.attempts = @ + 1]
      <4>1. rec.attempts + 1 \in Nat
        BY <1>1 DEF Recs
      <4>2. PICK n \in Nat : n = rec.attempts + 1
        BY <4>1
      <4>3. rec' = [rec EXCEPT !.pc = "dial", !.attempts = n]
        BY <3>2, <4>2, Zenon
      <4> QED BY <1>1, <4>3 DEF Recs
    <3> QED BY <2>1, <3>1, <3>2, Zenon DEF Backoff
  <2>2. CASE DialFail
    <3>1. PICK n \in Nat : rec' = [rec EXCEPT !.pc = "delay", !.attempts = n]
      BY <1>1, <2>2 DEF DialFail, Recs
    <3> QED BY <1>1, <3>1 DEF Recs
  <2>3. CASE LockSubs
    <3>1. PICK todo \in SUBSET Channels : rec' = [rec EXCEPT !.pc = "sweep", !.todo = todo]
      BY <2>3 DEF LockSubs
    <3> QED BY <1>1, <3>1 DEF Recs
  <2>4. CASE SendAuth \/ Established
    BY <1>1, <2>4 DEF SendAuth, Established, Recs
  <2>5. CASE ReconnectReturns
    BY <2>5 DEF ReconnectReturns, NoRec, Recs
  <2>6. CASE Resubscribe
    <3>1. PICK todo \in SUBSET Channels : rec' = [rec EXCEPT !.todo = todo]
      BY <1>1, <2>6 DEF Resubscribe, Recs
    <3> QED BY <1>1, <3>1 DEF Recs
  <2> QED BY <2>1, <2>2, <2>3, <2>4, <2>5, <2>6 DEF RecStep
<1>3. sendCh' \in Seq(Msgs)
  <2>1. CASE SendAuth
    <3>1. PICK m \in Msgs : sendCh' = Append(sendCh, m)
      BY <2>1, MsgTypes DEF SendAuth
    <3> QED BY <1>1, <3>1
  <2>2. CASE Resubscribe
    <3>1. PICK ch \in rec.todo : sendCh' = Append(sendCh, Msg("subscribe", ch, ch \in lastSeen))
      BY <2>2 DEF Resubscribe
    <3>2. Msg("subscribe", ch, ch \in lastSeen) \in Msgs
      <4>1. ch \in Channels /\ (ch \in lastSeen) \in BOOLEAN
        BY <1>1 DEF Recs
      <4> QED BY <4>1 DEF Msg, Msgs
    <3> QED BY <1>1, <3>1, <3>2
  <2>3. CASE ~SendAuth /\ ~Resubscribe
    BY <1>1, <2>3 DEF RecStep, Backoff, DialFail, LockSubs, Established, ReconnectReturns
  <2> QED BY <2>1, <2>2, <2>3
<1>4. connected' \in BOOLEAN /\ reconnecting' \in BOOLEAN
  BY DEF RecStep, Backoff, DialFail, LockSubs, Established, ReconnectReturns, SendAuth,
         Resubscribe, localVars, Types, CallTypes
<1>5. UNCHANGED <<stream, subs, cl, snd, rcv, serverVars>>
  BY DEF RecStep, Backoff, DialFail, LockSubs, Established, ReconnectReturns, SendAuth,
         Resubscribe, localVars, subVars
<1> QED
  BY <1>2, <1>3, <1>4, <1>5 DEF Types, ServerTypes, LoopTypes, CallTypes, serverVars

LEMMA DialTypes ==
  ASSUME Types, DialOk
  PROVE  Types'
<1>1. ServerTypes'
  BY DEF DialOk, Types, ServerTypes, NoServer, Servers
<1>2. LoopTypes'
  BY DEF DialOk, Types, ServerTypes, LoopTypes, Senders, Receivers
<1>3. rec' \in Recs
  <2>1. rec \in Recs
    BY DEF Types, CallTypes
  <2>2. rec' = [rec EXCEPT !.pc = "auth"] \/ rec' = [rec EXCEPT !.pc = "lock"]
    BY DEF DialOk
  <2> QED BY <2>1, <2>2 DEF Recs
<1> QED BY <1>1, <1>2, <1>3 DEF DialOk, Types, CallTypes, subVars

\* What handleDisconnect does for either loop.
LEMMA DisconnectTypes ==
  ASSUME Types, NEW t, NEW u, NEW S, HandleDisconnect(t, u),
         t \in [pc : S, msg : Msgs, stream : Nat], t.stream <= opened,
         {"idle", "offline", "restart"} \subseteq S
  PROVE  /\ stream' \in {0, stream} /\ connected' \in BOOLEAN /\ reconnecting' \in BOOLEAN
         /\ rec' \in Recs
         /\ u \in [pc : S, msg : Msgs, stream : Nat] /\ u.stream <= opened
<1>1. opened \in Nat /\ rec \in Recs /\ connected \in BOOLEAN /\ reconnecting \in BOOLEAN
  BY DEF Types, ServerTypes, CallTypes
<1>2. CASE DropStream(t, u)
  <2>1. /\ stream' \in {0, stream} /\ UNCHANGED <<connected, reconnecting, rec>>
        /\ u = [t EXCEPT !.pc = "idle", !.stream = 0] \/ u = [t EXCEPT !.pc = "offline"]
    BY <1>2 DEF DropStream
  <2>2. CASE u = [t EXCEPT !.pc = "idle", !.stream = 0]
    <3>1. u \in [pc : S, msg : Msgs, stream : Nat]
      BY <2>2
    <3>2. u.stream = 0
      BY <2>2
    <3> QED BY <1>1, <2>1, <3>1, <3>2
  <2>3. CASE u = [t EXCEPT !.pc = "offline"]
    BY <1>1, <2>1, <2>3
  <2> QED BY <2>1, <2>2, <2>3
<1>3. CASE GoOffline(t, u)
  BY <1>1, <1>3 DEF GoOffline
<1>4. CASE StartReconnect(t, u)
  <2>1. rec' \in Recs /\ reconnecting' \in BOOLEAN
    <3>1. CASE reconnecting
      BY <1>1, <1>4, <3>1 DEF StartReconnect
    <3>2. CASE ~reconnecting
      BY <1>1, <1>4, <3>2 DEF StartReconnect, NoRec, Recs
    <3> QED BY <3>1, <3>2
  <2>2. /\ u = [t EXCEPT !.pc = "idle", !.stream = 0]
        /\ UNCHANGED <<stream, connected>>
    BY <1>4 DEF StartReconnect
  <2>3. u \in [pc : S, msg : Msgs, stream : Nat]
    BY <2>2
  <2>4. u.stream = 0
    BY <2>2
  <2> QED BY <1>1, <2>1, <2>2, <2>3, <2>4
<1> QED BY <1>2, <1>3, <1>4 DEF HandleDisconnect

LEMMA LoopDisconnectTypes ==
  ASSUME Types, SendDisconnect \/ RecvDisconnect
  PROVE  Types'
<1>1. CASE SendDisconnect
  <2>1. /\ stream' \in {0, stream} /\ connected' \in BOOLEAN /\ reconnecting' \in BOOLEAN
        /\ rec' \in Recs /\ snd' \in Senders /\ snd'.stream <= opened
    <3> DEFINE S == {"idle", "load", "send", "drop", "offline", "restart"}
    <3>1. /\ snd \in [pc : S, msg : Msgs, stream : Nat] /\ snd.stream <= opened
          /\ {"idle", "offline", "restart"} \subseteq S
      BY DEF Types, LoopTypes, Senders
    <3>2. HandleDisconnect(snd, snd')
      BY <1>1 DEF SendDisconnect
    <3>3. Senders = [pc : S, msg : Msgs, stream : Nat]
      BY DEF Senders
    <3> HIDE DEF S
    <3> QED BY <3>1, <3>2, <3>3, DisconnectTypes
  <2> QED BY <1>1, <2>1 DEF SendDisconnect, Types, ServerTypes, LoopTypes, CallTypes,
                            subVars, serverVars
<1>2. CASE RecvDisconnect
  <2>1. /\ stream' \in {0, stream} /\ connected' \in BOOLEAN /\ reconnecting' \in BOOLEAN
        /\ rec' \in Recs /\ rcv' \in Receivers /\ rcv'.stream <= opened
    <3> DEFINE S == {"idle", "recv", "store", "drop", "offline", "restart"}
    <3>1. /\ rcv \in [pc : S, msg : Msgs, stream : Nat] /\ rcv.stream <= opened
          /\ {"idle", "offline", "restart"} \subseteq S
      BY DEF Types, LoopTypes, Receivers
    <3>2. HandleDisconnect(rcv, rcv')
      BY <1>2 DEF RecvDisconnect
    <3>3. Receivers = [pc : S, msg : Msgs, stream : Nat]
      BY DEF Receivers
    <3> HIDE DEF S
    <3> QED BY <3>1, <3>2, <3>3, DisconnectTypes
  <2> QED BY <1>2, <2>1 DEF RecvDisconnect, Types, ServerTypes, LoopTypes, CallTypes,
                            subVars, serverVars
<1> QED BY <1>1, <1>2

\* The send loop.
LEMMA SendTypes ==
  ASSUME Types, SendTake \/ SendLoad \/ SendMsg
  PROVE  Types'
<1>1. /\ snd \in Senders /\ sendCh \in Seq(Msgs) /\ srv \in Servers /\ snd.stream <= opened
      /\ opened \in Nat \ {0} /\ stream \in {0, opened}
  BY DEF Types, ServerTypes, LoopTypes, CallTypes
<1>2. sendCh' \in Seq(Msgs)
  BY <1>1 DEF SendTake, SendLoad, SendMsg
<1>3. snd' \in Senders /\ snd'.stream <= opened
  <2>1. CASE SendTake
    <3>1. PICK m \in Msgs : m = Head(sendCh)
      BY <1>1, <2>1 DEF SendTake
    <3> QED BY <1>1, <2>1, <3>1 DEF SendTake, Senders
  <2>2. CASE SendLoad
    <3>1. CASE stream = 0
      BY <1>1, <2>2, <3>1, MsgTypes DEF SendLoad, Senders
    <3>2. CASE stream # 0
      <4>1. snd' = [snd EXCEPT !.pc = "send", !.stream = stream]
        BY <2>2, <3>2 DEF SendLoad
      <4>2. stream \in Nat /\ stream <= opened
        BY <1>1
      <4>3. snd' \in Senders
        BY <1>1, <4>1, <4>2 DEF Senders
      <4>4. snd'.stream = stream
        BY <1>1, <4>1 DEF Senders
      <4> QED BY <4>2, <4>3, <4>4
    <3> QED BY <3>1, <3>2
  <2>3. CASE SendMsg
    <3>1. \/ snd' = [pc |-> "idle", msg |-> NoMsg, stream |-> 0]
          \/ snd' = [pc |-> "drop", msg |-> NoMsg, stream |-> snd.stream]
      BY <2>3 DEF SendMsg
    <3> QED BY <1>1, <3>1, MsgTypes DEF Senders
  <2> QED BY <2>1, <2>2, <2>3
<1>4. srv' \in Servers
  <2>1. Served(snd.msg) \in Servers
    <3>1. /\ snd.msg.ch \in Channels \union {NoChannel}
          /\ Msg("ack", snd.msg.ch, snd.msg.rp) \in Msgs
      BY <1>1 DEF Senders, Msgs, Msg
    <3>2. Append(srv.inbox, Msg("ack", snd.msg.ch, snd.msg.rp)) \in Seq(Msgs)
      BY <1>1, <3>1 DEF Servers
    <3>3. [srv EXCEPT !.authed = TRUE] \in Servers
      BY <1>1 DEF Servers
    <3>4. [srv EXCEPT !.subs = @ \union {snd.msg.ch},
                      !.inbox = Append(@, Msg("ack", snd.msg.ch, snd.msg.rp))] \in Servers
      BY <1>1, <3>1, <3>2 DEF Servers
    <3>5. [srv EXCEPT !.subs = @ \ {snd.msg.ch}] \in Servers
      BY <1>1 DEF Servers
    <3> QED BY <1>1, <3>3, <3>4, <3>5, Zenon DEF Served
  <2> QED BY <1>1, <2>1 DEF SendTake, SendLoad, SendMsg, serverVars
<1>5. UNCHANGED <<localVars, subs, cl, rcv, rec, opened, alive>>
  BY DEF SendTake, SendLoad, SendMsg, subVars, serverVars
<1> QED
  BY <1>2, <1>3, <1>4, <1>5 DEF Types, ServerTypes, LoopTypes, CallTypes, localVars

\* The receive loop.
LEMMA RecvTypes ==
  ASSUME Types, RecvLoad \/ RecvMsg \/ RecvStore
  PROVE  Types'
<1>1. /\ rcv \in Receivers /\ srv \in Servers /\ rcv.stream <= opened
      /\ opened \in Nat \ {0} /\ stream \in {0, opened}
  BY DEF Types, ServerTypes, LoopTypes
<1>2. CASE RecvLoad \/ RecvStore
  <2>1. rcv' \in Receivers /\ rcv'.stream <= opened
    <3>1. CASE RecvLoad
      <4>1. stream \in Nat /\ stream <= opened
        BY <1>1
      <4>2. rcv' = [rcv EXCEPT !.pc = "recv", !.stream = stream]
        BY <3>1 DEF RecvLoad
      <4>3. rcv' \in Receivers
        BY <1>1, <4>1, <4>2 DEF Receivers
      <4>4. rcv'.stream = stream
        BY <1>1, <4>2 DEF Receivers
      <4> QED BY <4>1, <4>3, <4>4
    <3>2. CASE RecvStore
      BY <1>1, <3>2, MsgTypes DEF RecvStore, Receivers
    <3> QED BY <1>2, <3>1, <3>2
  <2> QED BY <1>2, <2>1 DEF RecvLoad, RecvStore, Types, ServerTypes, LoopTypes, CallTypes,
                            localVars, subVars, serverVars
<1>3. CASE RecvMsg
  <2>1. rcv' \in Receivers /\ rcv'.stream <= opened /\ srv' \in Servers
    <3>1. CASE rcv.stream = opened /\ srv.inbox # <<>>
      <4>1. Head(srv.inbox) \in Msgs /\ Tail(srv.inbox) \in Seq(Msgs)
        BY <1>1, <3>1 DEF Servers
      <4>2. srv' \in Servers
        BY <1>1, <1>3, <3>1, <4>1 DEF RecvMsg, Servers
      <4>3. CASE rcv' = [rcv EXCEPT !.pc = "store", !.msg = Head(srv.inbox)]
        BY <1>1, <4>1, <4>2, <4>3 DEF Receivers
      <4>4. CASE rcv' = [rcv EXCEPT !.pc = "idle", !.stream = 0]
        <5>1. rcv' \in Receivers
          BY <1>1, <4>4 DEF Receivers
        <5>2. rcv'.stream = 0
          BY <1>1, <4>4 DEF Receivers
        <5> QED BY <1>1, <4>2, <5>1, <5>2
      <4> QED BY <1>3, <3>1, <4>3, <4>4 DEF RecvMsg
    <3>2. CASE ~(rcv.stream = opened /\ srv.inbox # <<>>)
      BY <1>1, <1>3, <3>2 DEF RecvMsg, Receivers
    <3> QED BY <3>1, <3>2
  <2> QED BY <1>3, <2>1 DEF RecvMsg, Types, ServerTypes, LoopTypes, CallTypes, localVars
<1> QED BY <1>2, <1>3

\* The server end.
LEMMA ServerStepTypes ==
  ASSUME Types, ServerMessage \/ StreamDies
  PROVE  Types'
<1>1. srv \in Servers
  BY DEF Types, ServerTypes
<1>2. srv' \in Servers
  <2>1. CASE ServerMessage
    <3>1. PICK ch \in srv.subs : srv' = [srv EXCEPT !.inbox = Append(@, Msg("data", ch, FALSE))]
      BY <2>1 DEF ServerMessage
    <3>2. Msg("data", ch, FALSE) \in Msgs
      BY <1>1 DEF Servers, Msg, Msgs
    <3>3. Append(srv.inbox, Msg("data", ch, FALSE)) \in Seq(Msgs)
      <4>1. srv.inbox \in Seq(Msgs)
        BY <1>1 DEF Servers
      <4>2. ASSUME NEW q \in Seq(Msgs), NEW m \in Msgs PROVE Append(q, m) \in Seq(Msgs)
        OBVIOUS
      <4> QED BY <3>2, <4>1, <4>2
    <3> QED BY <1>1, <3>1, <3>3 DEF Servers
  <2>2. CASE StreamDies
    <3>1. PICK n \in 0 .. Len(srv.inbox) : srv' = [srv EXCEPT !.inbox = SubSeq(@, 1, n)]
      BY <2>2 DEF StreamDies
    <3>2. SubSeq(srv.inbox, 1, n) \in Seq(Msgs)
      <4>1. srv.inbox \in Seq(Msgs)
        BY <1>1 DEF Servers
      <4> QED BY <4>1
    <3> QED BY <1>1, <3>1, <3>2 DEF Servers
  <2> QED BY <2>1, <2>2
<1>3. alive' \in {0, alive} /\ UNCHANGED <<localVars, subs, sendCh, cl, snd, rcv, rec, opened>>
  BY DEF ServerMessage, StreamDies, subVars
<1> QED
  BY <1>2, <1>3 DEF Types, ServerTypes, LoopTypes, CallTypes, localVars

LEMMA NextTypes == Types /\ [Next]_vars => Types'
<1> SUFFICES ASSUME Types, [Next]_vars PROVE Types'
  OBVIOUS
<1>1. CASE UNCHANGED vars
  BY <1>1 DEF vars, Types, ServerTypes, LoopTypes, CallTypes
<1> QED
  BY <1>1, SessionTypes, EnqueueTypes, ReconnectTypes, DialTypes, LoopDisconnectTypes,
     SendTypes, RecvTypes, ServerStepTypes
     DEF Next, ClientStep, SendStep, RecvStep

-----------------------------------------------------------------------------
\* Streams and the reconnect goroutine.

\* The teardown of one loop "t", which becomes "u", next to the other loop "o".
LEMMA DisconnectStreams ==
  ASSUME Types, NEW t, NEW u, NEW o, HandleDisconnect(t, u), UNCHANGED opened,
         t.pc = "drop" => t.stream # 0 /\ t.stream # alive,
         t.pc \in Leaving => stream = 0 /\ rec.pc \in {"none", "finish"} /\ o.pc \notin Leaving,
         t.pc = "restart" => ~connected,
         o.pc \in Leaving => stream = 0 /\ rec.pc \in {"none", "finish"},
         o.pc = "restart" => ~connected,
         NEW S, t \in [pc : S, msg : Msgs, stream : Nat],
         Phase
  PROVE  /\ Phase'
         /\ u.pc \in {"idle", "offline", "restart"}
         /\ u.pc \in Leaving => stream' = 0 /\ rec'.pc \in {"none", "finish"} /\ o.pc \notin Leaving
         /\ u.pc = "restart" => ~connected'
         /\ o.pc \in Leaving => stream' = 0 /\ rec'.pc \in {"none", "finish"}
         /\ o.pc = "restart" => ~connected'
         /\ (stream # 0 /\ stream' = 0) => alive # stream
<1>1. CASE DropStream(t, u)
  <2>1. CASE stream # t.stream
    <3>1. u.pc = "idle" /\ UNCHANGED <<stream, connected, reconnecting, rec>>
      BY <1>1, <2>1 DEF DropStream
    <3>2. Phase'
      BY <3>1 DEF Phase
    <3> QED BY <3>1, <3>2 DEF Leaving
  <2>2. CASE stream = t.stream
    <3>1. /\ u.pc = "offline" /\ stream' = 0 /\ UNCHANGED <<connected, reconnecting, rec>>
          /\ t.pc = "drop" /\ StreamMuFree
      BY <1>1, <2>2 DEF DropStream
    <3>2. stream # 0 /\ alive # stream
      BY <2>2, <3>1
    <3>3. rec.pc \in {"none", "finish"}
      BY <3>1, <3>2 DEF StreamMuFree, Phase, Types, CallTypes, Recs
    <3>4. o.pc \notin Leaving
      BY <3>2
    <3> QED BY <3>1, <3>2, <3>3, <3>4 DEF Phase, Leaving
  <2> QED BY <2>1, <2>2
<1>2. CASE GoOffline(t, u)
  <2>1. /\ t.pc = "offline" /\ u.pc = "restart" /\ connected' = FALSE
        /\ UNCHANGED <<stream, reconnecting, rec>>
    BY <1>2 DEF GoOffline
  <2> QED BY <2>1 DEF Phase, Leaving
<1>3. CASE StartReconnect(t, u)
  <2>1. t.pc = "restart" /\ u.pc = "idle" /\ UNCHANGED <<stream, connected>>
    BY <1>3 DEF StartReconnect
  <2>2. stream = 0 /\ ~connected /\ o.pc \notin Leaving
    BY <2>1 DEF Leaving
  <2>3. CASE reconnecting
    BY <1>3, <2>1, <2>2, <2>3 DEF StartReconnect, Phase, Leaving
  <2>4. CASE ~reconnecting
    <3>1. reconnecting' = TRUE /\ rec'.pc = "delay"
      BY <1>3, <2>4 DEF StartReconnect, NoRec
    <3> QED BY <2>1, <2>2, <3>1 DEF Phase, Leaving
  <2> QED BY <2>3, <2>4
<1> QED BY <1>1, <1>2, <1>3 DEF HandleDisconnect

LEMMA NextStreams ==
  ASSUME Types, Streams, [Next]_vars
  PROVE  Streams' /\ ((stream # 0 /\ stream' = 0) => alive # stream)
<1> USE DEF Streams
<1>1. CASE UNCHANGED <<localVars, snd, rcv, alive, rec, opened>>
  BY <1>1 DEF localVars, DropsDead, TeardownAlone, Phase
<1>2. CASE RecStep \/ DialFail
  <2>1. UNCHANGED <<stream, snd, rcv, serverVars>>
    BY <1>2 DEF RecStep, Backoff, DialFail, LockSubs, Established, ReconnectReturns, SendAuth,
                Resubscribe, localVars
  <2>2. rec \in Recs
    BY DEF Types, CallTypes
  <2>3. /\ rec.pc \notin {"none"}
        /\ \/ UNCHANGED <<connected, reconnecting>> /\ rec.pc \in {"delay", "dial"}
              /\ rec'.pc \in {"delay", "dial", "finish"}
           \/ UNCHANGED <<connected, reconnecting>> /\ rec.pc \in {"auth", "lock", "sweep"}
              /\ rec'.pc \in {"auth", "lock", "sweep"}
           \/ connected' = TRUE /\ UNCHANGED reconnecting /\ rec.pc = "sweep" /\ rec'.pc = "finish"
           \/ UNCHANGED connected /\ reconnecting' = FALSE /\ rec.pc = "finish" /\ rec'.pc = "none"
    <3>1. CASE Backoff
      BY <2>2, <3>1 DEF Backoff, localVars, Recs
    <3>2. CASE DialFail
      BY <2>2, <3>2 DEF DialFail, localVars, Recs
    <3>3. CASE SendAuth \/ LockSubs \/ Resubscribe
      BY <2>2, <3>3 DEF SendAuth, LockSubs, Resubscribe, localVars, Recs
    <3>4. CASE Established
      BY <2>2, <3>4 DEF Established, Recs
    <3>5. CASE ReconnectReturns
      BY <2>2, <3>5 DEF ReconnectReturns, NoRec
    <3> QED BY <1>2, <3>1, <3>2, <3>3, <3>4, <3>5 DEF RecStep
  <2>4. Phase'
    BY <2>1, <2>3 DEF Phase, serverVars, Types, ServerTypes
  <2>5. TeardownAlone'
    BY <2>1, <2>3 DEF Phase, TeardownAlone, Leaving, serverVars, Types, ServerTypes
  <2> QED BY <2>1, <2>4, <2>5 DEF DropsDead, serverVars
<1>3. CASE DialOk
  <2>1. /\ rec.pc = "dial" /\ rec'.pc \in {"auth", "lock"} /\ UNCHANGED <<connected, reconnecting, snd, rcv>>
        /\ stream' = opened + 1 /\ alive' = opened + 1 /\ opened' = opened + 1
    BY <1>3 DEF DialOk, Types, CallTypes, Recs
  <2>2. Phase' /\ TeardownAlone'
    BY <2>1 DEF Phase, TeardownAlone
  <2>3. DropsDead(snd)' /\ DropsDead(rcv)'
    BY <2>1 DEF DropsDead, Types, ServerTypes, LoopTypes, Senders, Receivers
  <2> QED BY <2>1, <2>2, <2>3 DEF Types, ServerTypes
<1>4. CASE SendTake \/ SendLoad \/ SendMsg
  <2>1. UNCHANGED <<localVars, rcv, rec, opened, alive>>
    BY <1>4 DEF SendTake, SendLoad, SendMsg, serverVars
  <2>2. snd'.pc \notin Leaving /\ DropsDead(snd)'
    <3>1. CASE SendTake
      BY <2>1, <3>1 DEF SendTake, DropsDead, Leaving, Types, LoopTypes, Senders
    <3>2. CASE SendLoad
      BY <2>1, <3>2 DEF SendLoad, DropsDead, Leaving, Types, LoopTypes, Senders
    <3>3. CASE SendMsg
      <4>1. \/ snd' = [pc |-> "idle", msg |-> NoMsg, stream |-> 0]
            \/ snd' = [pc |-> "drop", msg |-> NoMsg, stream |-> snd.stream] /\ alive # snd.stream
        BY <3>3 DEF SendMsg
      <4>2. snd.stream # 0
        BY <3>3 DEF SendMsg, DropsDead
      <4> QED BY <2>1, <4>1, <4>2 DEF DropsDead, Leaving
    <3> QED BY <1>4, <3>1, <3>2, <3>3
  <2> QED BY <2>1, <2>2 DEF DropsDead, TeardownAlone, Phase, localVars, Leaving
<1>5. CASE RecvLoad \/ RecvMsg \/ RecvStore
  <2>1. UNCHANGED <<localVars, snd, rec, opened, alive>>
    BY <1>5 DEF RecvLoad, RecvMsg, RecvStore, serverVars
  <2>2. rcv'.pc \notin Leaving /\ DropsDead(rcv)'
    <3>0. rcv \in Receivers
      BY DEF Types, LoopTypes
    <3>1. CASE RecvLoad
      BY <2>1, <3>0, <3>1 DEF RecvLoad, DropsDead, Leaving, Receivers
    <3>2. CASE RecvStore
      BY <2>1, <3>2 DEF RecvStore, DropsDead, Leaving
    <3>3. CASE RecvMsg /\ rcv.stream = opened /\ srv.inbox # <<>>
      <4>1. rcv'.pc \in {"store", "idle"}
        BY <3>0, <3>3 DEF RecvMsg, Receivers
      <4> QED BY <4>1 DEF DropsDead, Leaving
    <3>4. CASE RecvMsg /\ ~(rcv.stream = opened /\ srv.inbox # <<>>)
      <4>1. rcv' = [rcv EXCEPT !.pc = "drop"] /\ alive # rcv.stream /\ rcv.pc = "recv"
        BY <3>4 DEF RecvMsg
      <4>2. rcv'.pc = "drop" /\ rcv'.stream = rcv.stream
        BY <3>0, <4>1 DEF Receivers
      <4> QED BY <2>1, <4>1, <4>2 DEF DropsDead, Leaving
    <3> QED BY <1>5, <3>1, <3>2, <3>3, <3>4
  <2> QED BY <2>1, <2>2 DEF DropsDead, TeardownAlone, Phase, localVars, Leaving
<1>6. CASE StreamDies
  <2>1. alive' = 0 /\ UNCHANGED <<localVars, snd, rcv, rec, opened>>
    BY <1>6 DEF StreamDies
  <2> QED BY <2>1 DEF DropsDead, TeardownAlone, Phase, localVars, Leaving
<1>7. CASE SendDisconnect
  <2>1. HandleDisconnect(snd, snd') /\ UNCHANGED <<rcv, opened, alive>>
    BY <1>7 DEF SendDisconnect, serverVars
  <2>2. PICK S : snd \in [pc : S, msg : Msgs, stream : Nat]
    BY DEF Types, LoopTypes, Senders
  <2>3. /\ Phase' /\ snd'.pc \in {"idle", "offline", "restart"}
        /\ snd'.pc \in Leaving => stream' = 0 /\ rec'.pc \in {"none", "finish"} /\ rcv.pc \notin Leaving
        /\ snd'.pc = "restart" => ~connected'
        /\ rcv.pc \in Leaving => stream' = 0 /\ rec'.pc \in {"none", "finish"}
        /\ rcv.pc = "restart" => ~connected'
        /\ (stream # 0 /\ stream' = 0) => alive # stream
    BY <2>1, <2>2, DisconnectStreams DEF DropsDead, TeardownAlone
  <2> QED BY <2>1, <2>3 DEF DropsDead, TeardownAlone
<1>8. CASE RecvDisconnect
  <2>1. HandleDisconnect(rcv, rcv') /\ UNCHANGED <<snd, opened, alive>>
    BY <1>8 DEF RecvDisconnect, serverVars
  <2>2. PICK S : rcv \in [pc : S, msg : Msgs, stream : Nat]
    BY DEF Types, LoopTypes, Receivers
  <2>3. /\ Phase' /\ rcv'.pc \in {"idle", "offline", "restart"}
        /\ rcv'.pc \in Leaving => stream' = 0 /\ rec'.pc \in {"none", "finish"} /\ snd.pc \notin Leaving
        /\ rcv'.pc = "restart" => ~connected'
        /\ snd.pc \in Leaving => stream' = 0 /\ rec'.pc \in {"none", "finish"}
        /\ snd.pc = "restart" => ~connected'
        /\ (stream # 0 /\ stream' = 0) => alive # stream
    BY <2>1, <2>2, DisconnectStreams DEF DropsDead, TeardownAlone
  <2> QED BY <2>1, <2>3 DEF DropsDead, TeardownAlone
<1>9. ASSUME NEW c \in Clients, NEW ch \in Channels,
             Subscribe(c, ch) \/ Unsubscribe(c, ch) \/ Publish(c, ch)
      PROVE  UNCHANGED <<localVars, snd, rcv, alive, rec, opened>>
  BY <1>9 DEF Subscribe, Unsubscribe, Publish, serverVars
<1>10. ASSUME NEW c \in Clients, Enqueue(c)
       PROVE  UNCHANGED <<localVars, snd, rcv, alive, rec, opened>>
  BY <1>10 DEF Enqueue, serverVars
<1>11. CASE ServerMessage \/ UNCHANGED vars
  BY <1>1, <1>11 DEF ServerMessage, vars, localVars
<1> QED
  BY <1>1, <1>2, <1>3, <1>4, <1>5, <1>6, <1>7, <1>8, <1>9, <1>10, <1>11
     DEF Next, ClientStep, SendStep, RecvStep

-----------------------------------------------------------------------------
\* The callers that hold subsMu.

LEMMA NextCallers ==
  ASSUME Types, Phase, Callers, [Next]_vars
  PROVE  Callers'
<1> USE DEF Callers
<1>1. CASE UNCHANGED <<cl, subs>> /\ (rec'.pc = "sweep" => rec.pc = "sweep")
  BY <1>1 DEF CallerAlone, CallerPublishes
<1>2. ASSUME NEW c \in Clients, NEW ch \in Channels, Subscribe(c, ch) \/ Unsubscribe(c, ch)
      PROVE  Callers'
  <2>1. /\ cl[c].pc = "idle" /\ rec.pc # "sweep" /\ UNCHANGED rec
        /\ \A d \in Clients : cl[d].pc # "enqueue"
    BY <1>2 DEF Subscribe, Unsubscribe, MayCall, SubsMuFree
  <2>2. /\ \A d \in Clients \ {c} : cl'[d] = cl[d]
        /\ cl'[c].pc \in {"idle", "enqueue"}
        /\ cl'[c].pc = "enqueue" =>
             /\ cl'[c].msg.kind \in {"subscribe", "unsubscribe"}
             /\ cl'[c].msg.kind = "unsubscribe" => subs'[cl'[c].msg.ch] = 0
    <3>1. ASSUME NEW mine, NEW msg, Called(c, mine, msg)
          PROVE  /\ \A d \in Clients \ {c} : cl'[d] = cl[d]
                 /\ cl'[c].pc \in {"idle", "enqueue"}
                 /\ cl'[c].pc = "enqueue" => cl'[c].msg = msg /\ msg # NoMsg
      <4>1. cl \in [Clients -> Calls]
        BY DEF Types, CallTypes
      <4>2. CASE connected
        BY <3>1, <4>1, <4>2 DEF Called
      <4>3. CASE ~connected
        BY <3>1, <4>1, <4>3 DEF Called
      <4> QED BY <4>2, <4>3
    <3>2. CASE Subscribe(c, ch)
      <4>1. CASE subs[ch] = 0
        <5>1. PICK mine : Called(c, mine, Msg("subscribe", ch, FALSE))
          BY <3>2, <4>1 DEF Subscribe
        <5> QED BY <3>1, <5>1 DEF Msg
      <4>2. CASE subs[ch] # 0
        <5>1. PICK mine : Called(c, mine, NoMsg)
          BY <3>2, <4>2 DEF Subscribe
        <5> QED BY <3>1, <5>1
      <4> QED BY <4>1, <4>2
    <3>3. CASE Unsubscribe(c, ch)
      <4>1. CASE subs[ch] = 1
        <5>1. PICK mine : Called(c, mine, Msg("unsubscribe", ch, FALSE))
          BY <3>3, <4>1 DEF Unsubscribe
        <5>2. subs'[ch] = 0
          BY <3>3, <4>1 DEF Unsubscribe, Types, CallTypes
        <5> QED BY <3>1, <5>1, <5>2 DEF Msg
      <4>2. CASE subs[ch] # 1
        <5>1. PICK mine : Called(c, mine, NoMsg)
          BY <3>3, <4>2 DEF Unsubscribe
        <5> QED BY <3>1, <5>1
      <4> QED BY <4>1, <4>2
    <3> QED BY <1>2, <3>2, <3>3
  <2> QED BY <2>1, <2>2 DEF CallerAlone, CallerPublishes
<1>3. ASSUME NEW c \in Clients, NEW ch \in Channels, Publish(c, ch)
      PROVE  Callers'
  <2>1. UNCHANGED <<subs, rec>> /\ cl[c].pc = "idle"
    BY <1>3 DEF Publish, subVars, MayCall
  <2>2. /\ \A d \in Clients \ {c} : cl'[d] = cl[d]
        /\ cl'[c].pc # "enqueue" /\ (cl'[c].pc = "publish" => cl'[c].msg.kind = "publish")
    <3>1. cl \in [Clients -> Calls]
      BY DEF Types, CallTypes
    <3>2. CASE connected
      BY <1>3, <3>1, <3>2 DEF Publish, Calls, Msg
    <3>3. CASE ~connected
      BY <1>3, <3>1, <3>3 DEF Publish, Calls
    <3> QED BY <3>2, <3>3
  <2> QED BY <2>1, <2>2 DEF CallerAlone, CallerPublishes
<1>4. ASSUME NEW c \in Clients, Enqueue(c)
      PROVE  Callers'
  <2>1. UNCHANGED <<subs, rec>> /\ cl' = [cl EXCEPT ![c].pc = "idle", ![c].msg = NoMsg]
    BY <1>4 DEF Enqueue, subVars
  <2>2. cl'[c].pc = "idle" /\ \A d \in Clients \ {c} : cl'[d] = cl[d]
    BY <2>1 DEF Types, CallTypes, Calls
  <2> QED BY <2>1, <2>2 DEF CallerAlone, CallerPublishes
<1>5. CASE RecStep \/ DialFail
  <2>1. UNCHANGED <<cl, subs>>
    BY <1>5 DEF RecStep, Backoff, DialFail, LockSubs, Established, ReconnectReturns, SendAuth,
                Resubscribe, subVars
  <2>2. CASE LockSubs
    <3>1. \A c \in Clients : cl[c].pc # "enqueue"
      BY <2>2 DEF LockSubs, SubsMuFree
    <3> QED BY <2>1, <3>1 DEF CallerAlone, CallerPublishes
  <2>3. CASE ~LockSubs
    <3>1. rec'.pc = "sweep" => rec.pc = "sweep"
      <4>1. rec \in Recs
        BY DEF Types, CallTypes
      <4>2. CASE Backoff
        BY <4>1, <4>2 DEF Backoff, Recs
      <4>3. CASE DialFail
        BY <4>1, <4>3 DEF DialFail, Recs
      <4>4. CASE SendAuth \/ Established
        BY <4>1, <4>4 DEF SendAuth, Established, Recs
      <4>5. CASE ReconnectReturns
        BY <4>5 DEF ReconnectReturns, NoRec
      <4>6. CASE Resubscribe
        BY <4>6 DEF Resubscribe
      <4> QED BY <1>5, <2>3, <4>2, <4>3, <4>4, <4>5, <4>6 DEF RecStep
    <3> QED BY <1>1, <2>1, <3>1
  <2> QED BY <2>2, <2>3
<1>6. CASE DialOk
  BY <1>1, <1>6 DEF DialOk, subVars, Types, CallTypes, Recs
<1>7. CASE SendStep \/ RecvStep
  <2>1. ASSUME NEW t, NEW u, HandleDisconnect(t, u)
        PROVE  rec'.pc = "sweep" => rec.pc = "sweep"
    BY <2>1 DEF HandleDisconnect, DropStream, GoOffline, StartReconnect, NoRec
  <2>2. UNCHANGED <<cl, subs>>
    BY <1>7 DEF SendStep, SendTake, SendLoad, SendMsg, SendDisconnect, RecvStep, RecvLoad,
                RecvMsg, RecvStore, RecvDisconnect, subVars
  <2>3. rec'.pc = "sweep" => rec.pc = "sweep"
    BY <1>7, <2>1 DEF SendStep, SendTake, SendLoad, SendMsg, SendDisconnect, RecvStep, RecvLoad,
                RecvMsg, RecvStore, RecvDisconnect
  <2> QED BY <1>1, <2>2, <2>3
<1>8. CASE ServerMessage \/ StreamDies \/ UNCHANGED vars
  BY <1>1, <1>8 DEF ServerMessage, StreamDies, vars, subVars
<1> QED
  BY <1>2, <1>3, <1>4, <1>5, <1>6, <1>7, <1>8 DEF Next, ClientStep

-----------------------------------------------------------------------------
\* What is on its way to the live stream.

\* Steps that touch neither the queue nor what the send loop will deliver.
LEMMA QuietWay ==
  ASSUME UNCHANGED sendCh, srv'.authed = srv.authed, srv'.subs = srv.subs,
         Carried' <=> Carried, Carried => snd'.msg = snd.msg
  PROVE  /\ \A i \in Nat : Authorised(i) => Authorised(i)'
         /\ \A ch \in Channels : OnTheWay(ch) => OnTheWay(ch)'
<1>1. \A i \in Nat : Authorised(i) => Authorised(i)'
  BY DEF Authorised
<1>2. ASSUME NEW ch \in Channels, InQueue(ch) PROVE InQueue(ch)'
  <2>1. PICK i \in 1 .. Len(sendCh) : Queued(i, "subscribe", ch) /\ Kept(ch, i) /\ Authorised(i)
    BY <1>2 DEF InQueue
  <2>2. Queued(i, "subscribe", ch)' /\ Kept(ch, i)' /\ Authorised(i)'
    BY <1>1, <2>1 DEF Queued, Kept
  <2> QED BY <2>2 DEF InQueue
<1>3. ASSUME NEW ch \in Channels PROVE Kept(ch, 0) => Kept(ch, 0)'
  BY DEF Kept, Queued
<1>4. ASSUME NEW ch \in Channels PROVE InHand(ch) => InHand(ch)'
  BY <1>3 DEF InHand, Carries
<1>5. ASSUME NEW ch \in Channels PROVE AtServer(ch) => AtServer(ch)'
  BY <1>3 DEF AtServer, Carries
<1> QED BY <1>1, <1>2, <1>4, <1>5 DEF OnTheWay

\* A message joins the queue that does not take channel ch away.
LEMMA AppendWay ==
  ASSUME sendCh \in Seq(Msgs), NEW m \in Msgs, sendCh' = Append(sendCh, m),
         UNCHANGED <<snd, srv, alive>>
  PROVE  /\ Authorised(Len(sendCh) + 1) => Authorised(Len(sendCh) + 1)'
         /\ m.kind = "connect" => Authorised(Len(sendCh) + 1)'
         /\ \A ch \in Channels : ~(m.kind = "unsubscribe" /\ m.ch = ch) =>
              /\ OnTheWay(ch) => OnTheWay(ch)'
              /\ (m.kind = "subscribe" /\ m.ch = ch /\ Authorised(Len(sendCh) + 1)) => InQueue(ch)'
<1>0. PICK n \in Nat : n = Len(sendCh)
  OBVIOUS
<1>1. /\ Len(sendCh) = n /\ Len(sendCh') = n + 1 /\ sendCh'[n + 1] = m
      /\ \A i \in 1 .. n : sendCh'[i] = sendCh[i]
  BY <1>0
<1>2. Carried' <=> Carried
  BY DEF Carried
<1>3. ASSUME NEW i \in Nat, NEW k \in Nat, i <= k, Authorised(i) PROVE Authorised(k)'
  <2>1. CASE \E j \in 1 .. Len(sendCh) : j < i /\ sendCh[j].kind = "connect"
    <3>1. PICK j \in 1 .. n : j < i /\ sendCh[j].kind = "connect"
      BY <1>1, <2>1
    <3>2. j \in 1 .. Len(sendCh') /\ j < k /\ sendCh'[j].kind = "connect"
      BY <1>1, <1>3, <3>1
    <3> QED BY <3>2 DEF Authorised
  <2>2. CASE ~Auth \/ srv.authed \/ (Carried /\ snd.msg.kind = "connect")
    BY <1>2, <2>2 DEF Authorised
  <2> QED BY <1>3, <2>1, <2>2 DEF Authorised
<1>4. m.kind = "connect" => Authorised(n + 2)'
  <2>1. SUFFICES ASSUME m.kind = "connect" PROVE Authorised(n + 2)'
    OBVIOUS
  <2>2. n + 1 \in 1 .. Len(sendCh') /\ n + 1 < n + 2 /\ sendCh'[n + 1].kind = "connect"
    BY <1>1, <2>1
  <2> QED BY <2>2 DEF Authorised
<1>5. ASSUME NEW ch \in Channels, ~(m.kind = "unsubscribe" /\ m.ch = ch),
             NEW i \in Nat, Kept(ch, i)
      PROVE  Kept(ch, i)'
  <2>1. ASSUME NEW j \in 1 .. Len(sendCh'), j > i PROVE ~Queued(j, "unsubscribe", ch)'
    <3>1. CASE j \in 1 .. n
      BY <1>1, <1>5, <2>1, <3>1 DEF Kept, Queued
    <3>2. CASE j = n + 1
      BY <1>1, <1>5, <3>2 DEF Queued
    <3> QED BY <1>1, <3>1, <3>2
  <2> QED BY <2>1 DEF Kept
<1>6. ASSUME NEW ch \in Channels, ~(m.kind = "unsubscribe" /\ m.ch = ch), OnTheWay(ch)
      PROVE  OnTheWay(ch)'
  <2>1. CASE InQueue(ch)
    <3>1. PICK i \in 1 .. n : Queued(i, "subscribe", ch) /\ Kept(ch, i) /\ Authorised(i)
      BY <1>1, <2>1 DEF InQueue
    <3>2. /\ i \in 1 .. Len(sendCh') /\ Queued(i, "subscribe", ch)' /\ Kept(ch, i)'
          /\ Authorised(i)'
      BY <1>1, <1>3, <1>5, <1>6, <3>1 DEF Queued
    <3> QED BY <3>2 DEF InQueue, OnTheWay
  <2>2. Kept(ch, 0) => Kept(ch, 0)'
    BY <1>5, <1>6
  <2> QED BY <1>2, <1>6, <2>1, <2>2 DEF OnTheWay, InHand, AtServer, Carries
<1>7. ASSUME NEW ch \in Channels, m.kind = "subscribe", m.ch = ch, Authorised(n + 1)
      PROVE  InQueue(ch)'
  <2>1. n + 1 \in 1 .. Len(sendCh') /\ Queued(n + 1, "subscribe", ch)'
    BY <1>1, <1>7 DEF Queued
  <2>2. Kept(ch, n + 1)'
    BY <1>1 DEF Kept
  <2>3. Authorised(n + 1)'
    BY <1>1, <1>3, <1>7
  <2> QED BY <2>1, <2>2, <2>3 DEF InQueue
<1>8. Authorised(n + 1) => Authorised(n + 2)'
  BY <1>1, <1>3
<1>9. Len(sendCh) + 1 = n + 1 /\ Len(sendCh') + 1 = n + 2
  BY <1>1
<1> QED BY <1>4, <1>6, <1>7, <1>8, <1>9

\* The send loop takes the first message.
LEMMA TakeWay ==
  ASSUME Types, SendTake
  PROVE  /\ \A i \in 1 .. Len(sendCh) : Authorised(i + 1) => Authorised(i)'
         /\ Len(sendCh') + 1 = Len(sendCh)
         /\ \A ch \in Channels : OnTheWay(ch) => OnTheWay(ch)'
<1> DEFINE n == Len(sendCh)
<1>1. /\ n \in Nat /\ n >= 1 /\ Len(sendCh') = n - 1
      /\ \A i \in 1 .. n - 1 : sendCh'[i] = sendCh[i + 1]
  BY DEF SendTake, Types, CallTypes
<1>2. ~Carried /\ Carried' /\ snd'.msg = sendCh[1] /\ UNCHANGED srv
  BY DEF SendTake, Carried, Types, LoopTypes, CallTypes, Senders, serverVars
<1>3. ASSUME NEW i \in 1 .. n, Authorised(i + 1) PROVE Authorised(i)'
  <2>1. CASE \E k \in 1 .. Len(sendCh) : k < i + 1 /\ sendCh[k].kind = "connect"
    <3>1. PICK k \in 1 .. n : k < i + 1 /\ sendCh[k].kind = "connect"
      BY <2>1
    <3>2. CASE k = 1
      BY <1>2, <3>1, <3>2 DEF Authorised
    <3>3. CASE k # 1
      <4>1. k - 1 \in 1 .. Len(sendCh') /\ k - 1 < i /\ sendCh'[k - 1].kind = "connect"
        BY <1>1, <3>1, <3>3
      <4> QED BY <4>1 DEF Authorised
    <3> QED BY <3>2, <3>3
  <2>2. CASE ~Auth \/ srv.authed
    BY <1>2, <2>2 DEF Authorised
  <2> QED BY <1>2, <1>3, <2>1, <2>2 DEF Authorised
<1>4. ASSUME NEW ch \in Channels, NEW i \in 0 .. n - 1, Kept(ch, i + 1) PROVE Kept(ch, i)'
  <2>1. ASSUME NEW j \in 1 .. Len(sendCh'), j > i PROVE ~Queued(j, "unsubscribe", ch)'
    <3>1. j + 1 \in 1 .. n /\ j + 1 > i + 1 /\ sendCh'[j] = sendCh[j + 1]
      BY <1>1, <2>1
    <3> QED BY <1>4, <3>1 DEF Kept, Queued
  <2> QED BY <2>1 DEF Kept
<1>5. ASSUME NEW ch \in Channels, InQueue(ch) PROVE OnTheWay(ch)'
  <2>1. PICK i \in 1 .. n : Queued(i, "subscribe", ch) /\ Kept(ch, i) /\ Authorised(i)
    BY <1>5 DEF InQueue
  <2>2. CASE i = 1
    <3>1. Auth => srv.authed
      BY <1>2, <2>1, <2>2 DEF Authorised
    <3>2. Kept(ch, 0)'
      BY <1>1, <1>4, <2>1, <2>2
    <3>3. Carries("subscribe", ch)'
      BY <1>2, <2>1, <2>2 DEF Carries, Queued
    <3> QED BY <1>2, <3>1, <3>2, <3>3 DEF InHand, OnTheWay
  <2>3. CASE i # 1
    <3>1. i - 1 \in 1 .. Len(sendCh') /\ sendCh'[i - 1] = sendCh[i] /\ i - 1 \in 0 .. n - 1
          /\ (i - 1) + 1 = i
      BY <1>1, <2>3
    <3>2. Kept(ch, i - 1)'
      BY <1>4, <2>1, <3>1
    <3>3. Authorised(i - 1)'
      BY <1>3, <2>1, <3>1
    <3> QED BY <2>1, <3>1, <3>2, <3>3 DEF InQueue, Queued, OnTheWay
  <2> QED BY <2>2, <2>3
<1>6. ASSUME NEW ch \in Channels, AtServer(ch) PROVE AtServer(ch)'
  <2>1. ~Queued(1, "unsubscribe", ch) /\ Kept(ch, 1)
    BY <1>1, <1>6 DEF AtServer, Kept
  <2>2. Kept(ch, 0)'
    BY <1>1, <1>4, <2>1
  <2> QED BY <1>2, <1>6, <2>1, <2>2 DEF AtServer, Carries, Queued
<1> QED BY <1>1, <1>2, <1>3, <1>5, <1>6 DEF OnTheWay, InHand, Carries

\* The live stream serves a message.
LEMMA SendWay ==
  ASSUME Types, SendMsg
  PROVE  /\ \A i \in Nat : Authorised(i) => Authorised(i)'
         /\ \A ch \in Channels : OnTheWay(ch) => OnTheWay(ch)'
<1>1. snd \in Senders /\ srv \in Servers
  BY DEF Types, LoopTypes, ServerTypes
<1>2. UNCHANGED <<sendCh, alive>> /\ snd.pc = "send"
  BY DEF SendMsg
<1>3. CASE alive # snd.stream
  <2>1. snd'.pc \in {"idle", "drop"} /\ UNCHANGED srv
    BY <1>3 DEF SendMsg
  <2>2. ~Carried /\ ~Carried'
    BY <1>2, <1>3, <2>1 DEF Carried
  <2> QED BY <1>2, <2>1, <2>2, QuietWay
<1>4. CASE alive = snd.stream
  <2>1. Carried /\ ~Carried' /\ srv' = Served(snd.msg)
    BY <1>4 DEF SendMsg, Carried
  <2>2. /\ srv.authed => srv'.authed
        /\ snd.msg.kind = "connect" => srv'.authed
        /\ (snd.msg.kind = "subscribe" /\ (Auth => srv.authed)) => snd.msg.ch \in srv'.subs
        /\ \A ch \in srv.subs : ~(snd.msg.kind = "unsubscribe" /\ snd.msg.ch = ch) => ch \in srv'.subs
    <3>1. CASE snd.msg.kind = "connect"
      <4>1. srv' = [srv EXCEPT !.authed = TRUE]
        BY <2>1, <3>1 DEF Served
      <4> QED BY <1>1, <3>1, <4>1 DEF Servers
    <3>2. CASE snd.msg.kind # "connect" /\ Auth /\ ~srv.authed
      BY <2>1, <3>2 DEF Served
    <3>3. CASE snd.msg.kind # "connect" /\ (Auth => srv.authed)
      <4>1. CASE snd.msg.kind = "subscribe" /\ snd.msg.ch \notin srv.subs
        <5>1. srv' = [srv EXCEPT !.subs = @ \union {snd.msg.ch},
                                 !.inbox = Append(@, Msg("ack", snd.msg.ch, snd.msg.rp))]
          BY <2>1, <3>3, <4>1, Zenon DEF Served
        <5>2. srv'.subs = srv.subs \union {snd.msg.ch} /\ srv'.authed = srv.authed
          BY <1>1, <5>1 DEF Servers
        <5> QED BY <3>3, <4>1, <5>2
      <4>2. CASE snd.msg.kind = "unsubscribe"
        <5>1. srv' = [srv EXCEPT !.subs = @ \ {snd.msg.ch}]
          BY <2>1, <3>3, <4>2 DEF Served
        <5>2. srv'.subs = srv.subs \ {snd.msg.ch} /\ srv'.authed = srv.authed
          BY <1>1, <5>1 DEF Servers
        <5> QED BY <3>3, <4>2, <5>2
      <4>3. CASE /\ snd.msg.kind # "unsubscribe"
                 /\ ~(snd.msg.kind = "subscribe" /\ snd.msg.ch \notin srv.subs)
        <5>1. srv' = srv
          BY <2>1, <3>3, <4>3, Zenon DEF Served
        <5> QED BY <3>3, <4>3, <5>1
      <4> QED BY <4>1, <4>2, <4>3
    <3> QED BY <3>1, <3>2, <3>3
  <2>3. ASSUME NEW i \in Nat, Authorised(i) PROVE Authorised(i)'
    BY <1>2, <2>2, <2>3 DEF Authorised
  <2>4. ASSUME NEW ch \in Channels, NEW i \in Nat, Kept(ch, i) PROVE Kept(ch, i)'
    BY <1>2, <2>4 DEF Kept, Queued
  <2>5. ASSUME NEW ch \in Channels, InQueue(ch) PROVE InQueue(ch)'
    <3>1. PICK i \in 1 .. Len(sendCh) : Queued(i, "subscribe", ch) /\ Kept(ch, i) /\ Authorised(i)
      BY <2>5 DEF InQueue
    <3>2. Queued(i, "subscribe", ch)' /\ Kept(ch, i)' /\ Authorised(i)'
      BY <1>2, <2>3, <2>4, <3>1 DEF Queued
    <3> QED BY <1>2, <3>2 DEF InQueue
  <2>6. ASSUME NEW ch \in Channels, InHand(ch) \/ AtServer(ch) PROVE AtServer(ch)'
    <3>1. Kept(ch, 0)'
      BY <2>4, <2>6 DEF InHand, AtServer
    <3>2. ch \in srv'.subs
      BY <2>1, <2>2, <2>6 DEF InHand, AtServer, Carries
    <3> QED BY <2>1, <3>1, <3>2 DEF AtServer, Carries
  <2> QED BY <2>3, <2>5, <2>6 DEF OnTheWay
<1> QED BY <1>3, <1>4

\* Where the messages and the sweep of a step leave the live stream.
LEMMA NextCovered ==
  ASSUME Types, Types', Streams, Callers, AuthComing, AllCovered, [Next]_vars
  PROVE  AuthComing' /\ AllCovered'
<1> DEFINE Late == {"sweep", "none", "finish"}
           Sent == {"lock", "sweep", "none", "finish"}
<1>0. /\ sendCh \in Seq(Msgs) /\ Len(sendCh) + 1 \in Nat /\ Len(sendCh') + 1 \in Nat
      /\ subs \in [Channels -> Nat] /\ cl \in [Clients -> Calls] /\ rec \in Recs
      /\ rec' \in Recs
  BY DEF Types, CallTypes
\* Nothing on its way changes, and nobody who will send does.
<1>1. ASSUME UNCHANGED sendCh, srv'.authed = srv.authed, srv'.subs = srv.subs,
             Carried' <=> Carried, Carried => snd'.msg = snd.msg,
             UNCHANGED <<cl, subs>>,
             Serving' => Serving,
             (Serving' /\ rec'.pc \in Sent) => rec.pc \in Sent,
             (Serving' /\ rec'.pc \in Late) =>
               rec.pc \in Late /\ \A ch \in Channels : ToSweep(ch) => ToSweep(ch)'
      PROVE  AuthComing' /\ AllCovered'
  <2>1. /\ \A i \in Nat : Authorised(i) => Authorised(i)'
        /\ \A ch \in Channels : OnTheWay(ch) => OnTheWay(ch)'
    BY <1>1, QuietWay
  <2>2. AuthComing'
    <3>1. SUFFICES ASSUME Serving', rec'.pc \in Sent PROVE Authorised(Len(sendCh) + 1)'
      BY DEF AuthComing
    <3>2. Authorised(Len(sendCh) + 1) /\ Len(sendCh') = Len(sendCh)
      BY <1>1, <3>1 DEF AuthComing
    <3>3. PICK i \in Nat : i = Len(sendCh) + 1
      BY <1>0
    <3> QED BY <2>1, <3>2, <3>3
  <2>3. AllCovered'
    <3>1. SUFFICES ASSUME Serving', rec'.pc \in Late, NEW ch \in Channels, subs'[ch] > 0
                   PROVE  Covered(ch)'
      BY DEF AllCovered
    <3>2. Covered(ch)
      BY <1>1, <3>1 DEF AllCovered
    <3> QED BY <1>1, <2>1, <3>1, <3>2 DEF Covered, ToEnqueue
  <2> QED BY <2>2, <2>3
\* A call that only adds to what is enqueued.
<1>2. ASSUME NEW c \in Clients, NEW ch \in Channels,
             Subscribe(c, ch) \/ Unsubscribe(c, ch) \/ Publish(c, ch)
      PROVE  AuthComing' /\ AllCovered'
  <2>1. UNCHANGED <<localVars, sendCh, snd, rec, alive, srv>> /\ cl[c].pc = "idle"
    BY <1>2 DEF Subscribe, Unsubscribe, Publish, serverVars, MayCall
  <2>2. Carried' <=> Carried
    BY <2>1 DEF Carried
  <2>3. /\ \A i \in Nat : Authorised(i) => Authorised(i)'
        /\ \A x \in Channels : OnTheWay(x) => OnTheWay(x)'
    BY <2>1, <2>2, QuietWay
  <2>4. AuthComing'
    BY <1>0, <2>1, <2>3 DEF AuthComing, Serving, localVars
  <2>5. \A d \in Clients \ {c} : cl'[d] = cl[d]
    BY <1>0, <1>2 DEF Subscribe, Unsubscribe, Publish, Called
  <2>6. ASSUME NEW x \in Channels, Covered(x) PROVE Covered(x)'
    BY <2>1, <2>3, <2>5, <2>6 DEF Covered, ToEnqueue, ToSweep
  <2>7. ASSUME Serving', rec'.pc \in Late, NEW x \in Channels, subs'[x] > 0, ~(subs[x] > 0)
        PROVE  ToEnqueue(x)'
    <3>1. subs[x] = 0
      BY <1>0, <2>7
    <3>2. Subscribe(c, ch) /\ x = ch
      BY <1>0, <1>2, <2>7, <3>1 DEF Subscribe, Unsubscribe, Publish, subVars
    <3>3. connected
      BY <2>1, <2>7, <3>2 DEF Subscribe, SubsMuFree, Streams, Phase, Serving, localVars
    <3>4. PICK mine : Called(c, mine, Msg("subscribe", ch, FALSE))
      BY <3>1, <3>2 DEF Subscribe
    <3>5. Msg("subscribe", ch, FALSE) # NoMsg
      <4>1. Msg("subscribe", ch, FALSE).kind = "subscribe" /\ NoMsg.kind = "none"
        BY DEF Msg, NoMsg
      <4> QED BY <4>1
    <3>6. cl'[c].pc = "enqueue" /\ cl'[c].msg = Msg("subscribe", ch, FALSE)
      BY <1>0, <3>3, <3>4, <3>5 DEF Called
    <3> QED BY <3>2, <3>6 DEF ToEnqueue, Msg
  <2> QED BY <2>1, <2>4, <2>6, <2>7 DEF AllCovered, Covered, Serving, localVars
<1>3. ASSUME NEW c \in Clients, Enqueue(c)
      PROVE  AuthComing' /\ AllCovered'
  <2>1. PICK m \in Msgs : m = cl[c].msg
    BY <1>0 DEF Calls
  <2>2. /\ sendCh' = Append(sendCh, m) /\ UNCHANGED <<snd, srv, alive>>
        /\ UNCHANGED <<stream, subs, rec>> /\ cl[c].pc \in {"enqueue", "publish"}
    BY <1>3, <2>1 DEF Enqueue, serverVars, localVars, subVars
  <2>3. /\ Authorised(Len(sendCh) + 1) => Authorised(Len(sendCh) + 1)'
        /\ \A ch \in Channels : ~(m.kind = "unsubscribe" /\ m.ch = ch) =>
             /\ OnTheWay(ch) => OnTheWay(ch)'
             /\ (m.kind = "subscribe" /\ m.ch = ch /\ Authorised(Len(sendCh) + 1)) => InQueue(ch)'
    BY <1>0, <2>2, AppendWay
  <2>4. AuthComing'
    BY <2>2, <2>3 DEF AuthComing, Serving
  <2>5. ASSUME Serving', rec'.pc \in Late, NEW ch \in Channels, subs'[ch] > 0
        PROVE  Covered(ch)'
    <3>1. Covered(ch) /\ Authorised(Len(sendCh) + 1)
      BY <2>2, <2>5 DEF AllCovered, AuthComing, Serving
    <3>2. ~(m.kind = "unsubscribe" /\ m.ch = ch)
      BY <1>0, <2>1, <2>2, <2>5 DEF Callers, CallerAlone, CallerPublishes
    <3>3. \A d \in Clients \ {c} : cl'[d] = cl[d]
      BY <1>0, <1>3 DEF Enqueue
    <3>4. ToEnqueue(ch) => ToEnqueue(ch)' \/ (m.kind = "subscribe" /\ m.ch = ch)
      BY <2>1, <3>3 DEF ToEnqueue
    <3>5. ToSweep(ch) => ToSweep(ch)'
      BY <2>2 DEF ToSweep
    <3> QED BY <2>3, <3>1, <3>2, <3>4, <3>5 DEF Covered, OnTheWay
  <2> QED BY <2>4, <2>5 DEF AllCovered
\* The reconnect goroutine.
<1>4. CASE SendAuth
  <2>1. PICK m \in Msgs : sendCh' = Append(sendCh, m) /\ m.kind = "connect"
    BY <1>4, MsgTypes DEF SendAuth, Msg
  <2>2. UNCHANGED <<snd, srv, alive>> /\ rec'.pc = "lock"
    BY <1>0, <1>4 DEF SendAuth, serverVars, Recs
  <2>3. Authorised(Len(sendCh) + 1)'
    BY <1>0, <2>1, <2>2, AppendWay
  <2> QED BY <2>2, <2>3 DEF AuthComing, AllCovered
<1>5. CASE Resubscribe
  <2>1. PICK ch \in rec.todo :
          /\ sendCh' = Append(sendCh, Msg("subscribe", ch, ch \in lastSeen))
          /\ rec' = [rec EXCEPT !.todo = @ \ {ch}]
    BY <1>5 DEF Resubscribe
  <2>2. PICK m \in Msgs : m = Msg("subscribe", ch, ch \in lastSeen)
    <3>1. ch \in Channels /\ (ch \in lastSeen) \in BOOLEAN
      BY <1>0 DEF Recs
    <3> QED BY <3>1 DEF Msg, Msgs
  <2>3. m.kind = "subscribe" /\ m.ch = ch
    BY <2>2 DEF Msg
  <2>4. UNCHANGED <<stream, subs, cl, snd, srv, alive>> /\ rec.pc = "sweep"
    BY <1>5 DEF Resubscribe, localVars, serverVars
  <2>5. rec'.pc = rec.pc /\ rec'.todo = rec.todo \ {ch}
    BY <1>0, <2>1 DEF Recs
  <2>6. /\ Authorised(Len(sendCh) + 1) => Authorised(Len(sendCh) + 1)'
        /\ \A x \in Channels : OnTheWay(x) => OnTheWay(x)'
        /\ Authorised(Len(sendCh) + 1) => InQueue(ch)'
    <3>1. ch \in Channels
      BY <1>0 DEF Recs
    <3>2. sendCh' = Append(sendCh, m)
      BY <2>1, <2>2
    <3> QED BY <1>0, <2>3, <2>4, <3>1, <3>2, AppendWay
  <2>7. AuthComing'
    BY <2>4, <2>5, <2>6 DEF AuthComing, Serving
  <2>8. ASSUME Serving', NEW x \in Channels, subs'[x] > 0
        PROVE  Covered(x)'
    <3>1. Covered(x) /\ Authorised(Len(sendCh) + 1)
      BY <2>4, <2>8 DEF AllCovered, AuthComing, Serving
    <3> QED BY <2>4, <2>5, <2>6, <3>1 DEF Covered, OnTheWay, ToSweep, ToEnqueue
  <2> QED BY <2>7, <2>8 DEF AllCovered
<1>6. CASE LockSubs
  <2>1. UNCHANGED <<stream, subs, sendCh, snd, srv, alive>> /\ rec.pc = "lock"
    BY <1>6 DEF LockSubs, localVars, subVars, serverVars
  <2>2. rec'.pc = "sweep" /\ rec'.todo = { ch \in Channels : subs[ch] > 0 }
    BY <1>0, <1>6 DEF LockSubs, Recs
  <2>3. \A i \in Nat : Authorised(i) => Authorised(i)'
    BY <2>1 DEF Authorised, Carried
  <2>4. AuthComing'
    BY <1>0, <2>1, <2>2, <2>3 DEF AuthComing, Serving
  <2> QED BY <2>1, <2>2, <2>4 DEF AllCovered, Covered, ToSweep
<1>7. CASE Backoff \/ DialFail
  <2>1. stream = 0 /\ UNCHANGED stream
    BY <1>7 DEF Backoff, DialFail, localVars, Streams, Phase
  <2> QED BY <2>1 DEF AuthComing, AllCovered, Serving
<1>8. CASE Established \/ ReconnectReturns
  <2>1. UNCHANGED <<stream, subs, sendCh, cl, snd, srv, alive>>
    BY <1>8 DEF Established, ReconnectReturns, subVars, serverVars
  <2>2. rec.pc \in Late /\ \A ch \in Channels : ~ToSweep(ch)
    BY <1>8 DEF Established, ReconnectReturns, ToSweep
  <2>3. (Carried' <=> Carried) /\ (Serving' <=> Serving)
    BY <2>1 DEF Carried, Serving
  <2> QED BY <1>1, <2>1, <2>2, <2>3
<1>9. CASE DialOk
  <2>1. rec'.pc = IF Auth THEN "auth" ELSE "lock"
    BY <1>0, <1>9 DEF DialOk, Recs
  <2> QED BY <2>1 DEF AuthComing, AllCovered, Authorised
\* The loops.
<1>10. CASE SendTake
  <2>1. /\ \A i \in 1 .. Len(sendCh) : Authorised(i + 1) => Authorised(i)'
        /\ Len(sendCh') + 1 = Len(sendCh)
        /\ \A ch \in Channels : OnTheWay(ch) => OnTheWay(ch)'
    BY <1>10, TakeWay
  <2>2. UNCHANGED <<stream, alive, rec, cl, subs>>
    BY <1>10 DEF SendTake, localVars, subVars, serverVars
  <2>3. AuthComing'
    <3>1. PICK n \in Nat : n = Len(sendCh)
      BY <1>0
    <3>2. n \in 1 .. Len(sendCh) /\ Len(sendCh') + 1 = n
      BY <1>0, <1>10, <2>1, <3>1 DEF SendTake
    <3>3. Authorised(Len(sendCh) + 1) => Authorised(n)'
      BY <2>1, <3>1, <3>2
    <3> QED BY <2>2, <3>2, <3>3 DEF AuthComing, Serving
  <2> QED BY <2>1, <2>2, <2>3 DEF AllCovered, Covered, ToSweep, ToEnqueue, Serving
<1>11. CASE SendMsg
  <2>1. /\ \A i \in Nat : Authorised(i) => Authorised(i)'
        /\ \A ch \in Channels : OnTheWay(ch) => OnTheWay(ch)'
    BY <1>11, SendWay
  <2>2. UNCHANGED <<stream, alive, rec, cl, subs, sendCh>>
    BY <1>11 DEF SendMsg, localVars, subVars
  <2>3. AuthComing'
    BY <1>0, <2>1, <2>2 DEF AuthComing, Serving
  <2> QED BY <2>1, <2>2, <2>3 DEF AllCovered, Covered, ToSweep, ToEnqueue, Serving
<1>12. CASE SendLoad
  <2>1. UNCHANGED <<stream, alive, rec, cl, subs, sendCh, srv>> /\ snd.pc = "load"
    BY <1>12 DEF SendLoad, localVars, subVars, serverVars
  <2>2. CASE stream = 0
    BY <2>1, <2>2 DEF AuthComing, AllCovered, Serving
  <2>3. CASE stream # alive
    BY <2>1, <2>3 DEF AuthComing, AllCovered, Serving
  <2>4. CASE stream # 0 /\ stream = alive
    <3>1. snd'.pc = "send" /\ snd'.msg = snd.msg /\ snd'.stream = stream
      <4>1. snd' = [snd EXCEPT !.pc = "send", !.stream = stream]
        BY <1>12, <2>4 DEF SendLoad
      <4> QED BY <4>1 DEF Types, LoopTypes, Senders
    <3>2. Carried /\ Carried'
      BY <2>1, <2>4, <3>1 DEF Carried
    <3>3. Serving' <=> Serving
      BY <2>1 DEF Serving
    <3> QED BY <1>1, <2>1, <3>1, <3>2, <3>3 DEF ToSweep
  <2> QED BY <2>2, <2>3, <2>4
<1>13. CASE SendDisconnect \/ RecvDisconnect
  <2>1. ASSUME NEW t \in {snd, rcv}, NEW u, HandleDisconnect(t, u), Serving', UNCHANGED alive
        PROVE  Serving /\ UNCHANGED rec
    <3>1. CASE StartReconnect(t, u)
      BY <2>1, <3>1 DEF StartReconnect, Streams, TeardownAlone, Leaving, Serving
    <3>2. CASE DropStream(t, u) \/ GoOffline(t, u)
      BY <2>1, <3>2 DEF DropStream, GoOffline, Serving
    <3> QED BY <2>1, <3>1, <3>2 DEF HandleDisconnect
  <2>2. UNCHANGED <<alive, sendCh, srv, cl, subs>>
    BY <1>13 DEF SendDisconnect, RecvDisconnect, subVars, serverVars
  <2>3. Serving' => Serving /\ UNCHANGED rec
    BY <1>13, <2>1, <2>2 DEF SendDisconnect, RecvDisconnect
  <2>4. (Carried' <=> Carried) /\ (Carried => snd'.msg = snd.msg)
    <3>1. CASE RecvDisconnect
      BY <3>1 DEF RecvDisconnect, Carried, serverVars
    <3>2. CASE SendDisconnect
      <4>1. snd.pc \in {"drop", "offline", "restart"}
        BY <3>2 DEF SendDisconnect, HandleDisconnect, DropStream, GoOffline, StartReconnect
      <4>2. snd'.pc \in {"idle", "offline", "restart"}
        <5>1. snd \in Senders
          BY DEF Types, LoopTypes
        <5>2. CASE DropStream(snd, snd')
          BY <5>1, <5>2 DEF DropStream, Senders
        <5>3. CASE GoOffline(snd, snd')
          BY <5>1, <5>3 DEF GoOffline, Senders
        <5>4. CASE StartReconnect(snd, snd')
          BY <5>1, <5>4 DEF StartReconnect, Senders
        <5> QED BY <3>2, <5>2, <5>3, <5>4 DEF SendDisconnect, HandleDisconnect
      <4> QED BY <4>1, <4>2 DEF Carried
    <3> QED BY <1>13, <3>1, <3>2
  <2> QED BY <1>1, <2>2, <2>3, <2>4 DEF ToSweep
<1>14. CASE RecvLoad \/ RecvStore \/ RecvMsg \/ ServerMessage
  <2>1. UNCHANGED <<stream, alive, rec, cl, subs, sendCh, snd>>
    BY <1>14 DEF RecvLoad, RecvStore, RecvMsg, ServerMessage, localVars, subVars, serverVars
  <2>2. srv'.authed = srv.authed /\ srv'.subs = srv.subs
    <3>1. srv \in Servers
      BY DEF Types, ServerTypes
    <3>2. CASE RecvLoad \/ RecvStore
      BY <3>2 DEF RecvLoad, RecvStore, serverVars
    <3>3. CASE RecvMsg
      BY <3>1, <3>3 DEF RecvMsg, Servers
    <3>4. CASE ServerMessage
      BY <3>1, <3>4 DEF ServerMessage, Servers
    <3> QED BY <1>14, <3>2, <3>3, <3>4
  <2>3. (Carried' <=> Carried) /\ (Serving' <=> Serving)
    BY <2>1 DEF Carried, Serving
  <2> QED BY <1>1, <2>1, <2>2, <2>3 DEF ToSweep
<1>15. CASE StreamDies
  <2>1. alive' = 0 /\ UNCHANGED stream
    BY <1>15 DEF StreamDies, localVars
  <2> QED BY <2>1 DEF AuthComing, AllCovered, Serving
<1>16. CASE UNCHANGED vars
  <2>1. (Carried' <=> Carried) /\ (Serving' <=> Serving)
    BY <1>16 DEF vars, Carried, Serving
  <2> QED BY <1>1, <1>16, <2>1 DEF vars, ToSweep
<1> QED
  BY <1>2, <1>3, <1>4, <1>5, <1>6, <1>7, <1>8, <1>9, <1>10, <1>11, <1>12, <1>13, <1>14, <1>15,
     <1>16
     DEF Next, ClientStep, RecStep, SendStep, RecvStep

-----------------------------------------------------------------------------
\* The whole invariant, and what follows.

LEMMA InitInvariant == Init => IInv
<1> SUFFICES ASSUME Init PROVE IInv
  OBVIOUS
<1>1. NoMsg \in Msgs /\ Msg("connect", NoChannel, FALSE) \in Msgs
  BY MsgTypes
<1>2. ServerTypes
  BY DEF Init, NoServer, ServerTypes, Servers
<1>3. LoopTypes
  BY <1>1 DEF Init, LoopTypes, Senders, Receivers
<1>4. CallTypes
  <2>1. sendCh \in Seq(Msgs)
    <3>1. CASE Auth
      <4>1. PICK m \in Msgs : sendCh = <<m>>
        BY <1>1, <3>1 DEF Init
      <4> QED BY <4>1
    <3>2. CASE ~Auth
      BY <3>2 DEF Init
    <3> QED BY <3>1, <3>2
  <2>2. cl \in [Clients -> Calls]
    BY <1>1 DEF Init, Calls
  <2>3. rec \in Recs
    BY DEF Init, NoRec, Recs
  <2> QED BY <2>1, <2>2, <2>3 DEF Init, CallTypes
<1>5. Streams
  BY DEF Init, NoRec, Streams, DropsDead, TeardownAlone, Phase, Leaving
<1>6. Callers
  BY DEF Init, Callers, CallerAlone, CallerPublishes
<1>7. AuthComing
  <2>1. CASE Auth
    <3>1. sendCh = <<Msg("connect", NoChannel, FALSE)>>
      BY <2>1 DEF Init
    <3>2. Len(sendCh) = 1 /\ sendCh[1].kind = "connect"
      BY <3>1 DEF Msg
    <3> QED BY <3>2 DEF AuthComing, Authorised
  <2>2. CASE ~Auth
    BY <2>2 DEF AuthComing, Authorised
  <2> QED BY <2>1, <2>2
<1>8. AllCovered
  BY DEF Init, AllCovered
<1> QED BY <1>2, <1>3, <1>4, <1>5, <1>6, <1>7, <1>8 DEF IInv, Types

LEMMA Invariance == Spec => []IInv
<1>1. IInv /\ [Next]_vars => IInv'
  <2> SUFFICES ASSUME IInv, [Next]_vars PROVE IInv'
    OBVIOUS
  <2> USE DEF IInv
  <2>1. Types'
    BY NextTypes
  <2>2. Streams'
    BY NextStreams
  <2>3. Callers'
    BY NextCallers DEF Streams
  <2>4. AuthComing' /\ AllCovered'
    BY <2>1, NextCovered
  <2> QED BY <2>1, <2>2, <2>3, <2>4
<1> QED BY <1>1, InitInvariant, PTL DEF Spec

\* upstream.go:249-251: whatever order subscribes, unsubscribes, failures and
\* resubscribe sweeps fell in, and whether or not the upstream wants a token,
\* a settled live stream has every channel the local sessions hold.
THEOREM SettledCoversHolds == Spec => []SettledCovers
<1>1. IInv => SettledCovers
  <2> SUFFICES ASSUME IInv, Settled, NEW ch \in Channels, subs[ch] > 0 PROVE ch \in srv.subs
    BY DEF SettledCovers
  <2>1. Covered(ch)
    BY DEF IInv, AllCovered, Settled, Serving
  <2>2. Len(sendCh) = 0 /\ ~Carried
    BY DEF Settled, Carried
  <2> QED BY <2>1, <2>2 DEF Covered, ToSweep, ToEnqueue, OnTheWay, InQueue, InHand, AtServer,
                            Carries, Settled
<1> QED BY <1>1, Invariance, PTL

\* upstream.go:364-366: no interleaving of the loops' errors with a reconnect
\* tears down a stream that is still served.
THEOREM OnlyDeadStreamsDroppedHolds == Spec => OnlyDeadStreamsDropped
<1>1. IInv /\ [Next]_vars => [(stream # 0 /\ stream' = 0) => alive # stream]_vars
  BY NextStreams DEF IInv
<1> QED BY <1>1, Invariance, PTL DEF Spec, OnlyDeadStreamsDropped
=============================================================================
