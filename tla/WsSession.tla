------------------------------ MODULE WsSession ------------------------------
(***************************************************************************)
(* A websocket session (src/internal/ws): publishers' deliveries and the   *)
(* dispatch goroutine's replies meet in sendCh; runWriter drains it into   *)
(* frames, pings an idle peer and closes the connection of a cancelled     *)
(* session, which is what ends runReader and, with it, the session.        *)
(*                                                                         *)
(* A message is <<"data", k>>, a delivery that entered sendCh as the k-th, *)
(* or <<"ctl", k>>, the reply to request k.  The peer reads, or closed the *)
(* connection, or vanished without a trace ("silent"), or stopped reading  *)
(* with the connection up and its buffers full ("stalled").                *)
(***************************************************************************)
EXTENDS Integers, Sequences, SequencesExt

CONSTANTS
  Pubs,          \* publishing goroutines
  SendCap,       \* SendBufferSize
  BatchSize,     \* maxBatchSize
  DrainFrames,   \* maxDrainFrames
  IdleLimit,     \* ping intervals without a read that end a session (3)
  MaxDeliveries, \* bound: deliveries
  MaxRequests    \* bound: requests of the client

ASSUME WsAssumption ==
  /\ SendCap \in Nat \ {0} /\ BatchSize \in Nat \ {0} /\ DrainFrames \in Nat \ {0}
  /\ IdleLimit \in Nat \ {0} /\ MaxDeliveries \in Nat /\ MaxRequests \in Nat

VARIABLES
  proto,      \* protoVersion; 0 = no Connect yet
  registered, \* is the session in the store?
  subscribed, \* does the engine fan out to it?
  holds,      \* publishers that looked the session up and have yet to produce
  peer,       \* "reading", "closed", "silent" or "stalled"
  idle,       \* ping intervals since the last read, up to IdleLimit
  sendCh,
  cancelled,  \* is the session's context done?
  conn,       \* is the connection open?
  rd,         \* runReader, and the dispatch of a request
  wr,         \* runWriter: place, batch so far, frames of the pass, bufio
  out,        \* frames written to the connection
  requests,   \* requests so far
  deliveries, \* deliveries so far
  asked2,     \* ghost: did the client ever ask for protocol 2?
  entered     \* ghost: everything that entered sendCh, in order

storeVars == <<registered, subscribed, holds, deliveries>>
peerVars  == <<peer, idle>>
readVars  == <<proto, rd, requests, asked2>>
vars == <<proto, registered, subscribed, holds, peer, idle, sendCh, cancelled, conn,
          rd, wr, out, requests, deliveries, asked2, entered>>

\* createSession and handleUpgrade.
Init ==
  /\ proto = 0 /\ asked2 = FALSE
  /\ registered = TRUE /\ subscribed = FALSE /\ holds = {}
  /\ peer = "reading" /\ idle = 0
  /\ sendCh = <<>> /\ cancelled = FALSE /\ conn = TRUE
  /\ rd = "read"
  /\ wr = [pc |-> "select", batch |-> <<>>, frames |-> 0, buf |-> <<>>]
  /\ out = <<>> /\ entered = <<>> /\ requests = 0 /\ deliveries = 0

IsData(m) == m[1] = "data"
Enter(m)  == sendCh' = Append(sendCh, m) /\ entered' = Append(entered, m)

-----------------------------------------------------------------------------
\* Publishers.

\* store.Deliver: the session is looked up,
Look(p) ==
  /\ p \notin holds
  /\ registered /\ subscribed
  /\ deliveries < MaxDeliveries
  /\ holds' = holds \union {p}
  /\ deliveries' = deliveries + 1
  /\ UNCHANGED <<registered, subscribed, readVars, peerVars, sendCh, cancelled, conn, wr, out, entered>>

\* ... and handed the delivery, even if it closed in between; a full sendCh
\* drops it.
Produce(p) ==
  /\ p \in holds
  /\ holds' = holds \ {p}
  /\ IF Len(sendCh) < SendCap THEN Enter(<<"data", Len(entered) + 1>>)
     ELSE UNCHANGED <<sendCh, entered>>
  /\ UNCHANGED <<registered, subscribed, deliveries, readVars, peerVars, cancelled, conn, wr, out>>

-----------------------------------------------------------------------------
\* The peer, time, and what cancels the session from outside.

PeerChanges ==
  /\ peer = "reading"
  /\ peer' \in {"closed", "silent", "stalled"}
  /\ UNCHANGED <<storeVars, readVars, idle, sendCh, cancelled, conn, wr, out, entered>>

\* A ping interval passes without a read,
Elapse ==
  /\ idle < IdleLimit
  /\ idle' = idle + 1
  /\ UNCHANGED <<storeVars, readVars, peer, sendCh, cancelled, conn, wr, out, entered>>

\* ... and the pong of a live peer is read.
Pong ==
  /\ conn /\ peer = "reading" /\ rd = "read"
  /\ idle > 0
  /\ idle' = 0
  /\ UNCHANGED <<storeVars, readVars, peer, sendCh, cancelled, conn, wr, out, entered>>

\* Server.Stop, the auth deadline, or credentials that lapse.
Cancel ==
  /\ ~cancelled
  /\ cancelled' = TRUE
  /\ UNCHANGED <<storeVars, readVars, peerVars, sendCh, conn, wr, out, entered>>

-----------------------------------------------------------------------------
\* runReader: no deadline, so only the end of the connection ends it.

ReadNext ==
  /\ rd = "read" /\ conn /\ peer = "reading"
  /\ requests < MaxRequests
  /\ requests' = requests + 1
  /\ idle' = 0
  /\ rd' = "reply"
  /\ UNCHANGED <<registered, holds, deliveries, peer, sendCh, cancelled, conn, wr, out, entered>>

\* A Connect, the first or a later one, negotiates the protocol before its
\* reply is sent.
ReadConnect ==
  /\ ReadNext
  /\ \E v \in {1, 2} : proto' = v /\ asked2' = (asked2 \/ v = 2)
  /\ UNCHANGED subscribed

\* Any other request; an authenticated one may subscribe or unsubscribe.
ReadRequest ==
  /\ ReadNext
  /\ subscribed' \in IF proto = 0 THEN {subscribed} ELSE BOOLEAN
  /\ UNCHANGED <<proto, asked2>>

\* send: the reply waits for room,
Reply ==
  /\ rd = "reply"
  /\ Len(sendCh) < SendCap
  /\ Enter(<<"ctl", requests>>)
  /\ rd' = "read"
  /\ UNCHANGED <<storeVars, proto, requests, asked2, peerVars, cancelled, conn, wr, out>>

\* ... or for the end of the session.
ReplyGivesUp ==
  /\ rd = "reply"
  /\ cancelled
  /\ rd' = "read"
  /\ UNCHANGED <<storeVars, proto, requests, asked2, peerVars, sendCh, cancelled, conn, wr, out, entered>>

\* The read fails and cleanupSession runs.
ReadFails ==
  /\ rd = "read"
  /\ ~conn \/ peer = "closed"
  /\ rd' = "gone"
  /\ cancelled' = TRUE
  /\ registered' = FALSE /\ subscribed' = FALSE
  /\ UNCHANGED <<holds, deliveries, proto, requests, asked2, peerVars, sendCh, conn, wr, out, entered>>

-----------------------------------------------------------------------------
\* runWriter and drainWrites.

writerRest == <<storeVars, readVars, peerVars, entered>>

\* batchFor: a delivery opens an array frame, anything else is one frame.
Framed(m) ==
  IF proto = 2 /\ IsData(m)
  THEN [wr EXCEPT !.pc = "batch", !.batch = <<m>>]
  ELSE [wr EXCEPT !.pc = "next", !.buf = Append(@, <<m>>), !.frames = @ + 1]

\* The select's message, and those of the same pass after it.
WriterTake ==
  /\ \/ wr.pc = "select"
     \/ wr.pc = "next" /\ wr.frames < DrainFrames
  /\ sendCh # <<>>
  /\ wr' = Framed(Head(sendCh))
  /\ sendCh' = Tail(sendCh)
  /\ UNCHANGED <<writerRest, cancelled, conn, out>>

\* The control message that ended the batch goes out ahead of it.
BatchMoreSwapped ==
  /\ wr.pc = "batch" /\ Len(wr.batch) < BatchSize
  /\ sendCh # <<>>
  /\ sendCh' = Tail(sendCh)
  /\ wr' = IF IsData(Head(sendCh))
           THEN [wr EXCEPT !.batch = Append(@, Head(sendCh))]
           ELSE [wr EXCEPT !.pc = "next", !.batch = <<>>, !.frames = @ + 2,
                           !.buf = @ \o <<<<Head(sendCh)>>, wr.batch>>]
  /\ UNCHANGED <<writerRest, cancelled, conn, out>>

\* drainBatch: another queued delivery joins; a control message ends the
\* batch and follows it in a frame of its own.
BatchMore ==
  /\ wr.pc = "batch" /\ Len(wr.batch) < BatchSize
  /\ sendCh # <<>>
  /\ sendCh' = Tail(sendCh)
  /\ wr' = IF IsData(Head(sendCh))
           THEN [wr EXCEPT !.batch = Append(@, Head(sendCh))]
           ELSE [wr EXCEPT !.pc = "next", !.batch = <<>>, !.frames = @ + 2,
                           !.buf = @ \o <<wr.batch, <<Head(sendCh)>>>>]
  /\ UNCHANGED <<writerRest, cancelled, conn, out>>

\* The batch is full, in messages or in bytes, or the queue is empty.
BatchEnd ==
  /\ wr.pc = "batch"
  /\ wr' = [wr EXCEPT !.pc = "next", !.batch = <<>>, !.frames = @ + 1,
                      !.buf = Append(@, wr.batch)]
  /\ UNCHANGED <<writerRest, sendCh, cancelled, conn, out>>

\* Nothing left, or enough frames for one pass: the buffer is flushed.
Flush ==
  /\ wr.pc = "next"
  /\ wr.frames >= DrainFrames \/ sendCh = <<>>
  /\ peer # "stalled"
  /\ out' = out \o wr.buf
  /\ wr' = [wr EXCEPT !.pc = "select", !.frames = 0, !.buf = <<>>]
  /\ UNCHANGED <<writerRest, sendCh, cancelled, conn>>

\* The writer returns: the deferred Close of the connection.
WriterGone ==
  /\ conn' = FALSE
  /\ wr' = [wr EXCEPT !.pc = "gone", !.batch = <<>>, !.frames = 0, !.buf = <<>>]

\* A failed write that leaves the context alone.
WriteFailsQuietly ==
  /\ wr.pc = "next"
  /\ peer # "reading"
  /\ \E n \in 0 .. Len(wr.buf) : out' = out \o SubSeq(wr.buf, 1, n)
  /\ WriterGone
  /\ UNCHANGED <<writerRest, sendCh, cancelled>>

\* A write of the pass, or its flush, runs into the deadline or a dead
\* connection; whole frames may have gone out before.
WriteFails ==
  /\ wr.pc = "next"
  /\ peer # "reading"
  /\ \E n \in 0 .. Len(wr.buf) : out' = out \o SubSeq(wr.buf, 1, n)
  /\ cancelled' = TRUE
  /\ WriterGone
  /\ UNCHANGED <<writerRest, sendCh>>

\* The ping ticker: too many idle intervals, or a ping that cannot be written,
\* cancel the session.
Ping ==
  /\ wr.pc = "select"
  /\ ~cancelled
  /\ idle = IdleLimit \/ (idle > 0 /\ peer \in {"stalled", "closed"})
  /\ cancelled' = TRUE
  /\ UNCHANGED <<writerRest, sendCh, conn, wr, out>>

\* ctx.Done: the close frame, written without a deadline, and the end.
WriterCloses ==
  /\ wr.pc = "select"
  /\ cancelled
  /\ peer # "stalled"
  /\ WriterGone
  /\ UNCHANGED <<writerRest, sendCh, cancelled, out>>

-----------------------------------------------------------------------------
ReaderStep == Reply \/ ReplyGivesUp \/ ReadFails
DrainStep  == WriterTake \/ BatchMore \/ BatchEnd \/ Flush \/ WriteFails

Next ==
  \/ \E p \in Pubs : Look(p) \/ Produce(p)
  \/ PeerChanges \/ Elapse \/ Pong \/ Cancel
  \/ ReadConnect \/ ReadRequest \/ ReaderStep
  \/ DrainStep \/ Ping \/ WriterCloses

\* The session's goroutines run, and time passes.  The writer's select serves
\* the ping and the end of the session however busy sendCh is: among the ready
\* cases its choice is random.
Fairness ==
  /\ WF_vars(Elapse) /\ WF_vars(ReaderStep) /\ WF_vars(DrainStep)
  /\ SF_vars(Ping) /\ SF_vars(WriterCloses)

Spec     == Init /\ [][Next]_vars
FairSpec == Spec /\ Fairness

-----------------------------------------------------------------------------
\* "Control responses keep their own frame, in order" (handler.go:167-168): the
\* frames hold what entered sendCh, in that order, nothing twice and nothing
\* left out until the writer ends, and a frame of several messages holds
\* deliveries only, for a client that asked for protocol 2.
FramesFaithful ==
  /\ IF wr.pc = "gone"
     THEN IsPrefix(FlattenSeq(out), entered)
     ELSE FlattenSeq(out) \o FlattenSeq(wr.buf) \o wr.batch \o sendCh = entered
  /\ \A i \in 1 .. Len(out) :
       Len(out[i]) = 1
         \/ (asked2 /\ Len(out[i]) <= BatchSize /\ \A j \in 1 .. Len(out[i]) : IsData(out[i][j]))

\* "Cancellation surfaces through runWriter, which exits on ctx.Done and closes
\* the connection, failing the read" (handler.go:124-126): a session that is
\* cancelled, or whose peer closed or vanished, leaves the store, even with its
\* reader blocked on a full sendCh or its writer dead.  Not so if the peer
\* stalls: the close frame has no write deadline.
SessionEnds ==
  (cancelled \/ peer \in {"silent", "closed"}) ~> (rd = "gone" \/ peer = "stalled")
=============================================================================
