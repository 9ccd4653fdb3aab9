------------------------------ MODULE SendRing ------------------------------
(***************************************************************************)
(* The outbound side of a gRPC session: the lock-free multi-producer ring  *)
(* (src/internal/ringbuf/pointerring.go), the producers that fill it       *)
(* (Session.produce, which gives up on a full ring, and Session.send,      *)
(* which waits for room) and the sender goroutine that empties it into the *)
(* stream (src/internal/grpc/handler.go, runSender).                       *)
(*                                                                         *)
(* Each action is one atomic operation on shared memory together with what *)
(* its goroutine does privately.  Positions are counted without wrapping:  *)
(* the code's are 64 bits wide.                                            *)
(***************************************************************************)
EXTENDS Integers, Sequences, FiniteSets

CONSTANTS
  Cap,         \* capacity of the ring
  Publishers,  \* goroutines that call produce
  Dispatch,    \* the dispatch goroutine, which calls send
  Batch,       \* maxBatchSize
  Batching,    \* was protocol version 2 negotiated?
  Faulty,      \* may the stream break and the session be cancelled?
  MaxMsgs      \* bound: messages per producer

ASSUME RingAssumption ==
  /\ Cap \in Nat /\ Cap >= 2
  /\ Dispatch \notin Publishers
  /\ Batch \in Nat \ {0} /\ Batching \in BOOLEAN /\ Faulty \in BOOLEAN
  /\ MaxMsgs \in Nat

Producers == Publishers \union {Dispatch}
Messages  == [from : Producers, n : 1 .. MaxMsgs]

VARIABLES
  head,      \* position of the next claim
  tail,      \* position of the next consume
  slots,     \* position modulo Cap -> [seq, msg]
  prod,      \* what each producer is doing
  wakeCh,    \* is there a token in wakeCh?
  drainCh,   \* is there a token in drainCh?
  snd,       \* runSender: where it is, the message in hand, the pending batch
  broken,    \* does stream.Send fail?
  cancelled, \* ctx.Done
  claimed,   \* ghost: messages in the order of their positions
  sent,      \* ghost: messages the stream took
  refused    \* ghost: did a refusal meet a ring with room?

ringVars == <<head, tail, slots, claimed>>
vars == <<head, tail, slots, prod, wakeCh, drainCh, snd, broken, cancelled,
          claimed, sent, refused>>

NoMsg == [from |-> Dispatch, n |-> 0]

Init ==
  /\ head = 0 /\ tail = 0
  /\ slots = [i \in 0 .. Cap - 1 |-> [seq |-> i, msg |-> NoMsg]]
  /\ prod = [p \in Producers |-> [pc |-> "idle", n |-> 0, pos |-> 0]]
  /\ wakeCh = FALSE /\ drainCh = FALSE
  /\ snd = [pc |-> "consume", msg |-> NoMsg, pending |-> <<>>]
  /\ broken = FALSE /\ cancelled = FALSE
  /\ claimed = <<>> /\ sent = <<>> /\ refused = FALSE

senderDone == snd.pc = "done"

SlotAt(pos) == slots[pos % Cap]
Goto(p, pc) == prod' = [prod EXCEPT ![p].pc = pc]

-----------------------------------------------------------------------------
\* TryProduce, called by produce and by send.

\* A producer has a message: it loads head.
LoadHead(p) ==
  /\ prod[p].pc \in {"idle", "retry"}
  /\ prod[p].pc = "idle" => prod[p].n < MaxMsgs
  /\ prod' = [prod EXCEPT ![p] = [pc  |-> "seq", pos |-> head,
                                  n   |-> IF @.pc = "idle" THEN @.n + 1 ELSE @.n]]
  /\ UNCHANGED <<ringVars, wakeCh, drainCh, snd, broken, cancelled, sent, refused>>

\* A slot still waiting for its message counts as full.
LoadSeqImpatient(p) ==
  LET pos  == prod[p].pos
      diff == SlotAt(pos).seq - pos
  IN  /\ prod[p].pc = "seq"
      /\ Goto(p, IF diff = 0 THEN "cas"
                 ELSE IF p = Dispatch THEN "wait" ELSE "idle")
      /\ refused' = (refused \/ (diff # 0 /\ head - tail < Cap))
      /\ UNCHANGED <<ringVars, wakeCh, drainCh, snd, broken, cancelled, sent>>

\* The sequence of the slot decides: free, lost to another producer, or full.
\* A full ring drops a delivery, and makes send wait.
LoadSeq(p) ==
  LET pos  == prod[p].pos
      diff == SlotAt(pos).seq - pos
  IN  /\ prod[p].pc = "seq"
      /\ Goto(p, IF diff = 0 THEN "cas"
                 ELSE IF diff > 0 THEN "retry"
                 ELSE IF p = Dispatch THEN "wait" ELSE "idle")
      /\ refused' = (refused \/ (diff < 0 /\ head - tail < Cap))
      /\ UNCHANGED <<ringVars, wakeCh, drainCh, snd, broken, cancelled, sent>>

\* The slot is claimed without a compare-and-swap.
ClaimBlind(p) ==
  /\ prod[p].pc = "cas"
  /\ head' = prod[p].pos + 1
  /\ claimed' = Append(claimed, [from |-> p, n |-> prod[p].n])
  /\ Goto(p, "publish")
  /\ UNCHANGED <<tail, slots, wakeCh, drainCh, snd, broken, cancelled, sent, refused>>

\* head.CompareAndSwap(pos, pos + 1).
Claim(p) ==
  /\ prod[p].pc = "cas"
  /\ IF head = prod[p].pos
     THEN /\ head' = head + 1
          /\ claimed' = Append(claimed, [from |-> p, n |-> prod[p].n])
          /\ Goto(p, "publish")
     ELSE /\ Goto(p, "retry")
          /\ UNCHANGED <<head, claimed>>
  /\ UNCHANGED <<tail, slots, wakeCh, drainCh, snd, broken, cancelled, sent, refused>>

\* The claimed slot gets its message, and its sequence shows it to the sender.
PublishSlot(p) ==
  /\ prod[p].pc = "publish"
  /\ slots' = [slots EXCEPT ![prod[p].pos % Cap] =
                 [seq |-> prod[p].pos + 1, msg |-> [from |-> p, n |-> prod[p].n]]]
  /\ Goto(p, "wake")
  /\ UNCHANGED <<head, tail, claimed, wakeCh, drainCh, snd, broken, cancelled, sent, refused>>

\* wake: a token, unless there is one already.
Wake(p) ==
  /\ prod[p].pc = "wake"
  /\ wakeCh' = TRUE
  /\ Goto(p, "idle")
  /\ UNCHANGED <<ringVars, drainCh, snd, broken, cancelled, sent, refused>>

\* send waits for room, for the end of the session or of its sender.
SendWait ==
  /\ prod[Dispatch].pc = "wait"
  /\ \/ /\ cancelled \/ senderDone
        /\ Goto(Dispatch, "idle")
        /\ UNCHANGED drainCh
     \/ /\ drainCh
        /\ drainCh' = FALSE
        /\ Goto(Dispatch, "retry")
  /\ UNCHANGED <<ringVars, wakeCh, snd, broken, cancelled, sent, refused>>

-----------------------------------------------------------------------------
\* runSender.

Ready == SlotAt(tail).seq = tail + 1

\* TryConsume of a ready slot: the sender alone touches it until its sequence
\* opens it for the next lap.
TakeSlot ==
  /\ slots' = [slots EXCEPT ![tail % Cap] = [seq |-> tail + Cap, msg |-> NoMsg]]
  /\ tail' = tail + 1

\* A delivery joins the pending batch; anything else must flush it first.
Consume ==
  /\ snd.pc = "consume"
  /\ Ready
  /\ TakeSlot
  /\ LET m == SlotAt(tail).msg
     IN  snd' = IF Batching /\ m.from # Dispatch
                THEN [pc |-> "batch", msg |-> m, pending |-> snd.pending]
                ELSE [pc |-> "single", msg |-> m, pending |-> snd.pending]
  /\ UNCHANGED <<head, claimed, prod, wakeCh, drainCh, broken, cancelled, sent, refused>>

\* The ring looks empty: what is pending goes out before the sender sleeps.
RunDry ==
  /\ snd.pc = "consume"
  /\ ~Ready
  /\ snd' = [snd EXCEPT !.pc = "flush"]
  /\ UNCHANGED <<ringVars, prod, wakeCh, drainCh, broken, cancelled, sent, refused>>

\* A batch frame frees its slots without a signal.
FlushQuiet(next) ==
  IF snd.pending = <<>>
  THEN snd' = next /\ UNCHANGED <<drainCh, sent>>
  ELSE IF broken
  THEN /\ snd' = [next EXCEPT !.pc = "drain", !.pending = <<>>]
       /\ UNCHANGED <<drainCh, sent>>
  ELSE /\ snd' = next
       /\ sent' = sent \o snd.pending
       /\ drainCh' = (drainCh \/ Len(snd.pending) = 1)

\* flushPending when there is nothing pending, or stream.Send of the batch.  A
\* failed batch of several still signals drain, a failed single does not.
Flush(next) ==
  IF snd.pending = <<>>
  THEN snd' = next /\ UNCHANGED <<drainCh, sent>>
  ELSE IF broken
  THEN /\ snd' = [next EXCEPT !.pc = "drain", !.pending = <<>>]
       /\ drainCh' = (drainCh \/ Len(snd.pending) > 1)
       /\ UNCHANGED sent
  ELSE /\ snd' = next
       /\ sent' = sent \o snd.pending
       /\ drainCh' = TRUE

\* A delivery that does not fit the byte limit flushes the batch before it,
\* and a batch that reached a limit is flushed.
BatchAdd ==
  /\ snd.pc = "batch"
  /\ \/ /\ snd.pending # <<>>
        /\ Flush([pc |-> "batch", msg |-> snd.msg, pending |-> <<>>])
     \/ /\ LET all == Append(snd.pending, snd.msg)
           IN  \E full \in BOOLEAN :
                 /\ Len(all) >= Batch => full
                 /\ snd' = [pc |-> IF full THEN "full" ELSE "consume",
                            msg |-> NoMsg, pending |-> all]
        /\ UNCHANGED <<drainCh, sent>>
  /\ UNCHANGED <<ringVars, prod, wakeCh, broken, cancelled, refused>>

BatchFull ==
  /\ snd.pc = "full"
  /\ Flush([pc |-> "consume", msg |-> NoMsg, pending |-> <<>>])
  /\ UNCHANGED <<ringVars, prod, wakeCh, broken, cancelled, refused>>

\* The message goes ahead of what is pending.
SendBeforeUnflushed ==
  /\ snd.pc = "single"
  /\ snd' = [snd EXCEPT !.pc = "alone"]
  /\ UNCHANGED <<ringVars, prod, wakeCh, drainCh, broken, cancelled, sent, refused>>

\* A message sent on its own: the batch before it is flushed,
SendBefore ==
  /\ snd.pc = "single"
  /\ Flush([pc |-> "alone", msg |-> snd.msg, pending |-> <<>>])
  /\ UNCHANGED <<ringVars, prod, wakeCh, broken, cancelled, refused>>

\* ... then stream.Send and signalDrain.
SendOne ==
  /\ snd.pc = "alone"
  /\ IF broken
     THEN snd' = [snd EXCEPT !.pc = "drain", !.msg = NoMsg] /\ UNCHANGED <<drainCh, sent>>
     ELSE /\ snd' = [snd EXCEPT !.pc = "consume", !.msg = NoMsg]
          /\ sent' = Append(sent, snd.msg)
          /\ drainCh' = TRUE
  /\ UNCHANGED <<ringVars, prod, wakeCh, broken, cancelled, refused>>

\* Tokens left over from messages already consumed are discarded.
FlushBeforeSleepDiscarding ==
  /\ snd.pc = "flush"
  /\ Flush([pc |-> "sleep", msg |-> NoMsg, pending |-> <<>>])
  /\ wakeCh' = FALSE
  /\ UNCHANGED <<ringVars, prod, broken, cancelled, refused>>

\* The last flush before the sender sleeps.
FlushBeforeSleep ==
  /\ snd.pc = "flush"
  /\ Flush([pc |-> "sleep", msg |-> NoMsg, pending |-> <<>>])
  /\ UNCHANGED <<ringVars, prod, wakeCh, broken, cancelled, refused>>

\* The sender sleeps until a wake token or the end of the session.
Sleep ==
  /\ snd.pc = "sleep"
  /\ \/ /\ cancelled
        /\ snd' = [snd EXCEPT !.pc = "drain"]
        /\ UNCHANGED wakeCh
     \/ /\ wakeCh
        /\ wakeCh' = FALSE
        /\ snd' = [snd EXCEPT !.pc = "consume"]
  /\ UNCHANGED <<ringVars, prod, drainCh, broken, cancelled, sent, refused>>

\* drainSendRing, then close(senderDone).
DrainRing ==
  /\ snd.pc = "drain"
  /\ IF Ready
     THEN TakeSlot /\ UNCHANGED snd
     ELSE snd' = [snd EXCEPT !.pc = "done"] /\ UNCHANGED <<slots, tail>>
  /\ UNCHANGED <<head, claimed, prod, wakeCh, drainCh, broken, cancelled, sent, refused>>

\* The environment: the peer goes away, the session is cancelled.
Break ==
  /\ Faulty /\ ~broken
  /\ broken' = TRUE
  /\ UNCHANGED <<ringVars, prod, wakeCh, drainCh, snd, cancelled, sent, refused>>

Cancel ==
  /\ Faulty /\ ~cancelled
  /\ cancelled' = TRUE
  /\ UNCHANGED <<ringVars, prod, wakeCh, drainCh, snd, broken, sent, refused>>

-----------------------------------------------------------------------------
ProducerStep(p) ==
  \/ prod[p].pc # "idle" /\ LoadHead(p)
  \/ LoadSeq(p) \/ Claim(p) \/ PublishSlot(p) \/ Wake(p)

SenderStep ==
  \/ Consume \/ RunDry \/ BatchAdd \/ BatchFull \/ SendBefore \/ SendOne
  \/ FlushBeforeSleep \/ Sleep \/ DrainRing

Next ==
  \/ \E p \in Producers : LoadHead(p) \/ ProducerStep(p)
  \/ SendWait
  \/ SenderStep
  \/ Break \/ Cancel

\* A goroutine that can run does: the Go scheduler is fair, and stream.Send
\* returns (flow control gives way or the stream breaks).
Fairness ==
  /\ \A p \in Producers : WF_vars(ProducerStep(p))
  /\ WF_vars(SendWait)
  /\ WF_vars(SenderStep)

Spec     == Init /\ [][Next]_vars
FairSpec == Spec /\ Fairness

-----------------------------------------------------------------------------
\* Cursors, slots and goroutines have their types, and the sender is never
\* more than a ring behind the claims.
TypeOK ==
  /\ head \in Nat /\ tail \in 0 .. head /\ head - tail <= Cap
  /\ slots \in [0 .. Cap - 1 -> [seq : Nat, msg : Messages \union {NoMsg}]]
  /\ \A p \in Producers : prod[p].n \in 0 .. MaxMsgs
  /\ wakeCh \in BOOLEAN /\ drainCh \in BOOLEAN
  /\ Len(snd.pending) <= Batch

\* The claims not yet consumed.
Outstanding == SubSeq(claimed, tail + 1, head)

\* The lock-free ring implements the bounded queue: under every interleaving
\* of producers, a claimed but still empty slot and a slow sender, messages
\* are accepted only while there is room and leave in the order of their
\* claims (pointerring.go:55-100).
Fifo == INSTANCE BoundedFifo WITH queue <- Outstanding
ImplementsFifo == Fifo!Spec

IsPrefixOf(s, t) == Len(s) <= Len(t) /\ \A i \in 1 .. Len(s) : s[i] = t[i]

\* The stream sees the messages in the order of their claims, none twice and
\* none skipped, whatever is batched, flushed early or sent alone
\* (handler.go:98-137): replies and deliveries do not overtake each other.
SentInClaimOrder == IsPrefixOf(sent, claimed)

\* TryProduce refuses only when the ring was full at that moment, never
\* because another producer holds the slot (pointerring.go:66-75).
RefusedOnlyWhenFull == ~refused

\* No lost wakeup: every message the ring accepted is eventually handed to
\* the stream, unless the session ends (session.go:302-327).
AcceptedIsSent == <>[](Len(sent) = Len(claimed) \/ broken \/ cancelled)

\* A blocked send is never left behind: as long as publishers do not keep
\* the ring full for ever, room, the end of the session or the end of the
\* sender releases it (session.go:303-311, handler.go:88-92).
SendReturns == prod[Dispatch].pc # "idle" ~> prod[Dispatch].pc = "idle"
=============================================================================
