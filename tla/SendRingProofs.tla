--------------------------- MODULE SendRingProofs ---------------------------
(***************************************************************************)
(* For every capacity, batch size and number of producers: the lock-free   *)
(* ring is a bounded queue, and the stream sees its messages in the order  *)
(* of their claims.                                                        *)
(***************************************************************************)
EXTENDS SendRing, SequenceTheorems, TLAPS

-----------------------------------------------------------------------------
\* Arithmetic modulo the capacity.

\* Multiples of n are n apart.
LEMMA TimesMono == ASSUME NEW n \in Nat \ {0}, NEW p \in Int, NEW q \in Int, p < q
  PROVE n * p + n <= n * q
<1>1. n * (q - p) >= n * 1
  OBVIOUS
<1>2. n * (q - p) = n * q - n * p
  OBVIOUS
<1> QED BY <1>1, <1>2

\* Positions with one remainder are laps apart.
LEMMA LapsApart ==
  ASSUME NEW n \in Nat \ {0}, NEW a \in Int, NEW b \in Int, a < b, a % n = b % n
  PROVE a + n <= b
<1>1. /\ a \div n \in Int /\ a % n \in 0 .. n - 1 /\ a = n * (a \div n) + (a % n)
      /\ b \div n \in Int /\ b = n * (b \div n) + (b % n)
  OBVIOUS
<1>2. PICK d \in Int, e \in Int, m \in 0 .. n - 1 : a = n * d + m /\ b = n * e + m
  BY <1>1
<1>3. d < e
  <2>1. ~(e < d)
    BY <1>2, TimesMono
  <2>2. e # d
    BY <1>2
  <2> QED BY <2>1, <2>2
<1>4. n * d + n <= n * e
  BY <1>3, TimesMono
<1>5. n * d \in Int /\ n * e \in Int
  OBVIOUS
<1> QED BY <1>2, <1>4, <1>5

\* A lap does not change the slot.
LEMMA ModWrap == ASSUME NEW n \in Nat \ {0}, NEW a \in Int
  PROVE (a + n) % n = a % n
<1>1. /\ a \div n \in Int /\ a % n \in 0 .. n - 1 /\ a = n * (a \div n) + (a % n)
      /\ (a + n) \div n \in Int /\ (a + n) % n \in 0 .. n - 1
      /\ a + n = n * ((a + n) \div n) + ((a + n) % n)
  OBVIOUS
<1>2. PICK d \in Int, e \in Int, k \in 0 .. n - 1, m \in 0 .. n - 1 :
        a = n * d + k /\ a + n = n * e + m /\ k = a % n /\ m = (a + n) % n
  BY <1>1
<1>3. n * (d + 1) = n * d + n /\ n * d \in Int /\ n * e \in Int
  OBVIOUS
<1>4. ~(d + 1 < e)
  BY <1>2, <1>3, TimesMono
<1>5. ~(e < d + 1)
  BY <1>2, <1>3, TimesMono
<1>6. e = d + 1
  BY <1>4, <1>5
<1>7. n * e = n * (d + 1)
  BY <1>6
<1>8. k = m
  BY <1>2, <1>3, <1>7
<1> QED BY <1>2, <1>8

\* The first positions are their own slots.
LEMMA ModSmall == ASSUME NEW n \in Nat \ {0}, NEW a \in 0 .. n - 1
  PROVE a % n = a
<1>1. a \div n \in Int /\ a % n \in 0 .. n - 1 /\ a = n * (a \div n) + (a % n)
  OBVIOUS
<1>2. PICK d \in Int, m \in 0 .. n - 1 : a = n * d + m /\ m = a % n
  BY <1>1
<1>3. n * d \in Int /\ n * 0 = 0
  OBVIOUS
<1>4. ~(d < 0)
  BY <1>2, <1>3, TimesMono
<1>5. ~(0 < d)
  BY <1>2, <1>3, TimesMono
<1>6. d = 0
  BY <1>4, <1>5
<1> QED BY <1>2, <1>3, <1>6
-----------------------------------------------------------------------------
\* The inductive invariant.

Msgs == Messages \union {NoMsg}
ProducerStates == [pc : {"idle", "retry", "seq", "cas", "publish", "wake", "wait"},
                   n : 0 .. MaxMsgs, pos : Nat]
SenderStates == [pc : {"consume", "batch", "full", "single", "alone", "flush", "sleep",
                       "drain", "done"},
                 msg : Msgs, pending : Seq(Msgs)]

RingTypes ==
  /\ head \in Nat /\ tail \in Nat /\ tail <= head /\ head <= tail + Cap
  /\ slots \in [0 .. Cap - 1 -> [seq : Nat, msg : Msgs]]
  /\ claimed \in Seq(Messages) /\ Len(claimed) = head

RoutineTypes ==
  /\ prod \in [Producers -> ProducerStates]
  /\ \A p \in Producers : prod[p].pc # "idle" => prod[p].n >= 1
  /\ snd \in SenderStates /\ sent \in Seq(Msgs)
  /\ Len(snd.pending) <= Batch /\ (snd.pc # "full" => Len(snd.pending) < Batch)

Types == RingTypes /\ RoutineTypes

\* Slot i is in the lap of position q: it waits for its message, or has it.
Lap(i, q) ==
  /\ tail <= q /\ q < tail + Cap /\ q % Cap = i
  /\ \/ slots[i].seq = q
     \/ q < head /\ slots[i].seq = q + 1 /\ slots[i].msg = claimed[q + 1]

Laps == \A i \in 0 .. Cap - 1 : \E q \in Nat : Lap(i, q)

\* What a producer has seen stays good enough for its next step.
Sound(p) ==
  /\ prod[p].pc \in {"seq", "cas"} => prod[p].pos <= head
  /\ prod[p].pc = "cas" => prod[p].pos < tail + Cap
  /\ prod[p].pc = "publish" =>
       /\ tail <= prod[p].pos /\ prod[p].pos < head
       /\ SlotAt(prod[p].pos).seq = prod[p].pos
       /\ claimed[prod[p].pos + 1] = [from |-> p, n |-> prod[p].n]

\* The message the sender has in hand, if any.
Hand == IF snd.pc \in {"batch", "single", "alone"} THEN 1 ELSE 0

\* What was consumed is sent, pending or in hand, in this order.
NothingLost ==
  snd.pc \notin {"drain", "done"} =>
    /\ Len(sent) + Len(snd.pending) + Hand = tail
    /\ \A i \in 1 .. Len(snd.pending) : snd.pending[i] = claimed[Len(sent) + i]
    /\ Hand = 1 => snd.msg = claimed[tail]
    /\ snd.pc = "alone" => snd.pending = <<>>

SentPrefix == Len(sent) <= tail /\ \A i \in 1 .. Len(sent) : sent[i] = claimed[i]

Ring   == Laps /\ \A p \in Producers : Sound(p)
Sender == NothingLost /\ SentPrefix

IInv == Types /\ Ring /\ Sender /\ ~refused

-----------------------------------------------------------------------------
\* Positions and slots.

\* Two positions of the window in the same slot are the same position.
LEMMA WindowSlot ==
  ASSUME NEW w \in Nat, NEW a \in Nat, NEW b \in Nat, a % Cap = b % Cap,
         w <= a, a < w + Cap, w <= b, b < w + Cap
  PROVE a = b
<1>1. Cap \in Nat \ {0} /\ a \in Int /\ b \in Int
  BY RingAssumption
<1>2. ~(a < b)
  <2> SUFFICES ASSUME a < b PROVE FALSE
    OBVIOUS
  <2>1. a + Cap <= b
    BY <1>1, LapsApart
  <2> QED BY <1>1, <2>1
<1>3. ~(b < a)
  <2> SUFFICES ASSUME b < a PROVE FALSE
    OBVIOUS
  <2>1. b + Cap <= a
    BY <1>1, LapsApart
  <2> QED BY <1>1, <2>1
<1> QED BY <1>2, <1>3

\* Every position has a slot of the ring.
LEMMA SlotIndex == ASSUME NEW a \in Nat PROVE a % Cap \in 0 .. Cap - 1
<1>1. Cap \in Nat \ {0} /\ a \in Int
  BY RingAssumption
<1> QED BY <1>1

\* Slots of the next position differ: no ring has a single slot.
LEMMA NextSlot == ASSUME NEW a \in Nat PROVE (a + 1) % Cap # a % Cap
<1>1. Cap \in Nat /\ Cap >= 2 /\ a + 1 \in Nat
  BY RingAssumption
<1> SUFFICES ASSUME (a + 1) % Cap = a % Cap PROVE FALSE
  OBVIOUS
<1>2. a <= a + 1 /\ a + 1 < a + Cap /\ a < a + Cap
  BY <1>1
<1>3. a = a + 1
  BY <1>1, <1>2, WindowSlot
<1> QED BY <1>3

\* The slot the sender looks at is ready exactly when it holds the message of
\* the oldest claim.
LEMMA ReadySlot ==
  ASSUME Types, Laps, Ready
  PROVE tail < head /\ SlotAt(tail).msg = claimed[tail + 1]
<1>1. Cap \in Nat /\ Cap >= 2 /\ tail \in Nat /\ head \in Nat
  BY RingAssumption DEF Types, RingTypes
<1>2. PICK q \in Nat : Lap(tail % Cap, q)
  BY <1>1, SlotIndex DEF Laps
<1>3. q = tail
  <2>1. q % Cap = tail % Cap /\ tail <= q /\ q < tail + Cap /\ tail < tail + Cap
    BY <1>1, <1>2 DEF Lap
  <2> QED BY <1>1, <2>1, WindowSlot
<1>4. slots[tail % Cap].seq # q
  BY <1>1, <1>3 DEF Ready, SlotAt
<1> QED BY <1>1, <1>2, <1>3, <1>4 DEF Lap, SlotAt

\* A slot a producer finds free is free for the lap of its position.
LEMMA FreeSlot ==
  ASSUME Types, Laps, NEW pos \in Nat, SlotAt(pos).seq = pos
  PROVE tail <= pos /\ pos < tail + Cap
<1>1. PICK q \in Nat : Lap(pos % Cap, q)
  BY SlotIndex DEF Laps
<1>2. SlotAt(pos).seq = q \/ SlotAt(pos).seq = q + 1
  BY <1>1 DEF Lap, SlotAt
<1>3. pos = q
  <2>1. ~(pos = q + 1)
    BY <1>1, NextSlot DEF Lap
  <2> QED BY <1>2, <2>1
<1> QED BY <1>1, <1>3 DEF Lap

\* A slot that lags behind a claimed position is a lap behind: the ring is full.
LEMMA LaggingSlot ==
  ASSUME Types, Laps, NEW pos \in Nat, pos <= head, SlotAt(pos).seq < pos
  PROVE head - tail >= Cap
<1>1. Cap \in Nat \ {0} /\ tail \in Nat /\ head \in Nat
  BY RingAssumption DEF Types, RingTypes
<1>2. PICK q \in Nat : Lap(pos % Cap, q)
  BY SlotIndex DEF Laps
<1>3. q < pos
  BY <1>2 DEF Lap, SlotAt
<1>4. q + Cap <= pos
  <2>1. q % Cap = pos % Cap /\ q \in Int /\ pos \in Int
    BY <1>2 DEF Lap
  <2> QED BY <1>1, <1>3, <2>1, LapsApart
<1>5. tail <= q
  BY <1>2 DEF Lap
<1> QED BY <1>1, <1>4, <1>5

-----------------------------------------------------------------------------
\* The initial states.

LEMMA InitInv == Init => IInv
<1> SUFFICES ASSUME Init PROVE IInv
  OBVIOUS
<1>1. Cap \in Nat \ {0} /\ Batch \in Nat \ {0} /\ MaxMsgs \in Nat
  BY RingAssumption
<1>2. RingTypes
  <2>1. NoMsg \in Msgs
    BY DEF Msgs
  <2>2. slots \in [0 .. Cap - 1 -> [seq : Nat, msg : Msgs]]
    BY <1>1, <2>1 DEF Init
  <2> QED BY <1>1, <2>2 DEF Init, RingTypes
<1>3. RoutineTypes
  <2>1. NoMsg \in Msgs
    BY DEF Msgs
  <2>2. prod \in [Producers -> ProducerStates]
    BY <1>1 DEF Init, ProducerStates
  <2>3. snd \in SenderStates
    BY <2>1 DEF Init, SenderStates
  <2>4. Len(snd.pending) = 0 /\ sent = <<>>
    BY DEF Init
  <2>5. \A p \in Producers : prod[p].pc = "idle"
    BY DEF Init
  <2> QED BY <1>1, <2>2, <2>3, <2>4, <2>5 DEF RoutineTypes
<1>4. Laps
  <2> SUFFICES ASSUME NEW i \in 0 .. Cap - 1 PROVE Lap(i, i)
    BY <1>1 DEF Laps
  <2>1. i % Cap = i
    BY <1>1, ModSmall
  <2> QED BY <1>1, <2>1 DEF Init, Lap
<1>5. \A p \in Producers : Sound(p)
  BY DEF Init, Sound
<1>6. Sender
  BY DEF Init, Sender, NothingLost, SentPrefix, Hand
<1> QED BY <1>2, <1>3, <1>4, <1>5, <1>6 DEF Init, IInv, Types, Ring

-----------------------------------------------------------------------------
\* The producers.

\* What a step of p leaves alone.
LEMMA OthersKeep ==
  ASSUME IInv, NEW p \in Producers, NEW s \in ProducerStates,
         prod' = [prod EXCEPT ![p] = s], s.pc # "idle" => s.n >= 1
  PROVE /\ prod' \in [Producers -> ProducerStates] /\ prod'[p] = s
        /\ \A o \in Producers : o # p => prod'[o] = prod[o]
        /\ \A o \in Producers : prod'[o].pc # "idle" => prod'[o].n >= 1
<1>1. prod \in [Producers -> ProducerStates]
      /\ \A o \in Producers : prod[o].pc # "idle" => prod[o].n >= 1
  BY DEF IInv, Types, RoutineTypes
<1>2. /\ prod' \in [Producers -> ProducerStates] /\ prod'[p] = s
      /\ \A o \in Producers : o # p => prod'[o] = prod[o]
  BY <1>1
<1> QED BY <1>1, <1>2

\* A step of a producer that touches neither the ring nor the sender.
LEMMA ProducerOnly ==
  ASSUME IInv, NEW p \in Producers, NEW s \in ProducerStates,
         prod' = [prod EXCEPT ![p] = s], s.pc # "idle" => s.n >= 1,
         s.pc \in {"seq", "cas"} => s.pos <= head,
         s.pc = "cas" => s.pos < tail + Cap,
         s.pc # "publish", ~refused',
         UNCHANGED <<ringVars, snd, sent>>
  PROVE IInv'
<1>1. /\ prod' \in [Producers -> ProducerStates] /\ prod'[p] = s
      /\ \A o \in Producers : o # p => prod'[o] = prod[o]
      /\ \A o \in Producers : prod'[o].pc # "idle" => prod'[o].n >= 1
  BY OthersKeep
<1>2. UNCHANGED <<head, tail, slots, claimed, snd, sent>>
  BY DEF ringVars
<1>3. Types'
  BY <1>1, <1>2 DEF IInv, Types, RingTypes, RoutineTypes
<1>4. Laps'
  BY <1>2 DEF IInv, Ring, Laps, Lap
<1>5. ASSUME NEW o \in Producers PROVE Sound(o)'
  <2>1. CASE o = p
    BY <1>1, <1>2, <2>1 DEF Sound
  <2>2. CASE o # p
    BY <1>1, <1>2, <2>2 DEF IInv, Ring, Sound, SlotAt
  <2> QED BY <2>1, <2>2
<1>6. Sender'
  BY <1>2 DEF IInv, Sender, NothingLost, SentPrefix, Hand
<1> QED BY <1>3, <1>4, <1>5, <1>6 DEF IInv, Ring

\* Moving a producer on.
LEMMA GotoIs ==
  ASSUME IInv, NEW p \in Producers, prod[p].pc # "idle",
         NEW pc \in {"idle", "retry", "seq", "cas", "publish", "wake", "wait"}, Goto(p, pc)
  PROVE \E s \in ProducerStates :
          /\ prod' = [prod EXCEPT ![p] = s] /\ s.n >= 1
          /\ s.pc = pc /\ s.n = prod[p].n /\ s.pos = prod[p].pos
<1>1. prod \in [Producers -> ProducerStates] /\ prod[p].n >= 1
  BY DEF IInv, Types, RoutineTypes
<1> DEFINE s == [prod[p] EXCEPT !.pc = pc]
<1>2. prod[p] \in ProducerStates
  BY <1>1
<1>3. s \in ProducerStates
  BY <1>2 DEF ProducerStates
<1>4. s.pc = pc /\ s.n = prod[p].n /\ s.pos = prod[p].pos
  BY <1>2 DEF ProducerStates
<1>5. prod' = [prod EXCEPT ![p] = s]
  BY DEF Goto
<1> HIDE DEF s
<1> QED BY <1>1, <1>3, <1>4, <1>5

LEMMA LoadHeadInv == ASSUME IInv, NEW p \in Producers, LoadHead(p) PROVE IInv'
<1>1. prod \in [Producers -> ProducerStates] /\ head \in Nat /\ MaxMsgs \in Nat
  BY RingAssumption DEF IInv, Types, RingTypes, RoutineTypes
<1>2. prod[p] \in ProducerStates
  BY <1>1
<1>3. PICK k \in 0 .. MaxMsgs :
        k >= 1 /\ k = IF prod[p].pc = "idle" THEN prod[p].n + 1 ELSE prod[p].n
  <2>1. prod[p].n \in 0 .. MaxMsgs /\ (prod[p].pc # "idle" => prod[p].n >= 1)
    BY <1>2 DEF ProducerStates, IInv, Types, RoutineTypes
  <2> QED BY <1>1, <2>1 DEF LoadHead, IInv, Types, RoutineTypes
<1>4. [pc |-> "seq", pos |-> head, n |-> k] \in ProducerStates
  BY <1>1, <1>3 DEF ProducerStates
<1>5. PICK s \in ProducerStates : s = [pc |-> "seq", pos |-> head, n |-> k]
  BY <1>4
<1>6. prod' = [prod EXCEPT ![p] = s]
  BY <1>1, <1>3, <1>5 DEF LoadHead
<1>7. s.pc = "seq" /\ s.n >= 1 /\ s.pos = head
  BY <1>3, <1>5
<1>8. UNCHANGED <<ringVars, snd, sent>>
  BY DEF LoadHead
<1>9. ~refused'
  BY DEF LoadHead, IInv
<1>10. s.pc \notin {"cas", "publish"} /\ s.pos <= head
  BY <1>1, <1>7
<1> QED BY <1>6, <1>7, <1>8, <1>9, <1>10, ProducerOnly

LEMMA LoadSeqInv == ASSUME IInv, NEW p \in Producers, LoadSeq(p) PROVE IInv'
<1>1. prod \in [Producers -> ProducerStates] /\ head \in Nat /\ tail \in Nat
      /\ Cap \in Nat \ {0} /\ slots \in [0 .. Cap - 1 -> [seq : Nat, msg : Msgs]]
  BY RingAssumption DEF IInv, Types, RingTypes, RoutineTypes
<1>2. PICK pos \in Nat : pos = prod[p].pos
  BY <1>1 DEF ProducerStates
<1>3. prod[p].pc = "seq" /\ pos <= head
  BY <1>2 DEF LoadSeq, IInv, Ring, Sound
<1>4. PICK seq \in Nat : seq = SlotAt(pos).seq
  BY <1>1, <1>2, SlotIndex DEF SlotAt
<1>5. PICK pc \in {"cas", "retry", "wait", "idle"} :
        /\ pc = IF seq - pos = 0 THEN "cas"
                ELSE IF seq - pos > 0 THEN "retry"
                ELSE IF p = Dispatch THEN "wait" ELSE "idle"
        /\ Goto(p, pc)
  BY <1>2, <1>4 DEF LoadSeq
<1>6. PICK s \in ProducerStates :
        /\ prod' = [prod EXCEPT ![p] = s] /\ s.n >= 1 /\ s.pc = pc /\ s.pos = pos
  BY <1>2, <1>3, <1>5, GotoIs
<1>7. s.pc = "cas" => s.pos < tail + Cap
  <2> SUFFICES ASSUME s.pc = "cas" PROVE pos < tail + Cap
    BY <1>6
  <2>1. seq = pos
    BY <1>5, <1>6
  <2> QED BY <1>4, <2>1, FreeSlot DEF IInv, Ring
<1>8. ~refused'
  <2>1. refused' = (refused \/ (seq - pos < 0 /\ head - tail < Cap))
    BY <1>2, <1>4 DEF LoadSeq
  <2>2. ~(seq - pos < 0 /\ head - tail < Cap)
    <3> SUFFICES ASSUME seq - pos < 0 PROVE head - tail >= Cap
      BY <1>1
    <3>1. SlotAt(pos).seq < pos
      BY <1>4
    <3> QED BY <1>3, <3>1, LaggingSlot DEF IInv, Ring
  <2> QED BY <2>1, <2>2 DEF IInv
<1>9. UNCHANGED <<ringVars, snd, sent>>
  BY DEF LoadSeq
<1>10. s.pc # "publish" /\ (s.pc \in {"seq", "cas"} => s.pos <= head)
  BY <1>3, <1>5, <1>6
<1> QED BY <1>6, <1>7, <1>8, <1>9, <1>10, ProducerOnly

\* A claim appends at head, so nothing below head moves.
LEMMA ClaimInv == ASSUME IInv, NEW p \in Producers, Claim(p) PROVE IInv'
<1>1. prod \in [Producers -> ProducerStates] /\ head \in Nat /\ tail \in Nat
      /\ Cap \in Nat \ {0} /\ claimed \in Seq(Messages) /\ Len(claimed) = head
  BY RingAssumption DEF IInv, Types, RingTypes, RoutineTypes
<1>2. prod[p].pc = "cas" /\ UNCHANGED <<tail, slots, snd, sent>> /\ ~refused'
  BY DEF Claim, IInv
<1>3. CASE head # prod[p].pos
  <2>1. Goto(p, "retry") /\ UNCHANGED <<head, claimed>>
    BY <1>3 DEF Claim
  <2>2. PICK s \in ProducerStates :
          prod' = [prod EXCEPT ![p] = s] /\ s.n >= 1 /\ s.pc = "retry"
    BY <1>2, <2>1, GotoIs
  <2>3. UNCHANGED <<ringVars, snd, sent>>
    BY <1>2, <2>1 DEF ringVars
  <2> QED BY <1>2, <2>2, <2>3, ProducerOnly
<1>4. CASE head = prod[p].pos
  <2> DEFINE m == [from |-> p, n |-> prod[p].n]
  <2>1. head' = head + 1 /\ claimed' = Append(claimed, m) /\ Goto(p, "publish")
    BY <1>4 DEF Claim
  <2>2. PICK s \in ProducerStates : /\ prod' = [prod EXCEPT ![p] = s] /\ s.n >= 1
                                    /\ s.pc = "publish" /\ s.n = prod[p].n /\ s.pos = head
    BY <1>2, <1>4, <2>1, GotoIs
  <2>3. /\ prod' \in [Producers -> ProducerStates] /\ prod'[p] = s
        /\ \A o \in Producers : o # p => prod'[o] = prod[o]
        /\ \A o \in Producers : prod'[o].pc # "idle" => prod'[o].n >= 1
    BY <2>2, OthersKeep
  <2>4. m \in Messages
    <3>1. prod[p].n \in 0 .. MaxMsgs /\ prod[p].n >= 1
      BY <1>1, <1>2 DEF ProducerStates, IInv, Types, RoutineTypes
    <3> QED BY <3>1 DEF Messages
  <2> HIDE DEF m
  <2>5. /\ claimed' \in Seq(Messages) /\ Len(claimed') = head + 1
        /\ claimed'[head + 1] = m
        /\ \A i \in 1 .. head : claimed'[i] = claimed[i]
    BY <1>1, <2>1, <2>4
  <2>6. head < tail + Cap
    BY <1>2, <1>4 DEF IInv, Ring, Sound
  <2>7. Types'
    <3>1. RingTypes'
      BY <1>1, <1>2, <2>1, <2>5, <2>6 DEF IInv, Types, RingTypes
    <3>2. RoutineTypes'
      BY <1>2, <2>3 DEF IInv, Types, RoutineTypes
    <3> QED BY <3>1, <3>2 DEF Types
  <2>8. Laps'
    <3> SUFFICES ASSUME NEW i \in 0 .. Cap - 1 PROVE \E q \in Nat : Lap(i, q)'
      BY DEF Laps
    <3>1. PICK q \in Nat : Lap(i, q)
      BY DEF IInv, Ring, Laps
    <3>2. q < head => claimed'[q + 1] = claimed[q + 1] /\ q < head'
      BY <1>1, <2>1, <2>5
    <3>3. Lap(i, q)'
      BY <1>2, <3>1, <3>2 DEF Lap
    <3> QED BY <3>3
  <2>9. ASSUME NEW o \in Producers PROVE Sound(o)'
    <3>1. CASE o = p
      <4>1. slots[head % Cap].seq = head
        <5>1. PICK q \in Nat : Lap(head % Cap, q)
          BY <1>1, SlotIndex DEF IInv, Ring, Laps
        <5>2. q = head
          <6>1. /\ tail <= q /\ q < tail + Cap /\ q % Cap = head % Cap
                /\ tail <= head /\ head < tail + Cap
            BY <2>6, <5>1 DEF Lap, IInv, Types, RingTypes
          <6> QED BY <1>1, <6>1, WindowSlot
        <5> QED BY <1>1, <5>1, <5>2 DEF Lap
      <4>2. prod'[o].pc = "publish" /\ prod'[o].pos = head /\ prod'[o].n = prod[p].n
        BY <2>2, <2>3, <3>1
      <4>3. tail <= head
        BY DEF IInv, Types, RingTypes
      <4>4. claimed'[head + 1] = [from |-> o, n |-> prod'[o].n]
        BY <2>5, <3>1, <4>2 DEF m
      <4> QED BY <1>1, <1>2, <2>1, <4>1, <4>2, <4>3, <4>4 DEF Sound, SlotAt
    <3>2. CASE o # p
      <4>1. prod'[o] = prod[o] /\ prod[o].pos \in Nat
        BY <1>1, <2>3, <3>2 DEF ProducerStates
      <4>2. PICK pos \in Nat : pos = prod[o].pos
        BY <4>1
      <4>3. pos < head => claimed'[pos + 1] = claimed[pos + 1]
        BY <1>1, <2>5, <4>2
      <4>4. Sound(o)
        BY DEF IInv, Ring
      <4> QED BY <1>1, <1>2, <2>1, <4>1, <4>2, <4>3, <4>4 DEF Sound, SlotAt
    <3> QED BY <3>1, <3>2
  <2>10. Sender'
    <3>1. NothingLost'
      <4> SUFFICES ASSUME snd.pc \notin {"drain", "done"} PROVE NothingLost'
        BY <1>2 DEF NothingLost
      <4>1. Len(sent) \in Nat /\ Len(snd.pending) \in Nat /\ Hand \in {0, 1} /\ tail <= head
        BY DEF IInv, Types, RingTypes, RoutineTypes, SenderStates, Hand
      <4>2. /\ Len(sent) + Len(snd.pending) + Hand = tail
            /\ \A i \in 1 .. Len(snd.pending) : snd.pending[i] = claimed[Len(sent) + i]
            /\ Hand = 1 => snd.msg = claimed[tail]
            /\ snd.pc = "alone" => snd.pending = <<>>
        BY DEF IInv, Sender, NothingLost
      <4>3. \A i \in 1 .. Len(snd.pending) : claimed'[Len(sent) + i] = claimed[Len(sent) + i]
        BY <1>1, <2>5, <4>1, <4>2
      <4>4. Hand = 1 => claimed'[tail] = claimed[tail]
        BY <1>1, <2>5, <4>1, <4>2
      <4>5. Hand' = Hand
        BY <1>2 DEF Hand
      <4> QED BY <1>2, <4>2, <4>3, <4>4, <4>5 DEF NothingLost
    <3>2. SentPrefix'
      BY <1>1, <1>2, <2>5 DEF IInv, Types, RingTypes, RoutineTypes, Sender, SentPrefix
    <3> QED BY <3>1, <3>2 DEF Sender
  <2> QED BY <1>2, <2>7, <2>8, <2>9, <2>10 DEF IInv, Ring
<1> QED BY <1>3, <1>4

\* Two producers never hold the same position: its claim names one of them.
LEMMA HoldersApart ==
  ASSUME IInv, NEW p \in Producers, NEW o \in Producers, o # p,
         prod[p].pc = "publish", prod[o].pc = "publish"
  PROVE prod[p].pos # prod[o].pos
<1>1. /\ claimed[prod[p].pos + 1] = [from |-> p, n |-> prod[p].n]
      /\ claimed[prod[o].pos + 1] = [from |-> o, n |-> prod[o].n]
  BY DEF IInv, Ring, Sound
<1>2. claimed[prod[p].pos + 1].from = p /\ claimed[prod[o].pos + 1].from = o
  BY <1>1
<1> QED BY <1>2

\* A claimed slot gets its message; the slots of the others are elsewhere.
LEMMA PublishSlotInv == ASSUME IInv, NEW p \in Producers, PublishSlot(p) PROVE IInv'
<1>1. prod \in [Producers -> ProducerStates] /\ head \in Nat /\ tail \in Nat
      /\ Cap \in Nat \ {0} /\ head <= tail + Cap
      /\ slots \in [0 .. Cap - 1 -> [seq : Nat, msg : Msgs]]
  BY RingAssumption DEF IInv, Types, RingTypes, RoutineTypes
<1>2. /\ prod[p].pc = "publish" /\ Goto(p, "wake") /\ ~refused'
      /\ UNCHANGED <<head, tail, claimed, snd, sent>>
  BY DEF PublishSlot, IInv
<1>3. PICK pos \in Nat : pos = prod[p].pos
  BY <1>1 DEF ProducerStates
<1>4. PICK i \in 0 .. Cap - 1 : i = pos % Cap
  BY SlotIndex
<1> DEFINE m == [from |-> p, n |-> prod[p].n]
           r == [seq |-> pos + 1, msg |-> m]
<1>5. m \in Msgs
  <2>1. prod[p].n \in 0 .. MaxMsgs /\ prod[p].n >= 1
    BY <1>1, <1>2 DEF ProducerStates, IInv, Types, RoutineTypes
  <2> QED BY <2>1 DEF Messages, Msgs
<1>6. slots' = [slots EXCEPT ![i] = r]
  BY <1>3, <1>4 DEF PublishSlot
<1> HIDE DEF m
<1>7. r \in [seq : Nat, msg : Msgs] /\ r.seq = pos + 1 /\ r.msg = m
  BY <1>5
<1> HIDE DEF r
<1>8. /\ slots' \in [0 .. Cap - 1 -> [seq : Nat, msg : Msgs]] /\ slots'[i] = r
      /\ \A j \in 0 .. Cap - 1 : j # i => slots'[j] = slots[j]
  BY <1>1, <1>6, <1>7
<1>9. tail <= pos /\ pos < head /\ claimed[pos + 1] = m
  BY <1>2, <1>3 DEF IInv, Ring, Sound, m
<1>10. PICK s \in ProducerStates :
         prod' = [prod EXCEPT ![p] = s] /\ s.n >= 1 /\ s.pc = "wake"
  BY <1>2, GotoIs
<1>11. /\ prod' \in [Producers -> ProducerStates] /\ prod'[p] = s
       /\ \A o \in Producers : o # p => prod'[o] = prod[o]
       /\ \A o \in Producers : prod'[o].pc # "idle" => prod'[o].n >= 1
  BY <1>10, OthersKeep
<1>12. Types'
  <2>1. RingTypes'
    BY <1>1, <1>2, <1>8 DEF IInv, Types, RingTypes
  <2>2. RoutineTypes'
    BY <1>2, <1>11 DEF IInv, Types, RoutineTypes
  <2> QED BY <2>1, <2>2 DEF Types
<1>13. Laps'
  <2> SUFFICES ASSUME NEW j \in 0 .. Cap - 1 PROVE \E q \in Nat : Lap(j, q)'
    BY DEF Laps
  <2>1. CASE j = i
    <3>1. Lap(i, pos)'
      BY <1>1, <1>2, <1>4, <1>7, <1>8, <1>9 DEF Lap
    <3> QED BY <2>1, <3>1
  <2>2. CASE j # i
    <3>1. PICK q \in Nat : Lap(j, q)
      BY DEF IInv, Ring, Laps
    <3>2. Lap(j, q)'
      BY <1>2, <1>8, <2>2, <3>1 DEF Lap
    <3> QED BY <3>2
  <2> QED BY <2>1, <2>2
<1>14. ASSUME NEW o \in Producers PROVE Sound(o)'
  <2>1. CASE o = p
    BY <1>10, <1>11, <2>1 DEF Sound
  <2>2. CASE o # p
    <3>1. prod'[o] = prod[o]
      BY <1>11, <2>2
    <3>2. PICK at \in Nat : at = prod[o].pos
      BY <1>1 DEF ProducerStates
    <3>3. prod[o].pc = "publish" => slots'[at % Cap] = slots[at % Cap]
      <4> SUFFICES ASSUME prod[o].pc = "publish" PROVE at % Cap # i
        BY <1>8, <3>2, SlotIndex
      <4>1. at # pos
        BY <1>2, <1>3, <2>2, <3>2, HoldersApart
      <4>2. tail <= at /\ at < head
        BY <3>2 DEF IInv, Ring, Sound
      <4>3. pos < tail + Cap /\ at < tail + Cap
        BY <1>1, <1>9, <4>2
      <4> QED BY <1>1, <1>4, <1>9, <4>1, <4>2, <4>3, WindowSlot
    <3>4. Sound(o)
      BY DEF IInv, Ring
    <3> QED BY <1>2, <3>1, <3>2, <3>3, <3>4 DEF Sound, SlotAt
  <2> QED BY <2>1, <2>2
<1>15. Sender'
  BY <1>2 DEF IInv, Sender, NothingLost, SentPrefix, Hand
<1> QED BY <1>2, <1>12, <1>13, <1>14, <1>15 DEF IInv, Ring

LEMMA WakeInv == ASSUME IInv, NEW p \in Producers, Wake(p) PROVE IInv'
<1>1. prod[p].pc = "wake" /\ Goto(p, "idle") /\ ~refused'
  BY DEF Wake, IInv
<1>2. PICK s \in ProducerStates :
        prod' = [prod EXCEPT ![p] = s] /\ s.n >= 1 /\ s.pc = "idle"
  BY <1>1, GotoIs
<1>3. UNCHANGED <<ringVars, snd, sent>>
  BY DEF Wake
<1> QED BY <1>1, <1>2, <1>3, ProducerOnly

LEMMA SendWaitInv == ASSUME IInv, SendWait PROVE IInv'
<1>1. Dispatch \in Producers
  BY DEF Producers
<1>2. prod[Dispatch].pc = "wait" /\ ~refused'
  BY DEF SendWait, IInv
<1>3. PICK pc \in {"idle", "retry"} : Goto(Dispatch, pc)
  BY DEF SendWait
<1>4. PICK s \in ProducerStates :
        prod' = [prod EXCEPT ![Dispatch] = s] /\ s.n >= 1 /\ s.pc = pc
  BY <1>1, <1>2, <1>3, GotoIs
<1>5. UNCHANGED <<ringVars, snd, sent>>
  BY DEF SendWait
<1> QED BY <1>1, <1>2, <1>4, <1>5, ProducerOnly

-----------------------------------------------------------------------------
\* The sender.

\* A step of the sender that leaves the ring and the producers alone.
LEMMA SenderOnly ==
  ASSUME IInv, UNCHANGED <<ringVars, prod, refused>>, Sender',
         snd' \in SenderStates, sent' \in Seq(Msgs),
         Len(snd'.pending) <= Batch, snd'.pc # "full" => Len(snd'.pending) < Batch
  PROVE IInv'
<1>1. UNCHANGED <<head, tail, slots, claimed, prod>>
  BY DEF ringVars
<1>2. ~refused'
  BY DEF IInv
<1>3. Types'
  BY <1>1 DEF IInv, Types, RingTypes, RoutineTypes
<1>4. Laps'
  BY <1>1 DEF IInv, Ring, Laps, Lap
<1>5. \A p \in Producers : Sound(p)'
  BY <1>1 DEF IInv, Ring, Sound, SlotAt
<1> QED BY <1>2, <1>3, <1>4, <1>5 DEF IInv, Ring

\* The environment's steps change nothing the invariant speaks of.
LEMMA Unmoved ==
  ASSUME IInv, UNCHANGED <<ringVars, prod, refused, snd, sent>>
  PROVE IInv'
<1>1. UNCHANGED <<head, tail, slots, claimed>>
  BY DEF ringVars
<1>2. Sender'
  BY <1>1 DEF IInv, Sender, NothingLost, SentPrefix, Hand
<1> QED BY <1>2, SenderOnly DEF IInv, Types, RoutineTypes

\* Taking the ready slot opens it for the next lap, and no other slot or
\* producer notices.
LEMMA TakeSlotInv ==
  ASSUME IInv, Ready, TakeSlot, UNCHANGED <<head, claimed, prod>>
  PROVE /\ RingTypes' /\ Ring'
        /\ tail' = tail + 1 /\ tail < head /\ SlotAt(tail).msg = claimed[tail + 1]
<1>1. prod \in [Producers -> ProducerStates] /\ head \in Nat /\ tail \in Nat
      /\ Cap \in Nat \ {0} /\ head <= tail + Cap
      /\ slots \in [0 .. Cap - 1 -> [seq : Nat, msg : Msgs]]
  BY RingAssumption DEF IInv, Types, RingTypes, RoutineTypes
<1>2. tail < head /\ SlotAt(tail).msg = claimed[tail + 1]
  BY ReadySlot DEF IInv, Ring
<1>3. PICK i \in 0 .. Cap - 1 : i = tail % Cap
  BY <1>1, SlotIndex
<1> DEFINE r == [seq |-> tail + Cap, msg |-> NoMsg]
<1>4. slots' = [slots EXCEPT ![i] = r] /\ tail' = tail + 1
  BY <1>3 DEF TakeSlot
<1>5. r \in [seq : Nat, msg : Msgs] /\ r.seq = tail + Cap
  BY <1>1 DEF Msgs
<1> HIDE DEF r
<1>6. /\ slots' \in [0 .. Cap - 1 -> [seq : Nat, msg : Msgs]] /\ slots'[i] = r
      /\ \A j \in 0 .. Cap - 1 : j # i => slots'[j] = slots[j]
  BY <1>1, <1>4, <1>5
<1>7. RingTypes'
  BY <1>1, <1>2, <1>4, <1>6 DEF IInv, Types, RingTypes
<1>8. Laps'
  <2> SUFFICES ASSUME NEW j \in 0 .. Cap - 1 PROVE \E q \in Nat : Lap(j, q)'
    BY DEF Laps
  <2>1. CASE j = i
    <3>1. PICK q \in Nat : q = tail + Cap
      BY <1>1
    <3>2. q % Cap = i
      <4>1. tail \in Int
        BY <1>1
      <4>2. (tail + Cap) % Cap = tail % Cap
        BY <1>1, <4>1, ModWrap, Zenon
      <4> QED BY <1>3, <3>1, <4>2
    <3>3. slots'[j].seq = q
      BY <1>5, <1>6, <2>1, <3>1
    <3>4. Lap(j, q)'
      BY <1>1, <1>4, <2>1, <3>1, <3>2, <3>3 DEF Lap
    <3> QED BY <3>4
  <2>2. CASE j # i
    <3>1. PICK q \in Nat : Lap(j, q)
      BY DEF IInv, Ring, Laps
    <3>2. q # tail
      BY <1>3, <2>2, <3>1 DEF Lap
    <3>3. slots'[j] = slots[j]
      BY <1>6, <2>2
    <3>4. Lap(j, q)'
      BY <1>1, <1>4, <3>1, <3>2, <3>3 DEF Lap
    <3> QED BY <3>4
  <2> QED BY <2>1, <2>2
<1>9. ASSUME NEW o \in Producers PROVE Sound(o)'
  <2>1. PICK at \in Nat : at = prod[o].pos
    BY <1>1 DEF ProducerStates
  <2>2. Sound(o)
    BY DEF IInv, Ring
  <2>3. prod[o].pc = "publish" => tail + 1 <= at /\ slots'[at % Cap] = slots[at % Cap]
    <3> SUFFICES ASSUME prod[o].pc = "publish"
                 PROVE  tail + 1 <= at /\ slots'[at % Cap] = slots[at % Cap]
      OBVIOUS
    <3>1. tail <= at /\ at < head /\ slots[at % Cap].seq = at
      BY <2>1, <2>2 DEF Sound, SlotAt
    <3>2. at # tail
      BY <1>1, <3>1 DEF Ready, SlotAt
    <3>3. at % Cap # i
      <4>1. at < tail + Cap /\ tail < tail + Cap /\ tail <= tail
        BY <1>1, <3>1
      <4> SUFFICES ASSUME at % Cap = tail % Cap PROVE at = tail
        BY <1>3, <3>2
      <4> QED BY <1>1, <3>1, <4>1, WindowSlot
    <3>4. at % Cap \in 0 .. Cap - 1
      BY SlotIndex
    <3>5. slots'[at % Cap] = slots[at % Cap]
      BY <1>6, <3>3, <3>4
    <3> QED BY <1>1, <3>1, <3>2, <3>5
  <2>4. prod'[o] = prod[o]
    OBVIOUS
  <2> QED BY <1>1, <1>4, <2>1, <2>2, <2>3, <2>4 DEF Sound, SlotAt
<1> QED BY <1>2, <1>4, <1>7, <1>8, <1>9 DEF Ring

\* A consumed message is in hand, or, while the sender drains, given up.
LEMMA ConsumeInv == ASSUME IInv, Consume PROVE IInv'
<1>1. snd.pc = "consume" /\ Ready /\ TakeSlot /\ UNCHANGED <<head, claimed, prod, sent>> /\ ~refused'
  BY DEF Consume, IInv
<1>2. /\ RingTypes' /\ Ring' /\ tail' = tail + 1 /\ tail < head
      /\ SlotAt(tail).msg = claimed[tail + 1]
  BY <1>1, TakeSlotInv
<1>3. tail \in Nat /\ head \in Nat /\ claimed \in Seq(Messages) /\ Len(claimed) = head
      /\ snd \in SenderStates /\ sent \in Seq(Msgs)
  BY DEF IInv, Types, RingTypes, RoutineTypes
<1>4. PICK m \in Msgs : m = claimed[tail + 1]
  BY <1>2, <1>3 DEF Msgs
<1>5. PICK pc \in {"batch", "single"} : snd' = [pc |-> pc, msg |-> m, pending |-> snd.pending]
  BY <1>2, <1>4 DEF Consume
<1>6. snd' \in SenderStates
  BY <1>3, <1>5 DEF SenderStates
<1>7. snd'.pc = pc /\ snd'.msg = m /\ snd'.pending = snd.pending
  BY <1>5
<1>8. RoutineTypes'
  BY <1>1, <1>6, <1>7 DEF IInv, Types, RoutineTypes
<1>9. Sender'
  <2>1. Len(sent) \in Nat /\ Len(snd.pending) \in Nat
    BY <1>3 DEF SenderStates
  <2>2. /\ Len(sent) + Len(snd.pending) = tail
        /\ \A i \in 1 .. Len(snd.pending) : snd.pending[i] = claimed[Len(sent) + i]
    BY <1>1, <1>3, <2>1 DEF IInv, Sender, NothingLost, Hand
  <2>3. Hand' = 1
    BY <1>7 DEF Hand
  <2>4. NothingLost'
    BY <1>1, <1>2, <1>3, <1>4, <1>7, <2>1, <2>2, <2>3 DEF NothingLost
  <2>5. SentPrefix'
    BY <1>1, <1>2, <1>3, <2>1 DEF IInv, Sender, SentPrefix
  <2> QED BY <2>4, <2>5 DEF Sender
<1> QED BY <1>1, <1>2, <1>8, <1>9 DEF IInv, Types

LEMMA DrainRingInv == ASSUME IInv, DrainRing PROVE IInv'
<1>1. snd.pc = "drain" /\ UNCHANGED <<head, claimed, prod, sent>> /\ ~refused'
  BY DEF DrainRing, IInv
<1>2. snd \in SenderStates /\ sent \in Seq(Msgs) /\ tail \in Nat
  BY DEF IInv, Types, RingTypes, RoutineTypes
<1>3. CASE Ready
  <2>1. TakeSlot /\ UNCHANGED snd
    BY <1>3 DEF DrainRing
  <2>2. RingTypes' /\ Ring' /\ tail' = tail + 1
    BY <1>1, <1>3, <2>1, TakeSlotInv
  <2>3. RoutineTypes'
    BY <1>1, <2>1 DEF IInv, Types, RoutineTypes
  <2>4. NothingLost'
    BY <1>1, <2>1 DEF NothingLost
  <2>5. SentPrefix'
    BY <1>1, <1>2, <2>2 DEF IInv, Sender, SentPrefix
  <2> QED BY <1>1, <2>2, <2>3, <2>4, <2>5 DEF IInv, Types, Sender
<1>4. CASE ~Ready
  <2>1. snd' = [snd EXCEPT !.pc = "done"] /\ UNCHANGED <<slots, tail>>
    BY <1>4 DEF DrainRing
  <2>2. snd' \in SenderStates /\ snd'.pc = "done" /\ snd'.pending = snd.pending
    BY <1>2, <2>1 DEF SenderStates
  <2>3. Sender'
    BY <1>1, <2>1, <2>2 DEF IInv, Sender, NothingLost, SentPrefix
  <2>4. UNCHANGED <<ringVars, prod, refused>>
    BY <2>1 DEF DrainRing, ringVars
  <2>5. Len(snd.pending) < Batch /\ Len(snd.pending) <= Batch
    BY <1>1, <1>2 DEF IInv, Types, RoutineTypes
  <2> QED BY <1>1, <1>2, <2>2, <2>3, <2>4, <2>5, SenderOnly
<1> QED BY <1>3, <1>4

\* What the sender has sent, with what it has pending, in the claims' order.
LEMMA SentWithPending ==
  ASSUME IInv, snd.pc \notin {"drain", "done"}
  PROVE /\ sent \o snd.pending \in Seq(Msgs)
        /\ Len(sent \o snd.pending) = Len(sent) + Len(snd.pending)
        /\ \A i \in 1 .. Len(sent \o snd.pending) : (sent \o snd.pending)[i] = claimed[i]
<1>1. sent \in Seq(Msgs) /\ snd.pending \in Seq(Msgs)
  BY DEF IInv, Types, RoutineTypes, SenderStates
<1>2. Len(sent) \in Nat /\ Len(snd.pending) \in Nat
  BY <1>1
<1> DEFINE all == sent \o snd.pending
<1>3. /\ all \in Seq(Msgs) /\ Len(all) = Len(sent) + Len(snd.pending)
      /\ \A i \in 1 .. Len(sent) + Len(snd.pending) :
           all[i] = IF i <= Len(sent) THEN sent[i] ELSE snd.pending[i - Len(sent)]
  BY <1>1, ConcatProperties
<1> HIDE DEF all
<1>4. \A i \in 1 .. Len(snd.pending) : snd.pending[i] = claimed[Len(sent) + i]
  BY DEF IInv, Sender, NothingLost
<1>5. \A i \in 1 .. Len(sent) : sent[i] = claimed[i]
  BY DEF IInv, Sender, SentPrefix
<1>6. ASSUME NEW i \in 1 .. Len(sent) + Len(snd.pending) PROVE all[i] = claimed[i]
  <2>1. CASE i <= Len(sent)
    BY <1>2, <1>3, <1>5, <2>1
  <2>2. CASE ~(i <= Len(sent))
    <3>1. PICK j \in 1 .. Len(snd.pending) : j = i - Len(sent)
      BY <1>2, <2>2
    <3>2. all[i] = snd.pending[j] /\ Len(sent) + j = i
      BY <1>2, <1>3, <2>2, <3>1
    <3> QED BY <1>4, <3>1, <3>2
  <2> QED BY <2>1, <2>2
<1> QED BY <1>3, <1>6 DEF all

\* However a flush ends, what is still owed stays in the claims' order.
LEMMA FlushInv ==
  ASSUME IInv, snd.pc \notin {"drain", "done"},
         NEW next \in SenderStates, next.pending = <<>>,
         next.pc \notin {"drain", "done"},
         next.pc \in {"batch", "single", "alone"} <=> snd.pc \in {"batch", "single", "alone"},
         next.pc \in {"batch", "single", "alone"} => next.msg = snd.msg,
         Flush(next), UNCHANGED <<ringVars, prod, refused>>
  PROVE IInv'
<1>1. UNCHANGED <<head, tail, slots, claimed>>
  BY DEF ringVars
<1>2. sent \in Seq(Msgs) /\ snd.pending \in Seq(Msgs) /\ Batch \in Nat \ {0} /\ tail \in Nat
  BY RingAssumption DEF IInv, Types, RingTypes, RoutineTypes, SenderStates
<1>3. /\ Len(sent) + Len(snd.pending) + Hand = tail
      /\ Hand = 1 => snd.msg = claimed[tail]
  BY DEF IInv, Sender, NothingLost
<1>4. Len(sent) \in Nat /\ Len(snd.pending) \in Nat /\ Hand \in {0, 1}
  BY <1>2 DEF Hand
<1>5. CASE snd' = next /\ sent' \in Seq(Msgs) /\ Len(sent') = Len(sent) + Len(snd.pending)
           /\ \A i \in 1 .. Len(sent') : sent'[i] = claimed[i]
  <2>1. snd'.pending = <<>> /\ Len(snd'.pending) = 0
    BY <1>5
  <2>2. Hand' = Hand /\ (Hand = 1 => snd'.msg = snd.msg)
    BY <1>5 DEF Hand
  <2>3. NothingLost'
    <3>1. Len(sent') + Len(snd'.pending) + Hand' = tail'
      <4>1. tail' = tail /\ Len(sent') = Len(sent) + Len(snd.pending)
        BY <1>1, <1>5
      <4>2. Len(snd'.pending) = 0 /\ Hand' = Hand
        BY <2>1, <2>2
      <4> QED BY <1>2, <1>3, <1>4, <4>1, <4>2
    <3>2. \A i \in 1 .. Len(snd'.pending) : snd'.pending[i] = claimed'[Len(sent') + i]
      BY <2>1
    <3>3. Hand' = 1 => snd'.msg = claimed'[tail']
      BY <1>1, <1>3, <2>2
    <3> QED BY <2>1, <3>1, <3>2, <3>3 DEF NothingLost
  <2>4. SentPrefix'
    BY <1>1, <1>2, <1>3, <1>4, <1>5 DEF SentPrefix
  <2>5. snd' \in SenderStates /\ sent' \in Seq(Msgs)
        /\ Len(snd'.pending) <= Batch /\ Len(snd'.pending) < Batch
    BY <1>2, <1>5, <2>1
  <2>6. Sender'
    BY <2>3, <2>4 DEF Sender
  <2> QED BY <2>5, <2>6, SenderOnly
<1>6. CASE snd' = [next EXCEPT !.pc = "drain", !.pending = <<>>] /\ UNCHANGED sent
  <2>1. <<>> \in Seq(Msgs) /\ Len(<<>>) = 0
    OBVIOUS
  <2>2. snd' \in SenderStates /\ snd'.pc = "drain" /\ snd'.pending = <<>>
    BY <1>6, <2>1 DEF SenderStates
  <2>3. Sender'
    BY <1>1, <1>6, <2>2 DEF IInv, Sender, NothingLost, SentPrefix
  <2>4. sent' \in Seq(Msgs) /\ Len(snd'.pending) <= Batch /\ Len(snd'.pending) < Batch
    BY <1>2, <1>6, <2>1, <2>2
  <2> QED BY <2>2, <2>3, <2>4, SenderOnly
<1>7. CASE snd.pending = <<>>
  <2>1. snd' = next /\ UNCHANGED sent
    BY <1>7 DEF Flush
  <2>2. Len(snd.pending) = 0
    BY <1>7
  <2>3. \A i \in 1 .. Len(sent) : sent[i] = claimed[i]
    BY DEF IInv, Sender, SentPrefix
  <2> QED BY <1>2, <1>4, <1>5, <2>1, <2>2, <2>3
<1>8. CASE snd.pending # <<>> /\ broken
  BY <1>6, <1>8 DEF Flush
<1>9. CASE snd.pending # <<>> /\ ~broken
  <2>1. snd' = next /\ sent' = sent \o snd.pending
    BY <1>9 DEF Flush
  <2> QED BY <1>5, <2>1, SentWithPending
<1> QED BY <1>7, <1>8, <1>9

\* A step that only moves the sender on, with the same message in hand.
LEMMA MoveInv ==
  ASSUME IInv, snd.pc \notin {"drain", "done"}, snd.pc # "full",
         NEW pc \in {"consume", "flush", "drain"}, snd.pc \in {"consume", "sleep"},
         snd' = [snd EXCEPT !.pc = pc], UNCHANGED <<ringVars, prod, sent, refused>>
  PROVE IInv'
<1>1. snd \in SenderStates /\ sent \in Seq(Msgs)
  BY DEF IInv, Types, RoutineTypes
<1>2. snd' \in SenderStates /\ snd'.pc = pc /\ snd'.pending = snd.pending
  BY <1>1 DEF SenderStates
<1>3. UNCHANGED <<head, tail, slots, claimed>>
  BY DEF ringVars
<1>4. Hand = 0 /\ Hand' = 0
  BY <1>2 DEF Hand
<1>5. Sender'
  BY <1>2, <1>3, <1>4 DEF IInv, Sender, NothingLost, SentPrefix
<1>6. Len(snd'.pending) <= Batch /\ Len(snd'.pending) < Batch
  BY <1>2 DEF IInv, Types, RoutineTypes
<1> QED BY <1>1, <1>2, <1>5, <1>6, SenderOnly

LEMMA SleepInv == ASSUME IInv, Sleep PROVE IInv'
<1>1. snd.pc = "sleep" /\ UNCHANGED <<ringVars, prod, sent, refused>>
  BY DEF Sleep
<1>2. PICK pc \in {"drain", "consume"} : snd' = [snd EXCEPT !.pc = pc]
  BY DEF Sleep
<1> QED BY <1>1, <1>2, MoveInv

LEMMA RunDryInv == ASSUME IInv, RunDry PROVE IInv'
<1>1. /\ snd.pc = "consume" /\ UNCHANGED <<ringVars, prod, sent, refused>>
      /\ snd' = [snd EXCEPT !.pc = "flush"]
  BY DEF RunDry
<1> QED BY <1>1, MoveInv

\* The three flushes that leave no message in hand, or the same one.
LEMMA BatchFullInv == ASSUME IInv, BatchFull PROVE IInv'
<1>1. [pc |-> "consume", msg |-> NoMsg, pending |-> <<>>] \in SenderStates
  BY DEF SenderStates, Msgs
<1>2. PICK next \in SenderStates : next = [pc |-> "consume", msg |-> NoMsg, pending |-> <<>>]
  BY <1>1
<1>3. snd.pc = "full" /\ Flush(next) /\ UNCHANGED <<ringVars, prod, refused>>
  BY <1>2 DEF BatchFull
<1>4. next.pc = "consume" /\ next.pending = <<>>
  BY <1>2
<1> QED BY <1>3, <1>4, FlushInv

LEMMA FlushBeforeSleepInv == ASSUME IInv, FlushBeforeSleep PROVE IInv'
<1>1. [pc |-> "sleep", msg |-> NoMsg, pending |-> <<>>] \in SenderStates
  BY DEF SenderStates, Msgs
<1>2. PICK next \in SenderStates : next = [pc |-> "sleep", msg |-> NoMsg, pending |-> <<>>]
  BY <1>1
<1>3. snd.pc = "flush" /\ Flush(next) /\ UNCHANGED <<ringVars, prod, refused>>
  BY <1>2 DEF FlushBeforeSleep
<1>4. next.pc = "sleep" /\ next.pending = <<>>
  BY <1>2
<1> QED BY <1>3, <1>4, FlushInv

LEMMA SendBeforeInv == ASSUME IInv, SendBefore PROVE IInv'
<1>0. PICK m \in Msgs : m = snd.msg
  BY DEF IInv, Types, RoutineTypes, SenderStates
<1>1. [pc |-> "alone", msg |-> m, pending |-> <<>>] \in SenderStates
  BY DEF SenderStates
<1>2. PICK next \in SenderStates : next = [pc |-> "alone", msg |-> m, pending |-> <<>>]
  BY <1>1
<1>3. snd.pc = "single" /\ Flush(next) /\ UNCHANGED <<ringVars, prod, refused>>
  BY <1>0, <1>2 DEF SendBefore
<1>4. next.pc = "alone" /\ next.pending = <<>> /\ next.msg = snd.msg
  BY <1>0, <1>2
<1> QED BY <1>3, <1>4, FlushInv

\* A delivery joins the batch behind what is pending.
LEMMA BatchAddInv == ASSUME IInv, BatchAdd PROVE IInv'
<1>0. PICK m \in Msgs : m = snd.msg
  BY DEF IInv, Types, RoutineTypes, SenderStates
<1>1. snd.pc = "batch" /\ UNCHANGED <<ringVars, prod, refused>>
  BY DEF BatchAdd
<1>2. CASE Flush([pc |-> "batch", msg |-> snd.msg, pending |-> <<>>])
  <2>1. [pc |-> "batch", msg |-> m, pending |-> <<>>] \in SenderStates
    BY DEF SenderStates
  <2>2. PICK next \in SenderStates : next = [pc |-> "batch", msg |-> m, pending |-> <<>>]
    BY <2>1
  <2>3. Flush(next)
    BY <1>0, <1>2, <2>2
  <2>4. next.pc = "batch" /\ next.pending = <<>> /\ next.msg = snd.msg
    BY <1>0, <2>2
  <2> QED BY <1>1, <2>3, <2>4, FlushInv
<1>3. CASE \E full \in BOOLEAN :
             /\ Len(Append(snd.pending, snd.msg)) >= Batch => full
             /\ snd' = [pc |-> IF full THEN "full" ELSE "consume",
                        msg |-> NoMsg, pending |-> Append(snd.pending, snd.msg)]
             /\ UNCHANGED sent
  <2>1. /\ sent \in Seq(Msgs) /\ snd.pending \in Seq(Msgs) /\ Batch \in Nat \ {0} /\ tail \in Nat
        /\ Len(snd.pending) < Batch
    BY <1>1, RingAssumption DEF IInv, Types, RingTypes, RoutineTypes, SenderStates
  <2>2. PICK all \in Seq(Msgs) :
          /\ all = Append(snd.pending, m) /\ Len(all) = Len(snd.pending) + 1
          /\ all[Len(snd.pending) + 1] = m
          /\ \A i \in 1 .. Len(snd.pending) : all[i] = snd.pending[i]
    <3>1. PICK s \in Seq(Msgs) : s = snd.pending
      BY <2>1
    <3>2. Append(s, m) \in Seq(Msgs) /\ Len(Append(s, m)) = Len(s) + 1
      OBVIOUS
    <3>3. \A i \in 1 .. Len(s) + 1 : Append(s, m)[i] = IF i = Len(s) + 1 THEN m ELSE s[i]
      OBVIOUS
    <3>4. Len(s) \in Nat
      OBVIOUS
    <3>5. PICK all \in Seq(Msgs) : all = Append(s, m)
      BY <3>2
    <3>6. Len(all) = Len(s) + 1 /\ all[Len(s) + 1] = m
      BY <3>2, <3>3, <3>4, <3>5
    <3>7. \A i \in 1 .. Len(s) : all[i] = s[i]
      BY <3>3, <3>4, <3>5
    <3> QED BY <3>1, <3>5, <3>6, <3>7
  <2>3. PICK pc \in {"full", "consume"} :
          /\ pc # "full" => Len(all) < Batch
          /\ snd' = [pc |-> pc, msg |-> NoMsg, pending |-> all]
    <3>1. PICK full \in BOOLEAN :
            /\ Len(all) >= Batch => full
            /\ snd' = [pc |-> IF full THEN "full" ELSE "consume",
                       msg |-> NoMsg, pending |-> all]
      BY <1>0, <1>3, <2>2
    <3>2. Len(all) \in Nat
      BY <2>2
    <3>3. CASE full
      BY <3>1, <3>3
    <3>4. CASE ~full
      BY <2>1, <3>1, <3>2, <3>4
    <3> QED BY <3>3, <3>4
  <2>4. snd' \in SenderStates
    BY <2>3 DEF SenderStates, Msgs
  <2>5. snd'.pc = pc /\ snd'.pending = all
    BY <2>3
  <2>6. Len(snd'.pending) <= Batch /\ (snd'.pc # "full" => Len(snd'.pending) < Batch)
    BY <2>1, <2>2, <2>3, <2>5
  <2>7. UNCHANGED <<head, tail, slots, claimed, sent>>
    BY <1>1, <1>3 DEF ringVars
  <2>8. Len(sent) \in Nat /\ Len(snd.pending) \in Nat
    BY <2>1
  <2>9. Hand = 1 /\ Hand' = 0
    BY <1>1, <2>5 DEF Hand
  <2>10. /\ Len(sent) + Len(snd.pending) + 1 = tail /\ m = claimed[tail]
         /\ \A i \in 1 .. Len(snd.pending) : snd.pending[i] = claimed[Len(sent) + i]
    BY <1>0, <1>1, <2>9 DEF IInv, Sender, NothingLost
  <2>11. \A i \in 1 .. Len(all) : all[i] = claimed[Len(sent) + i]
    <3> SUFFICES ASSUME NEW i \in 1 .. Len(all) PROVE all[i] = claimed[Len(sent) + i]
      OBVIOUS
    <3>1. CASE i \in 1 .. Len(snd.pending)
      BY <2>2, <2>10, <3>1
    <3>2. CASE i = Len(snd.pending) + 1
      <4>1. Len(sent) + i = tail
        BY <2>8, <2>10, <3>2
      <4> QED BY <2>2, <2>10, <3>2, <4>1
    <3> QED BY <2>2, <2>8, <3>1, <3>2
  <2>12. NothingLost'
    <3>1. Len(sent') + Len(snd'.pending) + Hand' = tail'
      BY <2>2, <2>5, <2>7, <2>8, <2>9, <2>10
    <3> QED BY <2>5, <2>7, <2>9, <2>11, <3>1 DEF NothingLost
  <2>13. SentPrefix'
    BY <2>7 DEF IInv, Sender, SentPrefix
  <2>14. Sender'
    BY <2>12, <2>13 DEF Sender
  <2>15. sent' \in Seq(Msgs)
    BY <2>1, <2>7
  <2> QED BY <1>1, <2>4, <2>6, <2>14, <2>15, SenderOnly
<1> QED BY <1>2, <1>3 DEF BatchAdd

\* A message that goes alone follows everything sent before it.
LEMMA SendOneInv == ASSUME IInv, SendOne PROVE IInv'
<1>1. snd.pc = "alone" /\ UNCHANGED <<ringVars, prod, refused>>
  BY DEF SendOne
<1>2. sent \in Seq(Msgs) /\ snd \in SenderStates /\ Batch \in Nat \ {0} /\ tail \in Nat
  BY RingAssumption DEF IInv, Types, RingTypes, RoutineTypes
<1>3. PICK m \in Msgs : m = snd.msg
  BY <1>2 DEF SenderStates
<1>4. PICK pc \in {"drain", "consume"} :
        snd' = [snd EXCEPT !.pc = pc, !.msg = NoMsg] /\ (pc = "drain" <=> broken)
  BY DEF SendOne
<1>5. snd.pending = <<>> /\ Hand = 1
  BY <1>1 DEF IInv, Sender, NothingLost, Hand
<1>6. snd' \in SenderStates /\ snd'.pc = pc /\ snd'.pending = <<>>
  BY <1>2, <1>4, <1>5 DEF SenderStates, Msgs
<1>7. Len(snd'.pending) <= Batch /\ Len(snd'.pending) < Batch
  BY <1>2, <1>6
<1>8. UNCHANGED <<head, tail, slots, claimed>>
  BY <1>1 DEF ringVars
<1>9. CASE broken
  <2>1. sent' = sent /\ snd'.pc = "drain"
    BY <1>4, <1>6, <1>9 DEF SendOne
  <2>2. Sender'
    BY <1>8, <2>1 DEF IInv, Sender, NothingLost, SentPrefix
  <2>3. sent' \in Seq(Msgs)
    BY <1>2, <2>1
  <2> QED BY <1>1, <1>6, <1>7, <2>2, <2>3, SenderOnly
<1>10. CASE ~broken
  <2>1. sent' = Append(sent, m) /\ snd'.pc = "consume"
    BY <1>3, <1>4, <1>6, <1>10 DEF SendOne
  <2>2. Len(sent) + 1 = tail /\ m = claimed[tail]
    BY <1>1, <1>2, <1>3, <1>5 DEF IInv, Sender, NothingLost
  <2>3. /\ sent' \in Seq(Msgs) /\ Len(sent') = Len(sent) + 1 /\ sent'[Len(sent) + 1] = m
        /\ \A i \in 1 .. Len(sent) : sent'[i] = sent[i]
    BY <1>2, <2>1
  <2>4. \A i \in 1 .. Len(sent') : sent'[i] = claimed[i]
    BY <1>2, <2>2, <2>3 DEF IInv, Sender, SentPrefix
  <2>5. NothingLost'
    BY <1>2, <1>6, <1>8, <2>1, <2>2, <2>3 DEF NothingLost, Hand
  <2>6. SentPrefix'
    BY <1>2, <1>8, <2>2, <2>3, <2>4 DEF SentPrefix
  <2>7. Sender'
    BY <2>5, <2>6 DEF Sender
  <2> QED BY <1>1, <1>6, <1>7, <2>3, <2>7, SenderOnly
<1> QED BY <1>9, <1>10

-----------------------------------------------------------------------------
\* The invariant holds of every behaviour.

LEMMA StepInv == IInv /\ [Next]_vars => IInv'
<1> SUFFICES ASSUME IInv, [Next]_vars PROVE IInv'
  OBVIOUS
<1>1. CASE \E p \in Producers : LoadHead(p) \/ ProducerStep(p)
  BY <1>1, LoadHeadInv, LoadSeqInv, ClaimInv, PublishSlotInv, WakeInv DEF ProducerStep
<1>2. CASE SendWait
  BY <1>2, SendWaitInv
<1>3. CASE SenderStep
  BY <1>3, ConsumeInv, RunDryInv, BatchAddInv, BatchFullInv, SendBeforeInv, SendOneInv,
     FlushBeforeSleepInv, SleepInv, DrainRingInv DEF SenderStep
<1>4. CASE Break \/ Cancel
  <2>1. UNCHANGED <<ringVars, prod, refused, snd, sent>>
    BY <1>4 DEF Break, Cancel
  <2> QED BY <2>1, Unmoved
<1>5. CASE UNCHANGED vars
  <2>1. UNCHANGED <<ringVars, prod, refused, snd, sent>>
    BY <1>5 DEF vars, ringVars
  <2> QED BY <2>1, Unmoved
<1> QED BY <1>1, <1>2, <1>3, <1>4, <1>5 DEF Next

\* Slots, producers and sender stay as the invariant says, whatever the
\* interleaving (pointerring.go:55-100, handler.go:69-137).
THEOREM RingInvariant == Spec => []IInv
BY InitInv, StepInv, PTL DEF Spec

\* The two token channels hold a token or none.
Tokens == wakeCh \in BOOLEAN /\ drainCh \in BOOLEAN

LEMMA TokensStep == Tokens /\ [Next]_vars => Tokens'
<1> SUFFICES ASSUME Tokens, [Next]_vars PROVE Tokens'
  OBVIOUS
<1>1. CASE \E p \in Producers : LoadHead(p) \/ ProducerStep(p)
  BY <1>1 DEF ProducerStep, LoadHead, LoadSeq, Claim, PublishSlot, Wake, Tokens
<1>2. CASE SendWait
  BY <1>2 DEF SendWait, Tokens
<1>3. CASE Consume \/ RunDry \/ Sleep \/ DrainRing
  BY <1>3 DEF Consume, RunDry, Sleep, DrainRing, Tokens
<1>4. ASSUME NEW next, Flush(next) PROVE drainCh' \in BOOLEAN
  BY <1>4 DEF Flush, Tokens
<1>5. CASE BatchAdd \/ BatchFull \/ SendBefore \/ FlushBeforeSleep
  BY <1>4, <1>5 DEF BatchAdd, BatchFull, SendBefore, FlushBeforeSleep, Tokens
<1>6. CASE SendOne \/ Break \/ Cancel
  BY <1>6 DEF SendOne, Break, Cancel, Tokens
<1>7. CASE UNCHANGED vars
  BY <1>7 DEF vars, Tokens
<1> QED BY <1>1, <1>2, <1>3, <1>5, <1>6, <1>7 DEF Next, SenderStep

\* Cursors, slots and goroutines have their types, the claims are never more
\* than a ring ahead, and no batch outgrows its limit (pointerring.go:16-24,
\* handler.go:69-137).
THEOREM TypeCorrect == Spec => []TypeOK
<1>1. IInv /\ Tokens => TypeOK
  <2> SUFFICES ASSUME IInv, Tokens PROVE TypeOK
    OBVIOUS
  <2>1. RingTypes /\ RoutineTypes
    BY DEF IInv, Types
  <2>2. \A p \in Producers : prod[p].n \in 0 .. MaxMsgs
    BY <2>1 DEF RoutineTypes, ProducerStates
  <2>3. head \in Nat /\ tail \in 0 .. head /\ head - tail <= Cap
    BY <2>1, RingAssumption DEF RingTypes
  <2> QED BY <2>1, <2>2, <2>3 DEF TypeOK, RingTypes, RoutineTypes, Msgs, Tokens
<1>2. Init => Tokens
  BY DEF Init, Tokens
<1> QED BY <1>1, <1>2, TokensStep, RingInvariant, PTL DEF Spec

\* The stream sees the messages in the order of their claims, none twice and
\* none skipped (handler.go:98-137).
THEOREM SentInClaimOrderHolds == Spec => []SentInClaimOrder
<1>1. IInv => SentInClaimOrder
  <2> SUFFICES ASSUME IInv PROVE SentInClaimOrder
    OBVIOUS
  <2>1. Len(sent) \in Nat /\ tail <= Len(claimed)
    BY DEF IInv, Types, RingTypes, RoutineTypes
  <2> QED BY <2>1 DEF IInv, Types, RingTypes, Sender, SentPrefix, SentInClaimOrder, IsPrefixOf
<1> QED BY <1>1, RingInvariant, PTL

\* TryProduce refuses only when the ring was full at that moment
\* (pointerring.go:66-75).
THEOREM RefusedOnlyWhenFullHolds == Spec => []RefusedOnlyWhenFull
<1>1. IInv => RefusedOnlyWhenFull
  BY DEF IInv, RefusedOnlyWhenFull
<1> QED BY <1>1, RingInvariant, PTL

-----------------------------------------------------------------------------
\* The ring is a bounded queue of the claims not yet consumed.

\* What is left of a sequence from a position on.
LEMMA SliceIs ==
  ASSUME NEW h \in Nat, NEW t \in Nat, t <= h, NEW s \in Seq(Messages), Len(s) = h
  PROVE /\ SubSeq(s, t + 1, h) \in Seq(Messages) /\ Len(SubSeq(s, t + 1, h)) = h - t
        /\ \A i \in 1 .. h - t : SubSeq(s, t + 1, h)[i] = s[t + i]
<1>1. PICK m \in Int, n \in Int : m = t + 1 /\ n = h
  OBVIOUS
<1>2. \A i \in m .. n : s[i] \in Messages
  BY <1>1
<1>3. /\ SubSeq(s, m, n) \in Seq(Messages)
      /\ Len(SubSeq(s, m, n)) = IF m <= n THEN n - m + 1 ELSE 0
      /\ \A i \in 1 .. n - m + 1 : SubSeq(s, m, n)[i] = s[m + i - 1]
  BY <1>2, SubSeqProperties
<1>4. /\ n - m + 1 = h - t /\ (IF m <= n THEN n - m + 1 ELSE 0) = h - t
      /\ \A i \in 1 .. h - t : m + i - 1 = t + i
  BY <1>1
<1> QED BY <1>1, <1>3, <1>4

LEMMA OutstandingIs ==
  ASSUME IInv
  PROVE /\ Outstanding \in Seq(Messages) /\ Len(Outstanding) = head - tail
        /\ \A i \in 1 .. head - tail : Outstanding[i] = claimed[tail + i]
<1>1. /\ head \in Nat /\ tail \in Nat /\ tail <= head
      /\ claimed \in Seq(Messages) /\ Len(claimed) = head
  BY DEF IInv, Types, RingTypes
<1> QED BY <1>1, SliceIs DEF Outstanding

\* A successful claim is accepted while there is room.
LEMMA ClaimAccepts ==
  ASSUME IInv, IInv', NEW p \in Producers, Claim(p), head = prod[p].pos
  PROVE Fifo!Next
<1>1. head \in Nat /\ tail \in Nat /\ tail <= head
      /\ claimed \in Seq(Messages) /\ Len(claimed) = head
      /\ Cap \in Nat /\ prod \in [Producers -> ProducerStates]
  BY RingAssumption DEF IInv, Types, RingTypes, RoutineTypes
<1>2. prod[p].pc = "cas"
  BY DEF Claim
<1>3. PICK m \in Messages : m = [from |-> p, n |-> prod[p].n]
  <2>1. prod[p].n \in 0 .. MaxMsgs /\ prod[p].n >= 1
    BY <1>1, <1>2 DEF ProducerStates, IInv, Types, RoutineTypes
  <2>2. [from |-> p, n |-> prod[p].n] \in Messages
    BY <2>1 DEF Messages
  <2> QED BY <2>2
<1>4. head' = head + 1 /\ tail' = tail /\ claimed' = Append(claimed, m)
  BY <1>3 DEF Claim
<1>5. head < tail + Cap
  BY <1>2 DEF IInv, Ring, Sound
<1>6. PICK s \in Seq(Messages) : s = Outstanding
  BY OutstandingIs
<1>7. Len(s) = head - tail /\ \A i \in 1 .. head - tail : s[i] = claimed[tail + i]
  BY <1>6, OutstandingIs
<1>8. /\ Append(s, m) \in Seq(Messages) /\ Len(Append(s, m)) = Len(s) + 1
      /\ \A i \in 1 .. Len(s) + 1 : Append(s, m)[i] = IF i = Len(s) + 1 THEN m ELSE s[i]
  OBVIOUS
<1>9. /\ Outstanding' \in Seq(Messages) /\ Len(Outstanding') = head' - tail'
      /\ \A i \in 1 .. head' - tail' : Outstanding'[i] = claimed'[tail' + i]
  <2>1. /\ head' \in Nat /\ tail' \in Nat /\ tail' <= head'
        /\ claimed' \in Seq(Messages) /\ Len(claimed') = head'
    BY DEF IInv, Types, RingTypes
  <2> QED BY <2>1, SliceIs DEF Outstanding
<1>10. Outstanding' = Append(s, m)
  <2>1. Len(Outstanding') = Len(Append(s, m))
    BY <1>1, <1>4, <1>7, <1>8, <1>9
  <2>2. ASSUME NEW i \in 1 .. Len(Outstanding') PROVE Outstanding'[i] = Append(s, m)[i]
    <3>1. i \in 1 .. head - tail + 1
      BY <1>1, <1>4, <1>9, <2>2
    <3>2. Outstanding'[i] = claimed'[tail + i]
      BY <1>1, <1>4, <1>9, <3>1
    <3>3. CASE i = head - tail + 1
      <4>1. claimed'[head + 1] = m /\ tail + i = head + 1
        BY <1>1, <1>4, <3>3
      <4> QED BY <1>1, <1>7, <1>8, <3>1, <3>2, <3>3, <4>1
    <3>4. CASE i \in 1 .. head - tail
      <4>1. claimed'[tail + i] = claimed[tail + i]
        BY <1>1, <1>4, <3>4
      <4>2. s[i] = claimed[tail + i]
        BY <1>7, <3>4
      <4>3. Append(s, m)[i] = s[i]
        BY <1>1, <1>7, <1>8, <3>4
      <4> QED BY <3>2, <4>1, <4>2, <4>3
    <3>5. i = head - tail + 1 \/ i \in 1 .. head - tail
      BY <1>1, <3>1
    <3> QED BY <3>3, <3>4, <3>5
  <2> QED BY <1>8, <1>9, <2>1, <2>2, SeqEqual
<1>11. Fifo!Accept(m)
  BY <1>1, <1>5, <1>6, <1>7, <1>10 DEF Fifo!Accept
<1> QED BY <1>11 DEF Fifo!Next

\* Taking a ready slot removes the oldest claim.
LEMMA TakeRemoves ==
  ASSUME IInv, Ready, TakeSlot, UNCHANGED <<head, claimed>>
  PROVE Fifo!Next
<1>1. head \in Nat /\ tail \in Nat /\ claimed \in Seq(Messages) /\ Len(claimed) = head
  BY DEF IInv, Types, RingTypes
<1>2. tail < head
  BY ReadySlot DEF IInv, Ring
<1>3. tail' = tail + 1
  BY DEF TakeSlot
<1>4. PICK m \in 1 .. Len(claimed), n \in Nat :
        m = tail + 1 /\ n = head /\ n \in m .. Len(claimed)
  BY <1>1, <1>2
<1>5. Tail(SubSeq(claimed, m, n)) = SubSeq(claimed, m + 1, n)
  BY <1>1, HeadTailOfSubSeq
<1>6. Outstanding' = Tail(Outstanding)
  BY <1>3, <1>4, <1>5 DEF Outstanding
<1>7. Outstanding # <<>>
  BY <1>1, <1>2, OutstandingIs
<1> QED BY <1>6, <1>7 DEF Fifo!Next, Fifo!Remove

\* Every other step leaves the queue as it is.
LEMMA StepSimulates ==
  IInv /\ IInv' /\ [Next]_vars => [Fifo!Next]_Outstanding
<1> SUFFICES ASSUME IInv, IInv', [Next]_vars PROVE [Fifo!Next]_Outstanding
  OBVIOUS
<1>1. ASSUME UNCHANGED <<head, tail, claimed>> PROVE Outstanding' = Outstanding
  BY <1>1 DEF Outstanding
<1>2. ASSUME NEW p \in Producers, LoadHead(p) \/ ProducerStep(p)
      PROVE  [Fifo!Next]_Outstanding
  <2>1. CASE LoadHead(p) \/ LoadSeq(p) \/ PublishSlot(p) \/ Wake(p)
    BY <1>1, <2>1 DEF LoadHead, LoadSeq, PublishSlot, Wake, ringVars
  <2>2. CASE Claim(p) /\ head # prod[p].pos
    BY <1>1, <2>2 DEF Claim
  <2>3. CASE Claim(p) /\ head = prod[p].pos
    BY <2>3, ClaimAccepts
  <2> QED BY <1>2, <2>1, <2>2, <2>3 DEF ProducerStep
<1>3. CASE Consume
  BY <1>3, TakeRemoves DEF Consume
<1>4. CASE DrainRing
  <2>1. CASE Ready
    BY <1>4, <2>1, TakeRemoves DEF DrainRing
  <2>2. CASE ~Ready
    BY <1>1, <1>4, <2>2 DEF DrainRing
  <2> QED BY <2>1, <2>2
<1>5. CASE SendWait \/ RunDry \/ Sleep \/ Break \/ Cancel
  BY <1>1, <1>5 DEF SendWait, RunDry, Sleep, Break, Cancel, ringVars
<1>6. CASE BatchAdd \/ BatchFull \/ SendBefore \/ SendOne \/ FlushBeforeSleep
  BY <1>1, <1>6 DEF BatchAdd, BatchFull, SendBefore, SendOne, FlushBeforeSleep, ringVars
<1>7. CASE UNCHANGED vars
  BY <1>1, <1>7 DEF vars
<1> QED BY <1>2, <1>3, <1>4, <1>5, <1>6, <1>7 DEF Next, SenderStep

\* Under every interleaving of producers and sender the lock-free ring is the
\* bounded queue: accepted in the order of the claims while there is room,
\* and removed in that order (pointerring.go:55-100).
THEOREM RingImplementsFifo == Spec => ImplementsFifo
<1>1. Init => Fifo!Init
  <2> SUFFICES ASSUME Init PROVE Outstanding = <<>>
    BY DEF Fifo!Init
  <2>1. IInv /\ head = 0 /\ tail = 0
    BY InitInv DEF Init
  <2>2. Outstanding \in Seq(Messages) /\ Len(Outstanding) = 0
    BY <2>1, OutstandingIs
  <2> QED BY <2>2
<1> QED BY <1>1, StepSimulates, RingInvariant, PTL DEF Spec, ImplementsFifo, Fifo!Spec
=============================================================================
