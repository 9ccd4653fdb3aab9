------------------------- MODULE AtLeastOnceProofs -------------------------
(***************************************************************************)
(* For every credit limit, history, queue, number of publishers, windows   *)
(* and channel incarnations: a subscription and its window come and go     *)
(* together, the sweeper follows the session, and a range that a pump      *)
(* gives up as lost is no longer held by history. A client that brings its *)
(* recover point gets one incarnation of a channel without gaps, is not    *)
(* denied a delivery as a duplicate of one it never got, and has confirmed *)
(* only what it received.                                                  *)
(***************************************************************************)
EXTENDS AtLeastOnce, SequenceTheorems, TLAPS

-----------------------------------------------------------------------------
\* The inductive invariant.

Entry == [offset : Nat, size : Nat]
Items == [epoch : Nat, offset : Nat]

\* The windows whose byte counter is b.
Windows(b) ==
  [ epoch : Nat, baselined : BOOLEAN, delivered : Nat, confirmed : Nat,
    inflight : Seq(Entry), inflightBytes : {b},
    attempts : Nat, attemptsOffset : Nat, aged : BOOLEAN ]

\* A window's entries are the range above the confirmed offset up to the
\* delivered one; without a baseline there are none.
Sane(x) ==
  /\ x \in Windows(x.inflightBytes)
  /\ x.delivered = x.confirmed + Len(x.inflight)
  /\ \A i \in 1 .. Len(x.inflight) : x.inflight[i].offset = x.confirmed + i
  /\ ~x.baselined => x.inflight = <<>>

\* Among n incarnations with histories c, offset o of incarnation e was reached.
Reached(n, c, e, o) == e \in 1 .. n /\ o \in 0 .. c[e].last

\* A window never runs ahead of the history it is pinned to.
Follows(x, n, c) == Sane(x) /\ (x.baselined => Reached(n, c, x.epoch, x.delivered))

ChanTypes ==
  /\ newest \in 0 .. MaxEpoch /\ live \in 0 .. newest
  /\ live = 0 => newest < MaxEpoch
  /\ chans \in [Epochs -> [last : Nat, count : Nat, sub : BOOLEAN]]

PubRecs == [pc : PubStates, epoch : Nat, offset : Nat, win : Nat]

\* What a publisher holds exists: its incarnation, the offset it assigned and,
\* among w, its window.
GoodPub(r, n, c, w) ==
  /\ r.pc # "idle" => r.epoch \in 1 .. n
  /\ r.pc \in {"fan", "gate", "deliver"} => r.offset >= 1 /\ Reached(n, c, r.epoch, r.offset)
  /\ r.win <= w

PubTypes == pub \in [Pubs -> PubRecs] /\ \A p \in Pubs : GoodPub(pub[p], newest, chans, Len(wins))

ThreadRecs == [pc : ThreadStates, win : Nat, from : Nat, epoch : Nat, room : Nat,
               batch : Seq(Items)]

\* What a thread holds of the history exists there.
GoodThread(r, n, c, w) ==
  /\ r.pc \in {"check", "point", "fetch", "reset", "admit"} => r.win >= 1 /\ r.win <= w
  /\ r.pc \in {"fetch", "replay"} => Reached(n, c, r.epoch, r.from)
  /\ r.pc = "fetch" => r.room >= 1
  /\ r.pc = "admit" => r.batch # <<>>
  /\ r.pc \in {"admit", "deliver"} =>
       \A k \in 1 .. Len(r.batch) :
         r.batch[k].offset >= 1 /\ Reached(n, c, r.batch[k].epoch, r.batch[k].offset)

DispatchStates == {"idle", "subscribe", "replay", "deliver", "unsubscribe", "joining", "ended",
                   "point", "fetch", "reset", "admit"}
TickStates == {"idle", "called", "check", "point", "fetch", "reset", "admit"}

ThreadTypes ==
  /\ th \in [Threads -> ThreadRecs]
  /\ th["dispatch"].pc \in DispatchStates /\ th["tick"].pc \in TickStates
  /\ th["dispatch"].pc = "subscribe" /\ Recovering =>
       Reached(newest, chans, th["dispatch"].epoch, th["dispatch"].from)
  /\ \A t \in Threads : GoodThread(th[t], newest, chans, Len(wins))

WindowTypes ==
  /\ \E S : wins \in Seq(S)
  /\ \A i \in 1 .. Len(wins) : Follows(wins[i], newest, chans)
  /\ cur \in 0 .. Len(wins)

ClientTypes == queue \in Seq(Items) /\ seen \subseteq Items /\ ack \in Nat

LifeTypes ==
  /\ swept \in BOOLEAN /\ fenced \in BOOLEAN
  /\ sweeper \in [loop : {"off", "on", "gone"}, stopped : BOOLEAN]

Types == ChanTypes /\ PubTypes /\ ThreadTypes /\ WindowTypes /\ ClientTypes /\ LifeTypes

\* Only the live incarnation has the subscription, and only beside a window.
Unsubscribed == \A e \in Epochs : ~chans[e].sub
Subscribed   == live # 0 /\ chans[live].sub
Guarded      == \A e \in Epochs : chans[e].sub => e = live /\ cur # 0

\* How far the request in progress has come.
Request ==
  /\ (cur # 0 /\ th["dispatch"].pc \notin {"subscribe", "unsubscribe", "joining", "ended"})
       => Subscribed
  /\ th["dispatch"].pc \in {"replay", "deliver", "subscribe"} => cur # 0
  /\ th["dispatch"].pc = "subscribe" =>
       IF th["dispatch"].win # 0 THEN Unsubscribed ELSE Subscribed
  /\ th["dispatch"].pc = "unsubscribe" => Unsubscribed

\* The session's fence and the sweeper.
Fence ==
  /\ fenced <=> th["dispatch"].pc \in {"joining", "ended"}
  /\ th["dispatch"].pc = "ended" => th["tick"].pc \in {"idle", "called"}
  /\ swept => cur # 0 /\ ~fenced /\ sweeper.loop # "off"
  /\ (cur # 0 /\ ~fenced /\ ~sweeper.stopped) => swept

Session == Guarded /\ Request /\ Fence

IInv == Types /\ Session /\ lost \in BOOLEAN

-----------------------------------------------------------------------------
\* The window's operations.

LEMMA SaneFields ==
  ASSUME NEW x, Sane(x)
  PROVE /\ x.epoch \in Nat /\ x.baselined \in BOOLEAN /\ x.delivered \in Nat
        /\ x.confirmed \in Nat /\ x.inflight \in Seq(Entry) /\ Len(x.inflight) \in Nat
        /\ x.confirmed <= x.delivered
<1>1. /\ x.epoch \in Nat /\ x.baselined \in BOOLEAN /\ x.delivered \in Nat
      /\ x.confirmed \in Nat /\ x.inflight \in Seq(Entry)
  BY DEF Sane, Windows
<1>2. Len(x.inflight) \in Nat
  BY <1>1
<1> QED BY <1>1, <1>2 DEF Sane

\* What makes a window sane, given its type.
LEMMA MakeSane ==
  ASSUME NEW b, NEW y \in Windows(b),
         y.delivered = y.confirmed + Len(y.inflight),
         \A i \in 1 .. Len(y.inflight) : y.inflight[i].offset = y.confirmed + i,
         ~y.baselined => y.inflight = <<>>
  PROVE  Sane(y)
<1>1. y.inflightBytes = b
  BY DEF Windows
<1> QED BY <1>1 DEF Sane

\* An empty window is sane.
LEMMA EmptySane ==
  ASSUME NEW b, NEW y \in Windows(b), y.inflight = <<>>, y.delivered = y.confirmed
  PROVE  Sane(y)
<1>1. Len(y.inflight) = 0 /\ y.confirmed \in Nat
  BY DEF Windows
<1>2. y.delivered = y.confirmed + Len(y.inflight)
  BY <1>1
<1>3. \A i \in 1 .. Len(y.inflight) : FALSE
  BY <1>1
<1> QED BY <1>2, <1>3, MakeSane

LEMMA NewWindowSane == Sane(NewWindow) /\ ~NewWindow.baselined
  BY DEF Sane, Windows, NewWindow

LEMMA ResetSane ==
  ASSUME NEW x, Sane(x)
  PROVE Sane(Reset(x)) /\ ~Reset(x).baselined
<1> DEFINE y == Reset(x)
<1>1. <<>> \in Seq(Entry) /\ x \in Windows(x.inflightBytes)
  BY DEF Sane
<1>2. y \in Windows(0)
  BY <1>1 DEF Windows, Reset
<1>3. y.inflight = <<>> /\ y.delivered = 0 /\ y.confirmed = 0 /\ ~y.baselined
  BY <1>1 DEF Windows, Reset
<1> HIDE DEF y
<1>4. Sane(y)
  BY <1>2, <1>3, EmptySane
<1> QED BY <1>3, <1>4 DEF y

LEMMA BaselineSane ==
  ASSUME NEW o \in Nat, NEW e \in Nat
  PROVE LET y == Baseline(NewWindow, o, e)
        IN  Sane(y) /\ y.baselined /\ y.epoch = e /\ y.delivered = o
<1> DEFINE y == Baseline(NewWindow, o, e)
<1>1. <<>> \in Seq(Entry)
  OBVIOUS
<1>2. y \in Windows(0)
  BY <1>1 DEF Windows, NewWindow, Baseline
<1>3. y.inflight = <<>> /\ y.delivered = o /\ y.confirmed = o /\ y.baselined /\ y.epoch = e
  BY DEF Baseline, NewWindow
<1> HIDE DEF y
<1>4. Sane(y)
  BY <1>2, <1>3, EmptySane
<1> QED BY <1>3, <1>4 DEF y

LEMMA AgedSane ==
  ASSUME NEW x, Sane(x)
  PROVE LET y == Aged(x)
        IN  Sane(y) /\ y.baselined = x.baselined /\ y.epoch = x.epoch /\ y.delivered = x.delivered
  BY DEF Sane, Windows, Aged

\* The first half of Admit.
LEMMA RebaseSane ==
  ASSUME NEW x, Sane(x), NEW o \in Nat \ {0}, NEW e \in Nat
  PROVE LET y == Rebase(x, o, e)
        IN  /\ Sane(y) /\ y.baselined /\ y.epoch = e
            /\ y.delivered = o - 1 \/ (x.baselined /\ y = x)
<1>1. <<>> \in Seq(Entry) /\ Len(<<>>) = 0 /\ o - 1 \in Nat
  OBVIOUS
<1>2. CASE ~x.baselined
  <2>1. Rebase(x, o, e) = [x EXCEPT !.baselined = TRUE, !.epoch = e,
                                    !.delivered = o - 1, !.confirmed = o - 1]
    BY <1>2 DEF Rebase
  <2>2. x.inflight = <<>> /\ x \in Windows(x.inflightBytes)
    BY <1>2 DEF Sane
  <2> DEFINE y == Rebase(x, o, e)
  <2>3. y \in Windows(x.inflightBytes)
    BY <1>1, <2>1, <2>2 DEF Windows
  <2>4. /\ y.inflight = <<>> /\ y.delivered = o - 1 /\ y.confirmed = o - 1
        /\ y.baselined /\ y.epoch = e
    BY <2>1, <2>2 DEF Windows
  <2> HIDE DEF y
  <2>5. Sane(y)
    BY <2>3, <2>4, EmptySane
  <2> QED BY <2>4, <2>5 DEF y
<1>3. CASE x.baselined /\ e # x.epoch
  <2>1. Rebase(x, o, e) = [x EXCEPT !.epoch = e, !.delivered = o - 1, !.confirmed = o - 1,
                                    !.inflight = <<>>, !.inflightBytes = 0,
                                    !.attempts = 0, !.attemptsOffset = 0]
    BY <1>3 DEF Rebase
  <2>2. x \in Windows(x.inflightBytes)
    BY DEF Sane
  <2> DEFINE y == Rebase(x, o, e)
  <2>3. y \in Windows(0)
    <3>1. PICK n \in Nat : n = o - 1
      BY <1>1
    <3>2. PICK z \in Windows(x.inflightBytes) :
            z = [x EXCEPT !.epoch = e, !.delivered = n, !.confirmed = n, !.inflight = <<>>]
      BY <1>1, <2>2 DEF Windows
    <3>3. y = [z EXCEPT !.inflightBytes = 0, !.attempts = 0, !.attemptsOffset = 0]
      BY <2>1, <3>1, <3>2
    <3>4. /\ z.epoch \in Nat /\ z.baselined \in BOOLEAN /\ z.delivered \in Nat
          /\ z.confirmed \in Nat /\ z.inflight \in Seq(Entry) /\ z.aged \in BOOLEAN
      BY DEF Windows
    <3>5. y = [epoch |-> z.epoch, baselined |-> z.baselined, delivered |-> z.delivered,
               confirmed |-> z.confirmed, inflight |-> z.inflight, inflightBytes |-> 0,
               attempts |-> 0, attemptsOffset |-> 0, aged |-> z.aged]
      BY <3>3 DEF Windows
    <3>6. 0 \in Nat /\ 0 \in {0}
      OBVIOUS
    <3> QED BY <3>4, <3>5, <3>6 DEF Windows
  <2>4. /\ y.inflight = <<>> /\ y.delivered = o - 1 /\ y.confirmed = o - 1
        /\ y.baselined /\ y.epoch = e
    BY <1>3, <2>1, <2>2 DEF Windows
  <2> HIDE DEF y
  <2>5. Sane(y)
    BY <2>3, <2>4, EmptySane
  <2> QED BY <2>4, <2>5 DEF y
<1>4. CASE x.baselined /\ e = x.epoch
  BY <1>4 DEF Rebase
<1> QED BY <1>2, <1>3, <1>4

\* A delivery the transport took.
LEMMA CommitSane ==
  ASSUME NEW x, Sane(x), x.baselined, NEW o \in Nat \ {0}, o = x.delivered + 1
  PROVE LET y == Commit(x, o, 1)
        IN  Sane(y) /\ y.baselined /\ y.epoch = x.epoch /\ y.delivered = o
<1> DEFINE entry == [offset |-> o, size |-> 1]
           more  == Append(x.inflight, entry)
           y     == Commit(x, o, 1)
<1>1. entry \in Entry /\ entry.offset = o
  BY DEF Entry
<1>2. /\ x.inflight \in Seq(Entry) /\ Len(x.inflight) \in Nat
      /\ x.delivered \in Nat /\ x.confirmed \in Nat /\ x.delivered = x.confirmed + Len(x.inflight)
      /\ \A i \in 1 .. Len(x.inflight) : x.inflight[i].offset = x.confirmed + i
  BY SaneFields DEF Sane
<1> HIDE DEF entry
<1>3. /\ more \in Seq(Entry) /\ Len(more) = Len(x.inflight) + 1
      /\ more[Len(x.inflight) + 1] = entry
      /\ \A i \in 1 .. Len(x.inflight) : more[i] = x.inflight[i]
  BY <1>1, <1>2
<1>4. y = [x EXCEPT !.inflight = more, !.inflightBytes = @ + 1, !.delivered = o,
                    !.aged = IF x.inflight = <<>> THEN FALSE ELSE @]
  BY DEF Commit, entry
<1> HIDE DEF more, y
<1>5. /\ y.inflight = more /\ y.delivered = o /\ y.confirmed = x.confirmed
      /\ y.baselined = x.baselined /\ y.epoch = x.epoch
  BY <1>4 DEF Sane, Windows
<1>6. y \in Windows(x.inflightBytes + 1)
  <2>1. (IF x.inflight = <<>> THEN FALSE ELSE x.aged) \in BOOLEAN
    BY DEF Sane, Windows
  <2> QED BY <1>3, <1>4, <2>1 DEF Sane, Windows
<1>7. \A i \in 1 .. Len(more) : more[i].offset = x.confirmed + i
  <2> SUFFICES ASSUME NEW i \in 1 .. Len(more) PROVE more[i].offset = x.confirmed + i
    OBVIOUS
  <2>1. CASE i \in 1 .. Len(x.inflight)
    BY <1>2, <1>3, <2>1
  <2>2. CASE i = Len(x.inflight) + 1
    BY <1>1, <1>2, <1>3, <2>2
  <2> QED BY <1>2, <1>3, <2>1, <2>2
<1>8. Sane(y)
  <2>1. o = x.confirmed + Len(more)
    BY <1>2, <1>3
  <2>2. y.delivered = y.confirmed + Len(y.inflight)
    BY <1>5, <2>1
  <2> QED BY <1>5, <1>6, <1>7, <2>2, MakeSane
<1> QED BY <1>5, <1>8 DEF y

\* Admit, whatever its verdict, leaves the window pinned at most at the offset
\* it was called with, or where it was.
LEMMA AdmitSane ==
  ASSUME NEW x, Sane(x), NEW o \in Nat \ {0}, NEW e \in Nat, NEW accepts
  PROVE LET y == Admit(x, o, e, 1, accepts).window
        IN  /\ Sane(y) /\ y.baselined
            /\ \/ y.epoch = e /\ y.delivered <= o
               \/ x.baselined /\ y.epoch = x.epoch /\ y.delivered = x.delivered
<1> DEFINE b == Rebase(x, o, e)
           v == Verdict(b, o, 1, accepts)
           y == Admit(x, o, e, 1, accepts).window
<1>1. Sane(b) /\ b.baselined /\ b.epoch = e /\ (b.delivered = o - 1 \/ (x.baselined /\ b = x))
  BY RebaseSane
<1> HIDE DEF b
<1>2. y = IF v = "Admitted" THEN Commit(b, o, 1) ELSE b
  BY DEF Admit, b
<1>3. b.delivered \in Nat
  BY <1>1, SaneFields
<1>4. CASE v = "Admitted"
  <2>1. o = b.delivered + 1
    BY <1>3, <1>4 DEF Verdict
  <2>2. Sane(y) /\ y.baselined /\ y.epoch = b.epoch /\ y.delivered = o
    BY <1>1, <1>2, <1>4, <2>1, CommitSane
  <2> QED BY <1>1, <2>2
<1>5. CASE v # "Admitted"
  BY <1>1, <1>2, <1>3, <1>5
<1> QED BY <1>4, <1>5

\* A confirm cuts off exactly the entries up to its offset.
LEMMA TrimmedCount ==
  ASSUME NEW x, Sane(x), NEW o \in Nat, x.confirmed < o, o <= x.delivered
  PROVE  Trimmed(x.inflight, o) = o - x.confirmed
<1> DEFINE P(k) == /\ \A i \in 1 .. k : x.inflight[i].offset <= o
                   /\ k < Len(x.inflight) => x.inflight[k + 1].offset > o
<1>1. /\ x.confirmed \in Nat /\ Len(x.inflight) \in Nat
      /\ x.delivered = x.confirmed + Len(x.inflight)
      /\ \A i \in 1 .. Len(x.inflight) : x.inflight[i].offset = x.confirmed + i
  BY SaneFields DEF Sane
<1>2. PICK n \in 0 .. Len(x.inflight) : n = o - x.confirmed
  BY <1>1
<1>3. P(n)
  <2>1. ASSUME NEW i \in 1 .. n PROVE x.inflight[i].offset <= o
    <3>1. i \in 1 .. Len(x.inflight)
      BY <1>1
    <3>2. x.inflight[i].offset = x.confirmed + i
      BY <1>1, <3>1
    <3> QED BY <1>1, <1>2, <3>2
  <2>2. ASSUME n < Len(x.inflight) PROVE x.inflight[n + 1].offset > o
    <3>1. n + 1 \in 1 .. Len(x.inflight)
      BY <1>1, <2>2
    <3>2. x.inflight[n + 1].offset = x.confirmed + (n + 1)
      BY <1>1, <3>1
    <3> QED BY <1>1, <1>2, <3>2
  <2> QED BY <2>1, <2>2
<1>4. ASSUME NEW k \in 0 .. Len(x.inflight), P(k) PROVE k = n
  <2>1. ~(k < n)
    <3> SUFFICES ASSUME k < n PROVE FALSE
      OBVIOUS
    <3>1. k + 1 \in 1 .. Len(x.inflight) /\ k < Len(x.inflight)
      BY <1>1, <1>2
    <3>2. x.inflight[k + 1].offset = x.confirmed + (k + 1)
      BY <1>1, <3>1
    <3> QED BY <1>1, <1>2, <1>4, <3>1, <3>2
  <2>2. ~(n < k)
    <3> SUFFICES ASSUME n < k PROVE FALSE
      OBVIOUS
    <3>1. n + 1 \in 1 .. k /\ n + 1 \in 1 .. Len(x.inflight)
      BY <1>1, <1>2
    <3>2. x.inflight[n + 1].offset = x.confirmed + (n + 1)
      BY <1>1, <3>1
    <3>3. x.inflight[n + 1].offset <= o
      BY <1>4, <3>1
    <3>4. x.confirmed \in Nat
      BY <1>1
    <3> QED BY <1>2, <3>2, <3>3, <3>4
  <2> QED BY <1>1, <1>2, <2>1, <2>2
<1> HIDE DEF P
<1>5. (CHOOSE k \in 0 .. Len(x.inflight) : P(k)) = n
  BY <1>3, <1>4
<1> QED BY <1>2, <1>5 DEF Trimmed, P

\* A confirm never moves the delivered cursor.
LEMMA ConfirmSane ==
  ASSUME NEW x, Sane(x), NEW o \in Nat
  PROVE LET y == Confirm(x, o)
        IN  Sane(y) /\ y.baselined = x.baselined /\ y.epoch = x.epoch /\ y.delivered = x.delivered
<1>1. /\ x.confirmed \in Nat /\ x.delivered \in Nat /\ x.inflight \in Seq(Entry)
      /\ Len(x.inflight) \in Nat /\ x.delivered = x.confirmed + Len(x.inflight)
      /\ \A i \in 1 .. Len(x.inflight) : x.inflight[i].offset = x.confirmed + i
  BY SaneFields DEF Sane
<1>2. PICK upTo \in Nat : upTo = (IF o > x.delivered THEN x.delivered ELSE o) /\ upTo <= x.delivered
  BY <1>1
<1>3. CASE upTo <= x.confirmed
  <2>1. Confirm(x, o) = x
    BY <1>2, <1>3 DEF Confirm
  <2> QED BY <2>1
<1>4. CASE x.confirmed < upTo
  <2>1. PICK n \in 1 .. Len(x.inflight) : n = upTo - x.confirmed
    BY <1>1, <1>2, <1>4
  <2>2. Trimmed(x.inflight, upTo) = n
    BY <1>2, <1>4, <2>1, TrimmedCount
  <2>3. PICK bytes : bytes = x.inflightBytes - Bytes(x.inflight, 1 .. n)
    OBVIOUS
  <2>4. PICK rest \in Seq(Entry) :
          /\ rest = SubSeq(x.inflight, n + 1, Len(x.inflight))
          /\ Len(rest) = Len(x.inflight) - n
          /\ \A i \in 1 .. Len(x.inflight) - n : rest[i] = x.inflight[n + i]
    <3>1. PICK s \in Seq(Entry), m \in Int, k \in Int :
            s = x.inflight /\ m = n + 1 /\ k = Len(x.inflight)
      BY <1>1
    <3>2. \A i \in m .. k : s[i] \in Entry
      BY <3>1
    <3>3. /\ SubSeq(s, m, k) \in Seq(Entry)
          /\ Len(SubSeq(s, m, k)) = IF m <= k THEN k - m + 1 ELSE 0
          /\ \A i \in 1 .. k - m + 1 : SubSeq(s, m, k)[i] = s[m + i - 1]
      BY <3>2, SubSeqProperties
    <3>4. n \in Nat /\ k \in Nat /\ n <= k
      BY <1>1, <3>1
    <3>5. /\ k - m + 1 = k - n /\ (IF m <= k THEN k - m + 1 ELSE 0) = k - n
          /\ \A i \in 1 .. k - n : m + i - 1 = n + i
      BY <3>1, <3>4
    <3>6. Len(SubSeq(s, m, k)) = k - n /\ \A i \in 1 .. k - n : SubSeq(s, m, k)[i] = s[n + i]
      BY <3>3, <3>5
    <3> QED BY <3>1, <3>3, <3>6
  <2> DEFINE y == [x EXCEPT !.confirmed = upTo, !.inflight = rest,
                            !.inflightBytes = bytes, !.aged = FALSE]
  <2>5. Confirm(x, o) = y
    <3>1. ~(upTo <= x.confirmed) /\ n > 0
      BY <1>1, <1>2, <1>4, <2>1
    <3> QED BY <1>2, <2>2, <2>3, <2>4, <3>1 DEF Confirm
  <2>6. x \in Windows(x.inflightBytes)
    BY DEF Sane
  <2>7. y \in Windows(bytes)
    BY <2>6 DEF Windows
  <2>8. /\ y.confirmed = upTo /\ y.inflight = rest /\ y.delivered = x.delivered
        /\ y.baselined = x.baselined /\ y.epoch = x.epoch
    BY <2>6 DEF Windows
  <2> HIDE DEF y
  <2>9. y.delivered = y.confirmed + Len(y.inflight)
    <3>1. x.confirmed \in Nat /\ Len(x.inflight) \in Nat /\ x.delivered = x.confirmed + Len(x.inflight)
      BY <1>1
    <3>2. Len(rest) = Len(x.inflight) - n /\ n = upTo - x.confirmed
      BY <2>1, <2>4
    <3>3. x.delivered = upTo + Len(rest)
      BY <3>1, <3>2
    <3> QED BY <2>8, <3>3
  <2>10. \A i \in 1 .. Len(rest) : rest[i].offset = upTo + i
    <3> SUFFICES ASSUME NEW i \in 1 .. Len(rest) PROVE rest[i].offset = upTo + i
      OBVIOUS
    <3>0. x.confirmed \in Nat /\ Len(x.inflight) \in Nat /\ Len(rest) = Len(x.inflight) - n
      BY <1>1, <2>4
    <3>1. i \in 1 .. Len(x.inflight) - n /\ n + i \in 1 .. Len(x.inflight)
      BY <3>0
    <3>2. x.inflight[n + i].offset = x.confirmed + (n + i)
      BY <1>1, <3>1
    <3>3. rest[i] = x.inflight[n + i]
      BY <2>4, <3>1
    <3>4. x.confirmed + (n + i) = upTo + i
      BY <2>1, <3>0, <3>1
    <3> QED BY <3>2, <3>3, <3>4
  <2>11. x.baselined
    <3>1. x.inflight # <<>>
      BY <1>1, <2>1
    <3> QED BY <3>1 DEF Sane
  <2>12. Sane(y)
    BY <2>7, <2>8, <2>9, <2>10, <2>11, MakeSane
  <2> QED BY <2>5, <2>8, <2>12
<1> QED BY <1>1, <1>2, <1>3, <1>4

\* A redelivery check may only rewind the delivered cursor.
LEMMA CheckSane ==
  ASSUME NEW x, Sane(x)
  PROVE LET y == CheckRedelivery(x)
        IN  Sane(y) /\ y.baselined = x.baselined /\ y.epoch = x.epoch /\ y.delivered <= x.delivered
<1>1. /\ x.confirmed \in Nat /\ x.delivered \in Nat /\ x.inflight \in Seq(Entry)
      /\ Len(x.inflight) \in Nat /\ x.delivered = x.confirmed + Len(x.inflight)
      /\ \A i \in 1 .. Len(x.inflight) : x.inflight[i].offset = x.confirmed + i
  BY SaneFields DEF Sane
<1>2. CASE ~RedeliveryDue(x)
  BY <1>1, <1>2 DEF CheckRedelivery
<1>3. CASE RedeliveryDue(x)
  <2>1. x.inflight # <<>>
    BY <1>3 DEF RedeliveryDue
  <2>2. Len(x.inflight) >= 1 /\ x.inflight[1].offset = x.confirmed + 1
    BY <1>1, <2>1
  <2>3. PICK floor \in Nat :
          floor = (IF Poisoned(x) # 0 THEN x.inflight[1].offset ELSE x.confirmed)
          /\ floor <= x.delivered
    BY <1>1, <2>2
  <2>4. HeadAttempts(x) \in Nat
    BY DEF HeadAttempts, Sane, Windows
  <2>5. PICK a \in Nat, ao \in Nat :
          /\ a = IF Poisoned(x) # 0 THEN 0 ELSE HeadAttempts(x) + 1
          /\ ao = IF Poisoned(x) # 0 THEN 0 ELSE x.inflight[1].offset
    BY <1>1, <2>2, <2>4
  <2> DEFINE y == [x EXCEPT !.attempts = a, !.attemptsOffset = ao, !.confirmed = floor,
                            !.delivered = floor, !.inflight = <<>>, !.inflightBytes = 0,
                            !.aged = FALSE]
  <2>6. CheckRedelivery(x) = y
    BY <1>3, <2>3, <2>5 DEF CheckRedelivery
  <2>7. x \in Windows(x.inflightBytes) /\ <<>> \in Seq(Entry)
    BY DEF Sane
  <2>8. y \in Windows(0)
    BY <2>7 DEF Windows
  <2>9. /\ y.confirmed = floor /\ y.delivered = floor /\ y.inflight = <<>>
        /\ y.baselined = x.baselined /\ y.epoch = x.epoch
    BY <2>7 DEF Windows
  <2> HIDE DEF y
  <2>10. Sane(y)
    BY <2>8, <2>9, EmptySane
  <2> QED BY <2>3, <2>6, <2>9, <2>10
<1> QED BY <1>2, <1>3

-----------------------------------------------------------------------------
\* What the invariant keeps when the history only grows.

\* Every offset reached stays reached.
Grown ==
  /\ newest <= newest'
  /\ \A e \in 1 .. newest : chans[e].last <= chans'[e].last

LEMMA ReachedKept ==
  ASSUME ChanTypes, ChanTypes', Grown, NEW e, NEW o, Reached(newest, chans, e, o)
  PROVE  Reached(newest', chans', e, o)
<1>1. newest \in Nat /\ newest' \in Nat /\ newest <= newest' /\ newest' <= MaxEpoch /\ MaxEpoch \in Nat
  BY DeliveryAssumption DEF ChanTypes, Grown
<1>2. e \in 1 .. newest /\ o \in 0 .. chans[e].last /\ e \in Epochs
  BY <1>1 DEF Reached, Epochs
<1>3. chans[e].last \in Nat /\ chans'[e].last \in Nat /\ chans[e].last <= chans'[e].last
  BY <1>2 DEF ChanTypes, Grown
<1>4. e \in 1 .. newest' /\ o \in 0 .. chans'[e].last
  BY <1>1, <1>2, <1>3
<1> QED BY <1>4 DEF Reached

\* Doing nothing to the history keeps it.
LEMMA SameHistory ==
  ASSUME ChanTypes, UNCHANGED engineVars
  PROVE  ChanTypes' /\ Grown
<1>1. newest \in Int /\ \A e \in 1 .. newest : chans[e].last \in Int
  BY DeliveryAssumption DEF ChanTypes, Epochs
<1> QED BY <1>1 DEF ChanTypes, Grown, engineVars

LEMMA GoodPubKept ==
  ASSUME ChanTypes, ChanTypes', Grown, NEW w \in Nat, NEW w2 \in Nat, w <= w2,
         NEW r \in PubRecs, GoodPub(r, newest, chans, w)
  PROVE  GoodPub(r, newest', chans', w2)
<1>1. newest \in Nat /\ newest' \in Nat /\ newest <= newest'
  BY DEF ChanTypes, Grown
<1>2. r.pc # "idle" => r.epoch \in 1 .. newest'
  BY <1>1 DEF GoodPub, PubRecs
<1>3. r.pc \in {"fan", "gate", "deliver"} => r.offset >= 1 /\ Reached(newest', chans', r.epoch, r.offset)
  BY ReachedKept DEF GoodPub
<1>4. r.win <= w2
  BY DEF GoodPub, PubRecs
<1> QED BY <1>2, <1>3, <1>4 DEF GoodPub

LEMMA GoodThreadKept ==
  ASSUME ChanTypes, ChanTypes', Grown, NEW w \in Nat, NEW w2 \in Nat, w <= w2,
         NEW r \in ThreadRecs, GoodThread(r, newest, chans, w)
  PROVE  GoodThread(r, newest', chans', w2)
<1>1. r.pc \in {"check", "point", "fetch", "reset", "admit"} => r.win >= 1 /\ r.win <= w2
  BY DEF GoodThread, ThreadRecs
<1>2. r.pc \in {"fetch", "replay"} => Reached(newest', chans', r.epoch, r.from)
  BY ReachedKept DEF GoodThread
<1>3. r.pc \in {"admit", "deliver"} =>
        \A k \in 1 .. Len(r.batch) :
          r.batch[k].offset >= 1 /\ Reached(newest', chans', r.batch[k].epoch, r.batch[k].offset)
  BY ReachedKept DEF GoodThread
<1> QED BY <1>1, <1>2, <1>3 DEF GoodThread

LEMMA FollowsKept ==
  ASSUME ChanTypes, ChanTypes', Grown, NEW x, Follows(x, newest, chans)
  PROVE  Follows(x, newest', chans')
  BY ReachedKept DEF Follows

\* The number of windows.
LEMMA WindowCount == ASSUME WindowTypes PROVE Len(wins) \in Nat
  BY DEF WindowTypes

\* The windows grow in number, each is the old one or follows the history.
Rewindowed ==
  /\ \E S : wins' \in Seq(S)
  /\ Len(wins) <= Len(wins')
  /\ \A i \in 1 .. Len(wins') :
       (i <= Len(wins) /\ wins'[i] = wins[i]) \/ Follows(wins'[i], newest', chans')

LEMMA SameWindows == ASSUME WindowTypes, wins' = wins PROVE Rewindowed
<1>1. Len(wins) \in Nat
  BY WindowCount
<1> QED BY <1>1 DEF WindowTypes, Rewindowed

LEMMA PubFrame ==
  ASSUME ChanTypes, ChanTypes', Grown, WindowTypes, Rewindowed, PubTypes,
         pub' \in [Pubs -> PubRecs],
         \A p \in Pubs : pub'[p] = pub[p] \/ GoodPub(pub'[p], newest', chans', Len(wins'))
  PROVE  PubTypes'
<1>1. PICK w \in Nat, w2 \in Nat : w = Len(wins) /\ w2 = Len(wins') /\ w <= w2
  BY WindowCount DEF Rewindowed
<1>2. SUFFICES ASSUME NEW p \in Pubs PROVE GoodPub(pub'[p], newest', chans', Len(wins'))
  BY DEF PubTypes
<1>3. CASE pub'[p] = pub[p]
  <2>1. PICK r \in PubRecs : r = pub[p]
    BY DEF PubTypes
  <2>2. GoodPub(r, newest, chans, w)
    BY <1>1, <2>1 DEF PubTypes
  <2>3. GoodPub(r, newest', chans', w2)
    BY <1>1, <2>2, GoodPubKept
  <2> QED BY <1>1, <1>3, <2>1, <2>3
<1> QED BY <1>3

LEMMA ThreadFrame ==
  ASSUME ChanTypes, ChanTypes', Grown, WindowTypes, Rewindowed, ThreadTypes,
         th' \in [Threads -> ThreadRecs],
         th'["dispatch"].pc \in DispatchStates, th'["tick"].pc \in TickStates,
         \/ th'["dispatch"] = th["dispatch"]
         \/ th'["dispatch"].pc # "subscribe"
         \/ ~Recovering
         \/ Reached(newest', chans', th'["dispatch"].epoch, th'["dispatch"].from),
         \A t \in Threads : th'[t] = th[t] \/ GoodThread(th'[t], newest', chans', Len(wins'))
  PROVE  ThreadTypes'
<1>1. PICK w \in Nat, w2 \in Nat : w = Len(wins) /\ w2 = Len(wins') /\ w <= w2
  BY WindowCount DEF Rewindowed
<1>2. ASSUME NEW t \in Threads PROVE GoodThread(th'[t], newest', chans', Len(wins'))
  <2>1. CASE th'[t] = th[t]
    <3>1. PICK r \in ThreadRecs : r = th[t]
      BY DEF ThreadTypes
    <3>2. GoodThread(r, newest, chans, w)
      BY <1>1, <3>1 DEF ThreadTypes
    <3>3. GoodThread(r, newest', chans', w2)
      BY <1>1, <3>2, GoodThreadKept
    <3> QED BY <1>1, <2>1, <3>1, <3>3
  <2> QED BY <2>1
<1>3. ASSUME th'["dispatch"].pc = "subscribe", Recovering
      PROVE  Reached(newest', chans', th'["dispatch"].epoch, th'["dispatch"].from)
  <2>1. CASE th'["dispatch"] = th["dispatch"]
    <3>1. PICK e, o : e = th["dispatch"].epoch /\ o = th["dispatch"].from
      OBVIOUS
    <3>2. Reached(newest, chans, e, o)
      BY <1>3, <2>1, <3>1 DEF ThreadTypes
    <3>3. Reached(newest', chans', e, o)
      BY <3>2, ReachedKept
    <3> QED BY <2>1, <3>1, <3>3
  <2> QED BY <1>3, <2>1
<1> QED BY <1>2, <1>3 DEF ThreadTypes

LEMMA WindowFrame ==
  ASSUME ChanTypes, ChanTypes', Grown, WindowTypes, Rewindowed, cur' \in 0 .. Len(wins')
  PROVE  WindowTypes'
<1>1. Len(wins) \in Nat /\ Len(wins') \in Nat
  BY WindowCount DEF Rewindowed
<1>2. ASSUME NEW i \in 1 .. Len(wins') PROVE Follows(wins'[i], newest', chans')
  <2>1. CASE i <= Len(wins) /\ wins'[i] = wins[i]
    <3>1. PICK x : x = wins[i]
      OBVIOUS
    <3>2. i \in 1 .. Len(wins)
      BY <1>1, <2>1
    <3>3. Follows(x, newest, chans)
      BY <3>1, <3>2 DEF WindowTypes
    <3> QED BY <2>1, <3>1, <3>3, FollowsKept
  <2> QED BY <2>1 DEF Rewindowed
<1> QED BY <1>2 DEF WindowTypes, Rewindowed

\* One window is replaced.
LEMMA OneWindow ==
  ASSUME WindowTypes, NEW i \in 1 .. Len(wins), NEW x, wins' = [wins EXCEPT ![i] = x],
         Follows(x, newest', chans')
  PROVE  Rewindowed /\ Len(wins') = Len(wins)
<1>1. PICK S : wins \in Seq(S)
  BY DEF WindowTypes
<1>2. wins' \in Seq(S \union {x}) /\ Len(wins') = Len(wins) /\ Len(wins) \in Nat
  <2>1. PICK s \in Seq(S \union {x}) : s = wins
    BY <1>1
  <2>2. i \in 1 .. Len(s) /\ x \in S \union {x}
    BY <2>1
  <2>3. [s EXCEPT ![i] = x] \in Seq(S \union {x}) /\ Len([s EXCEPT ![i] = x]) = Len(s)
    BY <2>2, ExceptSeq
  <2> QED BY <2>1, <2>3
<1>3. \A j \in 1 .. Len(wins) : wins'[j] = IF j = i THEN x ELSE wins[j]
  BY <1>1
<1> QED BY <1>2, <1>3 DEF Rewindowed

\* One publisher moves.
LEMMA OnePub ==
  ASSUME ChanTypes, ChanTypes', Grown, WindowTypes, Rewindowed, PubTypes,
         NEW p \in Pubs, NEW r \in PubRecs, pub' = [pub EXCEPT ![p] = r],
         GoodPub(r, newest', chans', Len(wins'))
  PROVE  PubTypes'
<1>1. pub' \in [Pubs -> PubRecs]
  BY DEF PubTypes
<1>2. \A q \in Pubs : pub'[q] = IF q = p THEN r ELSE pub[q]
  BY DEF PubTypes
<1> QED BY <1>1, <1>2, PubFrame

LEMMA SamePubs ==
  ASSUME ChanTypes, ChanTypes', Grown, WindowTypes, Rewindowed, PubTypes, pub' = pub
  PROVE  PubTypes'
<1>1. pub' \in [Pubs -> PubRecs] /\ \A q \in Pubs : pub'[q] = pub[q]
  BY DEF PubTypes
<1> QED BY <1>1, PubFrame

\* The states a thread may be in.
StatesOf(t) == IF t = "dispatch" THEN DispatchStates ELSE TickStates

\* One thread moves.
LEMMA OneThread ==
  ASSUME ChanTypes, ChanTypes', Grown, WindowTypes, Rewindowed, ThreadTypes,
         NEW t \in Threads, NEW r \in ThreadRecs, th' = [th EXCEPT ![t] = r],
         r.pc \in StatesOf(t),
         r.pc # "subscribe" \/ ~Recovering \/ Reached(newest', chans', r.epoch, r.from),
         GoodThread(r, newest', chans', Len(wins'))
  PROVE  ThreadTypes'
<1>1. th' \in [Threads -> ThreadRecs]
  BY DEF ThreadTypes
<1>2. \A q \in Threads : th'[q] = IF q = t THEN r ELSE th[q]
  BY DEF ThreadTypes
<1>3. "dispatch" \in Threads /\ "tick" \in Threads /\ (t = "dispatch" \/ t = "tick")
  BY DEF Threads
<1>4. th'["dispatch"].pc \in DispatchStates /\ th'["tick"].pc \in TickStates
  BY <1>2, <1>3 DEF ThreadTypes, StatesOf
<1>5. \A q \in Threads : th'[q] = th[q] \/ GoodThread(th'[q], newest', chans', Len(wins'))
  BY <1>2
<1>6. CASE t = "dispatch"
  <2>1. th'["dispatch"] = r
    BY <1>2, <1>3, <1>6
  <2> QED BY <1>1, <1>4, <1>5, <2>1, ThreadFrame
<1>7. CASE t = "tick"
  <2>1. th'["dispatch"] = th["dispatch"]
    BY <1>2, <1>3, <1>7
  <2> QED BY <1>1, <1>4, <1>5, <2>1, ThreadFrame
<1> QED BY <1>3, <1>6, <1>7

LEMMA SameThreads ==
  ASSUME ChanTypes, ChanTypes', Grown, WindowTypes, Rewindowed, ThreadTypes, th' = th
  PROVE  ThreadTypes'
<1>1. /\ th' \in [Threads -> ThreadRecs] /\ th'["dispatch"] = th["dispatch"]
      /\ th'["dispatch"].pc \in DispatchStates /\ th'["tick"].pc \in TickStates
      /\ \A t \in Threads : th'[t] = th[t]
  BY DEF ThreadTypes
<1> QED BY <1>1, ThreadFrame

\* A thread that is done holds nothing.
LEMMA IdleIsGood ==
  ASSUME NEW n, NEW c, NEW w
  PROVE  /\ IdleThread \in ThreadRecs /\ IdleThread.pc = "idle"
         /\ GoodThread(IdleThread, n, c, w)
<1>1. <<>> \in Seq(Items)
  OBVIOUS
<1> QED BY <1>1 DEF IdleThread, ThreadRecs, GoodThread, ThreadStates

LEMMA IdlePubIsGood ==
  ASSUME NEW n, NEW c, NEW w \in Nat
  PROVE  IdlePub \in PubRecs /\ GoodPub(IdlePub, n, c, w)
  BY DEF IdlePub, PubRecs, GoodPub, PubStates

\* Admission through a window keeps it behind the history and what is queued
\* well typed, whatever the verdict.
LEMMA Admission ==
  ASSUME ChanTypes, WindowTypes, ClientTypes, UNCHANGED <<newest, chans>>,
         NEW i \in 1 .. Len(wins), NEW d \in Items, d.offset >= 1,
         Reached(newest, chans, d.epoch, d.offset), AdmitThrough(i, d)
  PROVE  Rewindowed /\ Len(wins') = Len(wins) /\ queue' \in Seq(Items)
<1>1. PICK o \in Nat \ {0}, e \in Nat : o = d.offset /\ e = d.epoch
  BY DEF Items
<1>2. PICK x : x = wins[i] /\ Follows(x, newest, chans)
  BY DEF WindowTypes
<1>3. PICK a : a = Accepts
  OBVIOUS
<1>4. PICK y : y = Admit(x, o, e, 1, a).window
  OBVIOUS
<1>5. /\ Sane(y) /\ y.baselined
      /\ \/ y.epoch = e /\ y.delivered <= o
         \/ x.baselined /\ y.epoch = x.epoch /\ y.delivered = x.delivered
  BY <1>2, <1>4, AdmitSane DEF Follows
<1>6. Follows(y, newest, chans)
  <2>1. y.delivered \in Nat
    BY <1>5, SaneFields
  <2>2. CASE y.epoch = e /\ y.delivered <= o
    <3>1. e \in 1 .. newest /\ o \in 0 .. chans[e].last
      BY <1>1 DEF Reached
    <3>2. chans[e].last \in Nat
      BY <3>1, DeliveryAssumption DEF ChanTypes, Epochs
    <3>3. y.epoch \in 1 .. newest /\ y.delivered \in 0 .. chans[y.epoch].last
      BY <2>1, <2>2, <3>1, <3>2
    <3> QED BY <1>5, <3>3 DEF Follows, Reached
  <2>3. CASE x.baselined /\ y.epoch = x.epoch /\ y.delivered = x.delivered
    <3>1. Reached(newest, chans, x.epoch, x.delivered)
      BY <1>2, <2>3 DEF Follows
    <3> QED BY <1>5, <2>3, <3>1 DEF Follows
  <2> QED BY <1>5, <2>2, <2>3
<1>7. wins' = [wins EXCEPT ![i] = y]
  BY <1>1, <1>2, <1>3, <1>4 DEF AdmitThrough
<1>8. Rewindowed /\ Len(wins') = Len(wins)
  BY <1>6, <1>7, OneWindow
<1>9. queue' \in Seq(Items)
  <2>1. queue' = queue \/ queue' = Append(queue, d)
    BY DEF AdmitThrough, Enqueue
  <2>2. CASE queue' = queue
    BY <2>2 DEF ClientTypes
  <2>3. CASE queue' = Append(queue, d)
    BY <2>3 DEF ClientTypes
  <2> QED BY <2>1, <2>2, <2>3
<1> QED BY <1>8, <1>9

\* The states between the requests of a session, the pump of a confirm included.
Between == {"idle", "point", "fetch", "reset", "admit"}

LEMMA SameSession ==
  ASSUME Session, UNCHANGED <<live, cur, swept, sweeper, fenced>>,
         \A e \in Epochs : chans'[e].sub = chans[e].sub,
         live \in Epochs \union {0},
         \/ th'["dispatch"].pc = th["dispatch"].pc /\ th'["dispatch"].win = th["dispatch"].win
         \/ th["dispatch"].pc \in Between /\ th'["dispatch"].pc \in Between,
         th'["tick"].pc = th["tick"].pc \/ th["dispatch"].pc # "ended" \/ th'["tick"].pc \in {"idle", "called"}
  PROVE  Session'
<1>1. Guarded'
  BY DEF Session, Guarded
<1>2. Unsubscribed' <=> Unsubscribed
  BY DEF Unsubscribed
<1>3. Subscribed' <=> Subscribed
  BY DEF Subscribed
<1>4. Request'
  BY <1>2, <1>3 DEF Session, Request, Between
<1>5. Fence'
  BY DEF Session, Fence, Between
<1> QED BY <1>1, <1>4, <1>5 DEF Session

LEMMA LiveRange == ASSUME ChanTypes PROVE live \in Epochs \union {0}
  BY DeliveryAssumption DEF ChanTypes, Epochs

\* Nothing of the session moves with a publisher.
LEMMA PublisherFrame ==
  ASSUME IInv, UNCHANGED <<lifeVars, engineVars, cur, th, seen, ack, lost>>,
         PubTypes', Rewindowed, queue' \in Seq(Items)
  PROVE  IInv'
<1>1. ChanTypes' /\ Grown
  BY SameHistory DEF IInv, Types
<1>2. ThreadTypes'
  BY <1>1, SameThreads DEF IInv, Types
<1>3. WindowTypes'
  <2>1. Len(wins) \in Nat /\ Len(wins') \in Nat /\ Len(wins) <= Len(wins')
    BY WindowCount DEF IInv, Types, Rewindowed
  <2>2. cur' \in 0 .. Len(wins')
    BY <2>1 DEF IInv, Types, WindowTypes
  <2> QED BY <1>1, <2>2, WindowFrame DEF IInv, Types
<1>4. ClientTypes' /\ LifeTypes'
  BY DEF IInv, Types, ClientTypes, LifeTypes, lifeVars
<1>5. Session'
  BY LiveRange, SameSession DEF IInv, Types, lifeVars, engineVars
<1>6. lost' \in BOOLEAN
  BY DEF IInv
<1> QED BY <1>1, <1>2, <1>3, <1>4, <1>5, <1>6 DEF IInv, Types

-----------------------------------------------------------------------------
\* Publishers.

LEMMA PubAcquireKeeps ==
  ASSUME IInv, NEW p \in Pubs, PubAcquire(p) PROVE IInv'
<1>1. ChanTypes' /\ Grown /\ Rewindowed
  BY SameHistory, SameWindows DEF IInv, Types, PubAcquire
<1>2. PICK r : r = [IdlePub EXCEPT !.pc = "append", !.epoch = live]
  OBVIOUS
<1>3. r \in PubRecs /\ GoodPub(r, newest', chans', Len(wins'))
  <2>1. live \in 1 .. newest /\ Len(wins) \in Nat /\ live \in Nat
    BY WindowCount DEF IInv, Types, ChanTypes, PubAcquire
  <2>2. r = [pc |-> "append", epoch |-> live, offset |-> 0, win |-> 0]
    BY <1>2 DEF IdlePub
  <2> QED BY <2>1, <2>2 DEF PubRecs, GoodPub, PubStates, PubAcquire, engineVars
<1>4. PubTypes'
  BY <1>1, <1>2, <1>3, OnePub DEF IInv, Types, PubAcquire
<1>5. queue' \in Seq(Items)
  BY DEF IInv, Types, ClientTypes, PubAcquire
<1> QED BY <1>1, <1>4, <1>5, PublisherFrame DEF PubAcquire, ghostVars

LEMMA PubFanKeeps ==
  ASSUME IInv, NEW p \in Pubs, PubFan(p) PROVE IInv'
<1>1. ChanTypes' /\ Grown /\ Rewindowed
  BY SameHistory, SameWindows DEF IInv, Types, PubFan
<1>2. PICK r : /\ pub' = [pub EXCEPT ![p] = r]
               /\ r = IdlePub \/ r = [pub[p] EXCEPT !.pc = "gate"]
  BY DEF PubFan
<1>3. r \in PubRecs /\ GoodPub(r, newest', chans', Len(wins'))
  <2>1. CASE r = IdlePub
    BY <2>1, WindowCount, IdlePubIsGood DEF PubFan, IInv, Types
  <2>2. CASE r = [pub[p] EXCEPT !.pc = "gate"]
    <3>1. PICK s \in PubRecs : s = pub[p] /\ GoodPub(s, newest, chans, Len(wins)) /\ s.pc = "fan"
      BY DEF IInv, Types, PubTypes, PubFan
    <3>2. /\ r \in PubRecs /\ r.pc = "gate" /\ r.epoch = s.epoch
          /\ r.offset = s.offset /\ r.win = s.win
      BY <2>2, <3>1 DEF PubRecs, PubStates
    <3> QED BY <3>1, <3>2 DEF GoodPub, PubFan, engineVars
  <2> QED BY <1>2, <2>1, <2>2
<1>4. PubTypes'
  BY <1>1, <1>2, <1>3, OnePub DEF IInv, Types
<1>5. queue' \in Seq(Items)
  BY DEF IInv, Types, ClientTypes, PubFan
<1> QED BY <1>1, <1>4, <1>5, PublisherFrame DEF PubFan

LEMMA PubGateKeeps ==
  ASSUME IInv, NEW p \in Pubs, PubGate(p) PROVE IInv'
<1>1. ChanTypes' /\ Grown /\ Rewindowed
  BY SameHistory, SameWindows DEF IInv, Types, PubGate
<1>2. PICK s \in PubRecs : s = pub[p] /\ GoodPub(s, newest, chans, Len(wins)) /\ s.pc = "gate"
  BY DEF IInv, Types, PubTypes, PubGate
<1>3. PICK r : r = [s EXCEPT !.pc = "deliver", !.win = cur]
  OBVIOUS
<1>4. pub' = [pub EXCEPT ![p] = r]
  BY <1>2, <1>3 DEF PubGate
<1>5. r \in PubRecs /\ GoodPub(r, newest', chans', Len(wins'))
  <2>1. cur \in Nat /\ cur <= Len(wins)
    BY WindowCount DEF IInv, Types, WindowTypes
  <2>2. /\ r \in PubRecs /\ r.pc = "deliver" /\ r.epoch = s.epoch
        /\ r.offset = s.offset /\ r.win = cur
    BY <1>3, <2>1 DEF PubRecs, PubStates
  <2> QED BY <1>2, <2>1, <2>2 DEF GoodPub, PubGate, engineVars
<1>6. PubTypes'
  BY <1>1, <1>4, <1>5, OnePub DEF IInv, Types
<1>7. queue' \in Seq(Items)
  BY DEF IInv, Types, ClientTypes, PubGate
<1> QED BY <1>1, <1>6, <1>7, PublisherFrame DEF PubGate, ghostVars

LEMMA PubDeliverKeeps ==
  ASSUME IInv, NEW p \in Pubs, PubDeliver(p) PROVE IInv'
<1>1. ChanTypes' /\ Grown
  BY SameHistory DEF IInv, Types, PubDeliver
<1>2. PICK s \in PubRecs : s = pub[p] /\ GoodPub(s, newest, chans, Len(wins)) /\ s.pc = "deliver"
  BY DEF IInv, Types, PubTypes, PubDeliver
<1>3. PICK d \in Items : d = [epoch |-> s.epoch, offset |-> s.offset]
  BY DEF PubRecs, Items
<1>4. d.offset >= 1 /\ Reached(newest, chans, d.epoch, d.offset)
  BY <1>2, <1>3 DEF GoodPub
<1>5. Rewindowed /\ Len(wins') = Len(wins) /\ queue' \in Seq(Items)
  <2>1. CASE s.win = 0
    <3>1. wins' = wins /\ (queue' = queue \/ queue' = Append(queue, d))
      BY <1>2, <1>3, <2>1 DEF PubDeliver, Enqueue
    <3>2. queue' \in Seq(Items)
      BY <3>1 DEF IInv, Types, ClientTypes
    <3> QED BY <3>1, <3>2, SameWindows DEF IInv, Types
  <2>2. CASE s.win # 0
    <3>1. PICK i \in 1 .. Len(wins) : i = s.win
      BY <1>2, <2>2, WindowCount DEF GoodPub, PubRecs, IInv, Types
    <3>2. AdmitThrough(i, d)
      BY <1>2, <1>3, <2>2, <3>1 DEF PubDeliver
    <3> QED BY <1>4, <3>2, Admission DEF IInv, Types, PubDeliver, engineVars
  <2> QED BY <2>1, <2>2
<1>6. IdlePub \in PubRecs /\ GoodPub(IdlePub, newest', chans', Len(wins'))
  BY <1>5, WindowCount, IdlePubIsGood DEF IInv, Types
<1>7. PubTypes'
  BY <1>1, <1>5, <1>6, OnePub DEF IInv, Types, PubDeliver
<1> QED BY <1>5, <1>7, PublisherFrame DEF PubDeliver

LEMMA PubAppendKeeps ==
  ASSUME IInv, NEW p \in Pubs, PubAppend(p) PROVE IInv'
<1>1. PICK s \in PubRecs : s = pub[p] /\ GoodPub(s, newest, chans, Len(wins)) /\ s.pc = "append"
  BY DEF IInv, Types, PubTypes, PubAppend
<1>2. PICK e \in Epochs : e = s.epoch /\ e \in 1 .. newest
  BY <1>1, DeliveryAssumption DEF GoodPub, Epochs, IInv, Types, ChanTypes
<1>3. PICK c \in [last : Nat, count : Nat, sub : BOOLEAN] : c = chans[e]
  BY DEF IInv, Types, ChanTypes
<1>4. PICK o \in Nat : o = c.last + 1
  BY <1>3
<1>5. PICK k \in Nat : k = SmallerOf(c.count + 1, HistCap) /\ k <= c.count + 1
  BY <1>3, DeliveryAssumption DEF SmallerOf
<1>6. chans' = [chans EXCEPT ![e].last = o, ![e].count = k]
  BY <1>1, <1>2, <1>3, <1>4, <1>5 DEF PubAppend
<1>7. chans' = [chans EXCEPT ![e] = [last |-> o, count |-> k, sub |-> c.sub]]
  <2>1. PICK m \in [Epochs -> [last : Nat, count : Nat, sub : BOOLEAN]] :
          m = [chans EXCEPT ![e] = [last |-> o, count |-> c.count, sub |-> c.sub]]
    BY <1>3 DEF IInv, Types, ChanTypes
  <2>2. [chans EXCEPT ![e].last = o] = m
    <3>1. [c EXCEPT !.last = o] = [last |-> o, count |-> c.count, sub |-> c.sub]
      OBVIOUS
    <3> QED BY <1>3, <2>1, <3>1
  <2>3. chans' = [m EXCEPT ![e].count = k]
    BY <1>6, <2>2
  <2>4. m[e] = [last |-> o, count |-> c.count, sub |-> c.sub]
    BY <2>1 DEF IInv, Types, ChanTypes
  <2>5. [m[e] EXCEPT !.count = k] = [last |-> o, count |-> k, sub |-> c.sub]
    BY <2>4
  <2>6. chans' = [m EXCEPT ![e] = [last |-> o, count |-> k, sub |-> c.sub]]
    BY <2>3, <2>5
  <2> QED BY <2>1, <2>6 DEF IInv, Types, ChanTypes
<1>8. /\ chans' \in [Epochs -> [last : Nat, count : Nat, sub : BOOLEAN]]
      /\ chans'[e] = [last |-> o, count |-> k, sub |-> c.sub]
      /\ \A f \in Epochs : f # e => chans'[f] = chans[f]
  BY <1>7 DEF IInv, Types, ChanTypes
<1>9. newest \in Nat /\ \A f \in 1 .. newest : f \in Epochs /\ chans[f].last \in Nat
  BY DeliveryAssumption DEF IInv, Types, ChanTypes, Epochs
<1>10. ChanTypes' /\ Grown
  <2>1. ChanTypes'
    BY <1>8 DEF IInv, Types, ChanTypes, PubAppend
  <2>2. \A f \in 1 .. newest : chans[f].last <= chans'[f].last
    BY <1>3, <1>4, <1>8, <1>9
  <2>3. newest' = newest
    BY DEF PubAppend
  <2> QED BY <1>9, <2>1, <2>2, <2>3 DEF Grown
<1>11. Rewindowed
  BY SameWindows DEF IInv, Types, PubAppend
<1>12. PICK r : r = [s EXCEPT !.pc = "fan", !.offset = o]
  OBVIOUS
<1>13. pub' = [pub EXCEPT ![p] = r]
  BY <1>1, <1>2, <1>3, <1>4, <1>12 DEF PubAppend
<1>14. r \in PubRecs /\ GoodPub(r, newest', chans', Len(wins'))
  <2>1. r \in PubRecs /\ r.pc = "fan" /\ r.epoch = e /\ r.offset = o /\ r.win = s.win
    BY <1>2, <1>12 DEF PubRecs, PubStates
  <2>2. o >= 1 /\ o \in 0 .. chans'[e].last
    BY <1>3, <1>4, <1>8
  <2> QED BY <1>1, <1>2, <2>1, <2>2 DEF GoodPub, Reached, PubAppend
<1>15. PubTypes'
  BY <1>10, <1>11, <1>13, <1>14, OnePub DEF IInv, Types
<1>16. ThreadTypes' /\ WindowTypes'
  <2>1. ThreadTypes'
    BY <1>10, <1>11, SameThreads DEF IInv, Types, PubAppend
  <2>2. cur' \in 0 .. Len(wins')
    BY DEF IInv, Types, WindowTypes, PubAppend
  <2> QED BY <1>10, <1>11, <2>1, <2>2, WindowFrame DEF IInv, Types
<1>17. ClientTypes' /\ LifeTypes'
  BY DEF IInv, Types, ClientTypes, LifeTypes, PubAppend, lifeVars
<1>18. Session'
  <2>1. \A f \in Epochs : chans'[f].sub = chans[f].sub
    BY <1>3, <1>8
  <2> QED BY <2>1, LiveRange, SameSession DEF IInv, Types, PubAppend, lifeVars
<1>19. lost' \in BOOLEAN
  BY DEF IInv, PubAppend, ghostVars
<1> QED BY <1>10, <1>15, <1>16, <1>17, <1>18, <1>19 DEF IInv, Types

-----------------------------------------------------------------------------
\* History, time, the client and the sweeper's loop.

LEMMA TypesFrame ==
  ASSUME IInv, ChanTypes', Grown, Rewindowed, cur' \in 0 .. Len(wins'), pub' = pub,
         ThreadTypes', ClientTypes', LifeTypes'
  PROVE  Types'
<1>1. PubTypes'
  BY SamePubs DEF IInv, Types
<1>2. WindowTypes'
  BY WindowFrame DEF IInv, Types
<1> QED BY <1>1, <1>2 DEF Types

\* Only history moves.
LEMMA HistoryFrame ==
  ASSUME IInv, ChanTypes', Grown,
         UNCHANGED <<lifeVars, pub, wins, cur, th, queue, seen, ack>>
  PROVE  Types'
<1>1. Rewindowed
  BY SameWindows DEF IInv, Types
<1>2. ThreadTypes'
  BY <1>1, SameThreads DEF IInv, Types
<1>3. cur' \in 0 .. Len(wins') /\ ClientTypes' /\ LifeTypes'
  BY DEF IInv, Types, WindowTypes, ClientTypes, LifeTypes, lifeVars
<1> QED BY <1>1, <1>2, <1>3, TypesFrame

LEMMA ExpireKeeps == ASSUME IInv, Expire PROVE IInv'
<1>1. PICK e \in Epochs : e = live
  BY LiveRange DEF IInv, Types, Expire
<1>2. PICK c \in [last : Nat, count : Nat, sub : BOOLEAN] : c = chans[e]
  BY DEF IInv, Types, ChanTypes
<1>3. PICK n \in Nat : n < c.count /\ chans' = [chans EXCEPT ![e].count = n]
  <2>1. PICK n \in 0 .. (chans[live].count - 1) : chans' = [chans EXCEPT ![live].count = n]
    BY DEF Expire
  <2>2. c.count \in Nat /\ n \in 0 .. (c.count - 1)
    BY <1>1, <1>2, <2>1
  <2>3. n \in Nat /\ n < c.count
    BY <2>2
  <2> QED BY <1>1, <2>1, <2>3
<1>4. chans' = [chans EXCEPT ![e] = [last |-> c.last, count |-> n, sub |-> c.sub]]
  <2>1. [c EXCEPT !.count = n] = [last |-> c.last, count |-> n, sub |-> c.sub]
    OBVIOUS
  <2> QED BY <1>2, <1>3, <2>1
<1>5. /\ chans' \in [Epochs -> [last : Nat, count : Nat, sub : BOOLEAN]]
      /\ chans'[e] = [last |-> c.last, count |-> n, sub |-> c.sub]
      /\ \A f \in Epochs : f # e => chans'[f] = chans[f]
  BY <1>4 DEF IInv, Types, ChanTypes
<1>6. newest \in Nat /\ \A f \in 1 .. newest : f \in Epochs /\ chans[f].last \in Nat
  BY DeliveryAssumption DEF IInv, Types, ChanTypes, Epochs
<1>7. newest' = newest /\ live' = live
  BY DEF Expire
<1>8. ChanTypes' /\ Grown
  <2>1. ChanTypes'
    BY <1>5, <1>7 DEF IInv, Types, ChanTypes
  <2>2. \A f \in 1 .. newest : chans[f].last <= chans'[f].last
    BY <1>2, <1>5, <1>6
  <2> QED BY <1>6, <1>7, <2>1, <2>2 DEF Grown
<1>9. Types'
  BY <1>8, HistoryFrame DEF Expire
<1>10. Session'
  <2>1. \A f \in Epochs : chans'[f].sub = chans[f].sub
    BY <1>2, <1>5
  <2> QED BY <2>1, LiveRange, SameSession DEF IInv, Types, Expire, lifeVars
<1>11. lost' \in BOOLEAN
  BY DEF IInv, Expire, ghostVars
<1> QED BY <1>9, <1>10, <1>11 DEF IInv

LEMMA ReapKeeps == ASSUME IInv, Reap PROVE IInv'
<1>1. newest \in Nat /\ \A f \in 1 .. newest : f \in Epochs /\ chans[f].last \in Nat
  BY DeliveryAssumption DEF IInv, Types, ChanTypes, Epochs
<1>2. newest' = newest /\ chans' = chans /\ live' = 0
  BY DEF Reap
<1>3. ChanTypes' /\ Grown
  <2>1. ChanTypes'
    BY <1>1, <1>2 DEF IInv, Types, ChanTypes, Reap
  <2> QED BY <1>1, <1>2, <2>1 DEF Grown
<1>4. Types'
  BY <1>2, <1>3, HistoryFrame DEF Reap
<1>5. Unsubscribed
  BY DEF IInv, Session, Guarded, Unsubscribed, Reap
<1>6. Session'
  <2>1. Guarded' /\ Unsubscribed'
    BY <1>2, <1>5 DEF Guarded, Unsubscribed
  <2>2. ~Subscribed
    BY <1>5, LiveRange DEF Subscribed, Unsubscribed, IInv, Types
  <2>3. Request'
    BY <1>5, <2>1, <2>2 DEF IInv, Session, Request, Reap
  <2>4. Fence'
    BY DEF IInv, Session, Fence, Reap, lifeVars
  <2> QED BY <2>1, <2>3, <2>4 DEF Session
<1>7. lost' \in BOOLEAN
  BY DEF IInv, Reap, ghostVars
<1> QED BY <1>4, <1>6, <1>7 DEF IInv

LEMMA AgeKeeps == ASSUME IInv, Age PROVE IInv'
<1>1. ChanTypes' /\ Grown
  BY SameHistory DEF IInv, Types, Age
<1>2. PICK i \in 1 .. Len(wins) : i = cur
  BY WindowCount DEF IInv, Types, WindowTypes, Age
<1>3. PICK x : x = wins[i] /\ Follows(x, newest, chans)
  BY DEF IInv, Types, WindowTypes
<1>4. PICK y : y = Aged(x)
  OBVIOUS
<1>5. Follows(y, newest', chans')
  <2>1. /\ Sane(y) /\ y.baselined = x.baselined /\ y.epoch = x.epoch
        /\ y.delivered = x.delivered
    BY <1>3, <1>4, AgedSane DEF Follows
  <2> QED BY <1>3, <2>1 DEF Follows, Age, engineVars
<1>6. wins' = [wins EXCEPT ![i] = y]
  BY <1>2, <1>3, <1>4 DEF Age
<1>7. Rewindowed /\ Len(wins') = Len(wins)
  BY <1>5, <1>6, OneWindow DEF IInv, Types
<1>8. ThreadTypes'
  BY <1>1, <1>7, SameThreads DEF IInv, Types, Age
<1>9. cur' \in 0 .. Len(wins')
  BY <1>7 DEF IInv, Types, WindowTypes, Age
<1>10. ClientTypes' /\ LifeTypes'
  BY DEF IInv, Types, ClientTypes, LifeTypes, Age, lifeVars
<1>11. Types'
  BY <1>1, <1>7, <1>8, <1>9, <1>10, TypesFrame DEF Age
<1>12. Session'
  BY LiveRange, SameSession DEF IInv, Types, Age, lifeVars, engineVars
<1>13. lost' \in BOOLEAN
  BY DEF IInv, Age, ghostVars
<1> QED BY <1>11, <1>12, <1>13 DEF IInv

LEMMA ClientKeeps == ASSUME IInv, ClientRecv \/ ClientConfirm PROVE IInv'
<1>1. UNCHANGED <<lifeVars, engineVars, pub, wins, cur, th, lost>>
  BY DEF ClientRecv, ClientConfirm, ghostVars
<1>2. ChanTypes' /\ Grown /\ Rewindowed
  BY <1>1, SameHistory, SameWindows DEF IInv, Types
<1>3. ThreadTypes'
  BY <1>1, <1>2, SameThreads DEF IInv, Types
<1>4. cur' \in 0 .. Len(wins') /\ LifeTypes'
  BY <1>1 DEF IInv, Types, WindowTypes, LifeTypes, lifeVars
<1>5. ClientTypes'
  <2>1. CASE ClientRecv
    <3>1. Head(queue) \in Items /\ Tail(queue) \in Seq(Items)
      BY <2>1 DEF IInv, Types, ClientTypes, ClientRecv
    <3> QED BY <2>1, <3>1 DEF IInv, Types, ClientTypes, ClientRecv
  <2>2. CASE ClientConfirm
    <3>1. \A d \in Items : d.offset \in Nat
      BY DEF Items
    <3> QED BY <2>2, <3>1 DEF IInv, Types, ClientTypes, ClientConfirm
  <2> QED BY <2>1, <2>2
<1>6. Types'
  BY <1>1, <1>2, <1>3, <1>4, <1>5, TypesFrame
<1>7. Session'
  BY <1>1, LiveRange, SameSession DEF IInv, Types, lifeVars, engineVars
<1>8. lost' \in BOOLEAN
  BY <1>1 DEF IInv
<1> QED BY <1>6, <1>7, <1>8 DEF IInv

\* The server's sweeper stops: its loop goes on until the round is over.
LEMMA SweeperKeeps == ASSUME IInv, SweeperStop \/ SweeperExit PROVE IInv'
<1>1. UNCHANGED <<engineVars, pub, wins, cur, th, queue, seen, ack, lost, swept, fenced>>
  BY DEF SweeperStop, SweeperExit, ghostVars
<1>2. ChanTypes' /\ Grown /\ Rewindowed
  BY <1>1, SameHistory, SameWindows DEF IInv, Types
<1>3. ThreadTypes'
  BY <1>1, <1>2, SameThreads DEF IInv, Types
<1>4. cur' \in 0 .. Len(wins') /\ ClientTypes'
  BY <1>1 DEF IInv, Types, WindowTypes, ClientTypes
<1>5. PICK s \in [loop : {"off", "on", "gone"}, stopped : BOOLEAN] : s = sweeper
  BY DEF IInv, Types, LifeTypes
<1>6. \/ sweeper' = [s EXCEPT !.stopped = TRUE]
      \/ s.loop = "on" /\ s.stopped /\ sweeper' = [s EXCEPT !.loop = "gone"]
  BY <1>5 DEF SweeperStop, SweeperExit
<1>7. /\ sweeper' \in [loop : {"off", "on", "gone"}, stopped : BOOLEAN]
      /\ sweeper.loop # "off" => sweeper'.loop # "off"
      /\ sweeper'.stopped
  <2>1. CASE sweeper' = [s EXCEPT !.stopped = TRUE]
    BY <1>5, <2>1
  <2>2. CASE s.loop = "on" /\ s.stopped /\ sweeper' = [s EXCEPT !.loop = "gone"]
    BY <1>5, <2>2
  <2> QED BY <1>6, <2>1, <2>2
<1>8. LifeTypes'
  BY <1>1, <1>7 DEF IInv, Types, LifeTypes
<1>9. Types'
  BY <1>1, <1>2, <1>3, <1>4, <1>8, TypesFrame
<1>10. Session'
  <2>1. Guarded' /\ (Unsubscribed' <=> Unsubscribed) /\ (Subscribed' <=> Subscribed)
    BY <1>1 DEF IInv, Session, Guarded, Unsubscribed, Subscribed, engineVars
  <2>2. Request'
    BY <1>1, <2>1 DEF IInv, Session, Request
  <2>3. Fence'
    BY <1>1, <1>7 DEF IInv, Session, Fence
  <2> QED BY <2>1, <2>2, <2>3 DEF Session
<1>11. lost' \in BOOLEAN
  BY <1>1 DEF IInv
<1> QED BY <1>9, <1>10, <1>11 DEF IInv

-----------------------------------------------------------------------------
\* Confirms, ticks and pumps.

\* A thread moves that is not inside a subscribe or an unsubscribe.
LEMMA WorkFrame ==
  ASSUME IInv, NEW t \in Threads, NEW r \in ThreadRecs, th' = [th EXCEPT ![t] = r],
         r.pc \in StatesOf(t), GoodThread(r, newest', chans', Len(wins')),
         t = "dispatch" => th[t].pc \in Between /\ r.pc \in Between,
         t = "tick" => th["dispatch"].pc # "ended" \/ r.pc \in {"idle", "called"},
         UNCHANGED <<lifeVars, engineVars, pub, cur, seen>>, ack' \in Nat, queue' \in Seq(Items),
         Rewindowed, Len(wins') = Len(wins),
         lost' = lost \/ lost' \in BOOLEAN
  PROVE  IInv'
<1>1. ChanTypes' /\ Grown
  BY SameHistory DEF IInv, Types
<1>2. "dispatch" \in Threads /\ "tick" \in Threads /\ (t = "dispatch" \/ t = "tick")
  BY DEF Threads
<1>3. r.pc # "subscribe"
  BY <1>2 DEF StatesOf, TickStates, Between
<1>4. ThreadTypes'
  BY <1>1, <1>3, OneThread DEF IInv, Types
<1>5. cur' \in 0 .. Len(wins') /\ ClientTypes' /\ LifeTypes'
  BY DEF IInv, Types, WindowTypes, ClientTypes, LifeTypes, lifeVars
<1>6. Types'
  BY <1>1, <1>4, <1>5, TypesFrame
<1>7. \A q \in Threads : th'[q] = IF q = t THEN r ELSE th[q]
  BY DEF IInv, Types, ThreadTypes
<1>8. Session'
  <2>1. \A e \in Epochs : chans'[e].sub = chans[e].sub
    BY DEF engineVars
  <2>2. UNCHANGED <<live, cur, swept, sweeper, fenced>>
    BY DEF engineVars, lifeVars
  <2>3. CASE t = "dispatch"
    <3>1. th["dispatch"].pc \in Between /\ th'["dispatch"].pc \in Between /\ th'["tick"] = th["tick"]
      BY <1>2, <1>7, <2>3
    <3> QED BY <2>1, <2>2, <3>1, LiveRange, SameSession DEF IInv, Types
  <2>4. CASE t = "tick"
    <3>1. /\ th'["dispatch"] = th["dispatch"]
          /\ th["dispatch"].pc # "ended" \/ th'["tick"].pc \in {"idle", "called"}
      BY <1>2, <1>7, <2>4
    <3> QED BY <2>1, <2>2, <3>1, LiveRange, SameSession DEF IInv, Types
  <2> QED BY <1>2, <2>3, <2>4
<1>9. lost' \in BOOLEAN
  BY DEF IInv
<1> QED BY <1>6, <1>8, <1>9 DEF IInv

LEMMA AtWork ==
  ASSUME IInv, NEW t \in Threads, th[t].pc \in {"check", "point", "fetch", "reset", "admit"}
  PROVE  /\ th[t] \in ThreadRecs /\ GoodThread(th[t], newest, chans, Len(wins))
         /\ th[t].win \in 1 .. Len(wins)
         /\ t = "dispatch" => th[t].pc \in Between
         /\ t = "tick" => th["dispatch"].pc # "ended"
         /\ \A s \in Between : s \in StatesOf(t)
<1>1. th[t] \in ThreadRecs /\ GoodThread(th[t], newest, chans, Len(wins))
  BY DEF IInv, Types, ThreadTypes
<1>2. th[t].win \in 1 .. Len(wins)
  BY <1>1, WindowCount DEF GoodThread, ThreadRecs, IInv, Types
<1>3. t = "dispatch" => th[t].pc \in Between
  BY DEF IInv, Types, ThreadTypes, DispatchStates, Between
<1>4. t = "tick" => th["dispatch"].pc # "ended"
  BY DEF IInv, Session, Fence
<1>5. \A s \in Between : s \in StatesOf(t)
  BY DEF Between, StatesOf, DispatchStates, TickStates
<1> QED BY <1>1, <1>2, <1>3, <1>4, <1>5

LEMMA SweepTickKeeps == ASSUME IInv, SweepTick PROVE IInv'
<1>1. "tick" \in Threads /\ StatesOf("tick") = TickStates /\ "tick" # "dispatch"
  BY DEF Threads, StatesOf
<1>2. PICK s \in ThreadRecs : s = th["tick"] /\ s.pc = "idle"
  BY <1>1 DEF IInv, Types, ThreadTypes, SweepTick, At
<1>3. PICK r : r = [s EXCEPT !.pc = "called"]
  OBVIOUS
<1>4. r \in ThreadRecs /\ r.pc = "called"
  BY <1>3 DEF ThreadRecs, ThreadStates
<1>5. GoodThread(r, newest', chans', Len(wins')) /\ r.pc \in TickStates
  BY <1>4 DEF GoodThread, TickStates
<1>6. th' = [th EXCEPT !["tick"] = r]
  BY <1>2, <1>3 DEF SweepTick
<1>7. Rewindowed /\ wins' = wins /\ lost' = lost
  BY SameWindows DEF IInv, Types, SweepTick, ghostVars
<1>8. ack' \in Nat /\ queue' \in Seq(Items)
  BY DEF IInv, Types, ClientTypes, SweepTick
<1>9. UNCHANGED <<lifeVars, engineVars, pub, cur, seen>>
  BY DEF SweepTick
<1> QED BY <1>1, <1>4, <1>5, <1>6, <1>7, <1>8, <1>9, WorkFrame

LEMMA TickStartKeeps == ASSUME IInv, TickStart PROVE IInv'
<1>1. "tick" \in Threads /\ StatesOf("tick") = TickStates /\ "tick" # "dispatch"
  BY DEF Threads, StatesOf
<1>2. PICK r : /\ th' = [th EXCEPT !["tick"] = r]
               /\ \/ r = IdleThread
                  \/ cur # 0 /\ ~fenced /\ r = [IdleThread EXCEPT !.pc = "check", !.win = cur]
  BY DEF TickStart
<1>3. Rewindowed /\ wins' = wins /\ lost' = lost
  BY SameWindows DEF IInv, Types, TickStart, ghostVars
<1>4. /\ r \in ThreadRecs /\ r.pc \in TickStates /\ r.pc # "reset"
      /\ GoodThread(r, newest', chans', Len(wins'))
      /\ th["dispatch"].pc # "ended" \/ r.pc \in {"idle", "called"}
  <2>1. CASE r = IdleThread
    BY <2>1, IdleIsGood DEF TickStates
  <2>2. CASE cur # 0 /\ ~fenced /\ r = [IdleThread EXCEPT !.pc = "check", !.win = cur]
    <3>1. cur \in Nat /\ cur >= 1 /\ cur <= Len(wins')
      BY <1>3, <2>2, WindowCount DEF IInv, Types, WindowTypes
    <3>2. /\ r \in ThreadRecs /\ r.pc = "check" /\ r.win = cur
      BY <2>2, <3>1, IdleIsGood DEF ThreadRecs, ThreadStates
    <3>3. GoodThread(r, newest', chans', Len(wins'))
      BY <3>1, <3>2 DEF GoodThread
    <3>4. th["dispatch"].pc # "ended"
      BY <2>2 DEF IInv, Session, Fence
    <3> QED BY <3>2, <3>3, <3>4 DEF TickStates
  <2> QED BY <1>2, <2>1, <2>2
<1>5. ack' \in Nat /\ queue' \in Seq(Items)
  BY DEF IInv, Types, ClientTypes, TickStart
<1>6. UNCHANGED <<lifeVars, engineVars, pub, cur, seen>>
  BY DEF TickStart
<1> QED BY <1>1, <1>2, <1>3, <1>4, <1>5, <1>6, WorkFrame

LEMMA TickCheckKeeps == ASSUME IInv, TickCheck PROVE IInv'
<1>1. "tick" \in Threads /\ StatesOf("tick") = TickStates /\ "tick" # "dispatch"
  BY DEF Threads, StatesOf
<1>2. PICK s \in ThreadRecs : /\ s = th["tick"] /\ s.pc = "check" /\ s.win \in 1 .. Len(wins)
                              /\ th["dispatch"].pc # "ended"
  BY <1>1, AtWork DEF TickCheck, At
<1>3. PICK i \in 1 .. Len(wins) : i = s.win
  BY <1>2
<1>4. PICK x : x = wins[i] /\ Follows(x, newest, chans)
  BY DEF IInv, Types, WindowTypes
<1>5. PICK y : y = CheckRedelivery(x)
  OBVIOUS
<1>6. Follows(y, newest', chans')
  <2>1. /\ Sane(y) /\ y.baselined = x.baselined /\ y.epoch = x.epoch
        /\ y.delivered <= x.delivered /\ y.delivered \in Nat
    BY <1>4, <1>5, CheckSane, SaneFields DEF Follows
  <2>2. CASE x.baselined
    <3>1. x.epoch \in 1 .. newest /\ x.delivered \in 0 .. chans[x.epoch].last
      BY <1>4, <2>2 DEF Follows, Reached
    <3>2. chans[x.epoch].last \in Nat
      BY <3>1, DeliveryAssumption DEF IInv, Types, ChanTypes, Epochs
    <3>3. y.delivered \in 0 .. chans[y.epoch].last
      BY <2>1, <3>1, <3>2
    <3> QED BY <2>1, <3>1, <3>3 DEF Follows, Reached, TickCheck, engineVars
  <2>3. CASE ~x.baselined
    BY <2>1, <2>3 DEF Follows
  <2> QED BY <2>2, <2>3
<1>7. wins' = [wins EXCEPT ![i] = y]
  BY <1>2, <1>3, <1>4, <1>5 DEF TickCheck
<1>8. Rewindowed /\ Len(wins') = Len(wins)
  BY <1>6, <1>7, OneWindow DEF IInv, Types
<1>9. PICK r : r = [s EXCEPT !.pc = "point"]
  OBVIOUS
<1>10. r \in ThreadRecs /\ r.pc = "point" /\ r.win = i
  BY <1>3, <1>9 DEF ThreadRecs, ThreadStates
<1>11. GoodThread(r, newest', chans', Len(wins'))
  <2>1. r.win >= 1 /\ r.win <= Len(wins')
    BY <1>8, <1>10, WindowCount DEF IInv, Types
  <2> QED BY <1>10, <2>1 DEF GoodThread
<1>12. th' = [th EXCEPT !["tick"] = r]
  BY <1>2, <1>9 DEF TickCheck
<1>13. ack' \in Nat /\ queue' \in Seq(Items) /\ lost' = lost
  BY DEF IInv, Types, ClientTypes, TickCheck
<1>14. UNCHANGED <<lifeVars, engineVars, pub, cur, seen>> /\ r.pc \in TickStates
  BY <1>10 DEF TickCheck, TickStates
<1> QED BY <1>1, <1>2, <1>8, <1>10, <1>11, <1>12, <1>13, <1>14, WorkFrame

LEMMA DispatchConfirmKeeps == ASSUME IInv, DispatchConfirm PROVE IInv'
<1>1. "dispatch" \in Threads /\ StatesOf("dispatch") = DispatchStates /\ "tick" # "dispatch"
  BY DEF Threads, StatesOf
<1>2. PICK s \in ThreadRecs : s = th["dispatch"] /\ s.pc = "idle" /\ s.pc \in Between
  BY <1>1 DEF IInv, Types, ThreadTypes, DispatchConfirm, At, Between
<1>3. UNCHANGED <<lifeVars, engineVars, pub, cur, seen>> /\ lost' = lost
      /\ ack' \in Nat /\ queue' \in Seq(Items)
  BY DEF DispatchConfirm, ghostVars, IInv, Types, ClientTypes
<1>4. CASE cur = 0
  <2>1. wins' = wins /\ th' = th
    BY <1>4 DEF DispatchConfirm
  <2>2. th' = [th EXCEPT !["dispatch"] = s]
    BY <1>2, <2>1 DEF IInv, Types, ThreadTypes
  <2>3. Rewindowed
    BY <2>1, SameWindows DEF IInv, Types
  <2>4. GoodThread(s, newest', chans', Len(wins')) /\ s.pc \in DispatchStates
    BY <1>2 DEF GoodThread, DispatchStates
  <2> QED BY <1>1, <1>2, <1>3, <2>1, <2>2, <2>3, <2>4, WorkFrame
<1>5. CASE cur # 0
  <2>1. PICK i \in 1 .. Len(wins) : i = cur
    BY <1>5, WindowCount DEF IInv, Types, WindowTypes
  <2>2. PICK x : x = wins[i] /\ Follows(x, newest, chans)
    BY DEF IInv, Types, WindowTypes
  <2>3. PICK o \in Nat : o = ack
    BY DEF IInv, Types, ClientTypes
  <2>4. PICK y : y = Confirm(x, o)
    OBVIOUS
  <2>5. Follows(y, newest', chans')
    <3>1. /\ Sane(y) /\ y.baselined = x.baselined /\ y.epoch = x.epoch
          /\ y.delivered = x.delivered
      BY <2>2, <2>4, ConfirmSane DEF Follows
    <3> QED BY <2>2, <3>1 DEF Follows, DispatchConfirm, engineVars
  <2>6. wins' = [wins EXCEPT ![i] = y]
    BY <1>5, <2>1, <2>2, <2>3, <2>4 DEF DispatchConfirm
  <2>7. Rewindowed /\ Len(wins') = Len(wins)
    BY <2>5, <2>6, OneWindow DEF IInv, Types
  <2>8. PICK r : r = [IdleThread EXCEPT !.pc = "point", !.win = i]
    OBVIOUS
  <2>9. i \in Nat /\ i >= 1 /\ i <= Len(wins')
    BY <2>7, WindowCount DEF IInv, Types
  <2>10. r \in ThreadRecs /\ r.pc = "point" /\ r.win = i
    BY <2>8, <2>9, IdleIsGood DEF ThreadRecs, ThreadStates
  <2>11. GoodThread(r, newest', chans', Len(wins')) /\ r.pc \in DispatchStates /\ r.pc \in Between
    BY <2>9, <2>10 DEF GoodThread, DispatchStates, Between
  <2>12. th' = [th EXCEPT !["dispatch"] = r]
    BY <1>5, <2>1, <2>8 DEF DispatchConfirm
  <2> QED BY <1>1, <1>2, <1>3, <2>7, <2>10, <2>11, <2>12, WorkFrame
<1> QED BY <1>4, <1>5

\* Whatever RecoverN serves is in the history.
LEMMA ServedItems ==
  ASSUME ChanTypes, NEW o \in Nat, NEW e \in Nat, RecoverOk(o, e),
         Reached(newest, chans, e, o), NEW max \in Nat
  PROVE  /\ RecoverItems(o, max) \in Seq(Items)
         /\ \A k \in 1 .. Len(RecoverItems(o, max)) :
              /\ RecoverItems(o, max)[k].offset >= 1
              /\ Reached(newest, chans, RecoverItems(o, max)[k].epoch,
                                        RecoverItems(o, max)[k].offset)
<1>1. live = e /\ e \in 1 .. newest /\ o \in 0 .. chans[e].last
  BY DEF RecoverOk, Reached
<1>2. PICK top \in Nat : top = chans[e].last
  BY <1>1, DeliveryAssumption DEF ChanTypes, Epochs
<1>3. PICK upTo \in Nat :
        /\ upTo = IF max = 0 THEN chans[live].last ELSE SmallerOf(chans[live].last, o + max)
        /\ upTo <= top /\ o <= upTo
  <2>1. CASE max = 0
    BY <1>1, <1>2, <2>1
  <2>2. CASE max # 0
    BY <1>1, <1>2, <2>2 DEF SmallerOf
  <2> QED BY <2>1, <2>2
<1>4. PICK n \in Nat : n = upTo - o
  BY <1>3
<1>5. PICK f : f = [i \in 1 .. n |-> [epoch |-> e, offset |-> o + i]]
  OBVIOUS
<1>6. RecoverItems(o, max) = f
  BY <1>1, <1>3, <1>4, <1>5 DEF RecoverItems
<1>7. \A i \in 1 .. n : f[i] = [epoch |-> e, offset |-> o + i] /\ o + i \in Nat
  BY <1>5
<1>8. f \in [1 .. n -> Items]
  BY <1>5, <1>7 DEF Items
<1>9. f \in Seq(Items) /\ DOMAIN f = 1 .. n
  BY <1>8
<1>10. ASSUME NEW k \in 1 .. Len(f)
       PROVE  f[k].offset >= 1 /\ Reached(newest, chans, f[k].epoch, f[k].offset)
  <2>1. k \in 1 .. n
    BY <1>9
  <2>2. f[k].epoch = e /\ f[k].offset = o + k
    <3>1. f[k] = [epoch |-> e, offset |-> o + k]
      BY <1>7, <2>1
    <3> QED BY <3>1
  <2>3. o + k >= 1 /\ o + k \in 0 .. top
    BY <1>3, <1>4, <2>1
  <2> QED BY <1>1, <1>2, <2>2, <2>3 DEF Reached
<1> QED BY <1>6, <1>9, <1>10

LEMMA PumpStartKeeps == ASSUME IInv, NEW t \in Threads, PumpStart(t) PROVE IInv'
<1>1. PICK s \in ThreadRecs :
        /\ s = th[t] /\ s.pc = "point" /\ s.win \in 1 .. Len(wins)
        /\ t = "dispatch" => th[t].pc \in Between
        /\ t = "tick" => th["dispatch"].pc # "ended"
        /\ \A q \in Between : q \in StatesOf(t)
  BY AtWork DEF PumpStart, At
<1>2. PICK x : x = wins[s.win] /\ Follows(x, newest, chans)
  BY <1>1 DEF IInv, Types, WindowTypes
<1>3. PICK p : p = PumpPoint(x)
  OBVIOUS
<1>4. PICK r : /\ th' = [th EXCEPT ![t] = r]
               /\ \/ r = IdleThread
                  \/ /\ ~(p.room <= 0 \/ p.epoch = 0)
                     /\ r = [s EXCEPT !.pc = "fetch", !.from = p.from, !.epoch = p.epoch,
                                      !.room = SmallerOf(p.room, PumpBatch)]
  BY <1>1, <1>2, <1>3 DEF PumpStart
<1>5. Rewindowed /\ wins' = wins /\ lost' = lost
  BY SameWindows DEF IInv, Types, PumpStart, ghostVars
<1>6. r \in ThreadRecs /\ r.pc \in Between /\ r.pc # "reset"
      /\ GoodThread(r, newest', chans', Len(wins'))
  <2>1. CASE r = IdleThread
    BY <2>1, IdleIsGood DEF Between
  <2>2. CASE /\ ~(p.room <= 0 \/ p.epoch = 0)
             /\ r = [s EXCEPT !.pc = "fetch", !.from = p.from, !.epoch = p.epoch,
                              !.room = SmallerOf(p.room, PumpBatch)]
    <3>1. x.baselined
      BY <1>3, <2>2 DEF PumpPoint
    <3>2. p.from = x.delivered /\ p.epoch = x.epoch
          /\ p.room = IF MaxCount = 0 THEN Unlimited ELSE MaxCount - Len(x.inflight)
      BY <1>3, <3>1 DEF PumpPoint
    <3>3. x.delivered \in Nat /\ x.epoch \in Nat /\ Len(x.inflight) \in Nat
      BY <1>2, SaneFields DEF Follows
    <3>4. p.room \in Int
      BY <3>2, <3>3, WindowAssumption DEF Unlimited
    <3>5. PICK m \in Nat : m = SmallerOf(p.room, PumpBatch) /\ m >= 1
      BY <2>2, <3>4, DeliveryAssumption DEF SmallerOf
    <3>6. /\ r \in ThreadRecs /\ r.pc = "fetch" /\ r.win = s.win /\ r.room = m
          /\ r.from = x.delivered /\ r.epoch = x.epoch
      BY <2>2, <3>2, <3>3, <3>5 DEF ThreadRecs, ThreadStates
    <3>7. Reached(newest', chans', r.epoch, r.from)
      BY <1>2, <3>1, <3>6 DEF Follows, PumpStart, engineVars
    <3>8. r.win >= 1 /\ r.win <= Len(wins')
      BY <1>1, <1>5, <3>6, WindowCount DEF IInv, Types
    <3>9. GoodThread(r, newest', chans', Len(wins'))
      BY <3>5, <3>6, <3>7, <3>8 DEF GoodThread
    <3> QED BY <3>6, <3>9 DEF Between
  <2> QED BY <1>4, <2>1, <2>2
<1>7. ack' \in Nat /\ queue' \in Seq(Items)
  BY DEF IInv, Types, ClientTypes, PumpStart
<1>8. UNCHANGED <<lifeVars, engineVars, pub, cur, seen>>
  BY DEF PumpStart
<1> QED BY <1>1, <1>4, <1>5, <1>6, <1>7, <1>8, WorkFrame

LEMMA PumpFetchKeeps == ASSUME IInv, NEW t \in Threads, PumpFetch(t) PROVE IInv'
<1>1. PICK s \in ThreadRecs :
        /\ s = th[t] /\ s.pc = "fetch" /\ s.win \in 1 .. Len(wins)
        /\ GoodThread(s, newest, chans, Len(wins))
        /\ t = "dispatch" => th[t].pc \in Between
        /\ t = "tick" => th["dispatch"].pc # "ended"
        /\ \A q \in Between : q \in StatesOf(t)
  BY AtWork DEF PumpFetch, At
<1>2. PICK o \in Nat, e \in Nat, max \in Nat : o = s.from /\ e = s.epoch /\ max = s.room
  BY DEF ThreadRecs
<1>3. Reached(newest, chans, e, o)
  BY <1>1, <1>2 DEF GoodThread
<1>4. PICK b : b = RecoverItems(o, max)
  OBVIOUS
<1>5. PICK r : /\ th' = [th EXCEPT ![t] = r]
               /\ \/ r = IdleThread
                  \/ ~RecoverOk(o, e) /\ r = [s EXCEPT !.pc = "reset"]
                  \/ RecoverOk(o, e) /\ b # <<>> /\ r = [s EXCEPT !.pc = "admit", !.batch = b]
  BY <1>1, <1>2, <1>4 DEF PumpFetch
<1>6. Rewindowed /\ wins' = wins /\ lost' = lost
  BY SameWindows DEF IInv, Types, PumpFetch, ghostVars
<1>7. s.win >= 1 /\ s.win <= Len(wins')
  BY <1>1, <1>6, WindowCount DEF IInv, Types
<1>8. /\ r \in ThreadRecs /\ r.pc \in Between
      /\ GoodThread(r, newest', chans', Len(wins'))
  <2>1. CASE r = IdleThread
    BY <2>1, IdleIsGood DEF Between
  <2>2. CASE ~RecoverOk(o, e) /\ r = [s EXCEPT !.pc = "reset"]
    <3>1. r \in ThreadRecs /\ r.pc = "reset" /\ r.win = s.win
      BY <2>2 DEF ThreadRecs, ThreadStates
    <3> QED BY <1>7, <3>1 DEF Between, GoodThread
  <2>3. CASE RecoverOk(o, e) /\ b # <<>> /\ r = [s EXCEPT !.pc = "admit", !.batch = b]
    <3>1. /\ b \in Seq(Items)
          /\ \A k \in 1 .. Len(b) :
               b[k].offset >= 1 /\ Reached(newest, chans, b[k].epoch, b[k].offset)
      BY <1>3, <1>4, <2>3, ServedItems DEF IInv, Types
    <3>2. r \in ThreadRecs /\ r.pc = "admit" /\ r.win = s.win /\ r.batch = b
      BY <2>3, <3>1 DEF ThreadRecs, ThreadStates
    <3>3. newest' = newest /\ chans' = chans
      BY DEF PumpFetch, engineVars
    <3> QED BY <1>7, <2>3, <3>1, <3>2, <3>3 DEF Between, GoodThread
  <2> QED BY <1>5, <2>1, <2>2, <2>3
<1>9. ack' \in Nat /\ queue' \in Seq(Items)
  BY DEF IInv, Types, ClientTypes, PumpFetch
<1>10. UNCHANGED <<lifeVars, engineVars, pub, cur, seen>>
  BY DEF PumpFetch
<1> QED BY <1>1, <1>5, <1>6, <1>8, <1>9, <1>10, WorkFrame

LEMMA PumpResetKeeps == ASSUME IInv, NEW t \in Threads, PumpReset(t) PROVE IInv'
<1>1. PICK s \in ThreadRecs :
        /\ s = th[t] /\ s.pc = "reset" /\ s.win \in 1 .. Len(wins)
        /\ t = "dispatch" => th[t].pc \in Between
        /\ t = "tick" => th["dispatch"].pc # "ended"
        /\ \A q \in Between : q \in StatesOf(t)
  BY AtWork DEF PumpReset, At
<1>2. lost' \in BOOLEAN
  BY DEF IInv, PumpReset
<1>3. PICK i \in 1 .. Len(wins) : i = s.win
  BY <1>1
<1>4. PICK x : x = wins[i] /\ Sane(x)
  BY DEF IInv, Types, WindowTypes, Follows
<1>5. PICK y : y = Reset(x)
  OBVIOUS
<1>6. Follows(y, newest', chans')
  BY <1>4, <1>5, ResetSane DEF Follows
<1>7. wins' = [wins EXCEPT ![i] = y]
  BY <1>1, <1>3, <1>4, <1>5 DEF PumpReset
<1>8. Rewindowed /\ Len(wins') = Len(wins)
  BY <1>6, <1>7, OneWindow DEF IInv, Types
<1>9. /\ IdleThread \in ThreadRecs /\ IdleThread.pc = "idle"
      /\ GoodThread(IdleThread, newest', chans', Len(wins')) /\ IdleThread.pc \in Between
  BY IdleIsGood DEF Between
<1>10. ack' \in Nat /\ queue' \in Seq(Items) /\ th' = [th EXCEPT ![t] = IdleThread]
  BY DEF IInv, Types, ClientTypes, PumpReset
<1>11. UNCHANGED <<lifeVars, engineVars, pub, cur, seen>>
  BY DEF PumpReset
<1> QED BY <1>1, <1>2, <1>8, <1>9, <1>10, <1>11, WorkFrame

\* The rest of a batch.
LEMMA TailOfBatch ==
  ASSUME NEW b \in Seq(Items), b # <<>>
  PROVE  /\ Tail(b) \in Seq(Items) /\ Len(Tail(b)) = Len(b) - 1 /\ Len(b) >= 1
         /\ \A k \in 1 .. Len(Tail(b)) : k + 1 \in 1 .. Len(b) /\ Tail(b)[k] = b[k + 1]
<1>1. /\ Tail(b) \in Seq(Items) /\ Len(Tail(b)) = Len(b) - 1
      /\ \A k \in 1 .. Len(Tail(b)) : Tail(b)[k] = b[k + 1]
  BY HeadTailProperties
<1>2. Len(b) >= 1 /\ Len(b) \in Nat
  BY EmptySeq
<1>3. \A k \in 1 .. Len(Tail(b)) : k + 1 \in 1 .. Len(b)
  BY <1>1, <1>2
<1> QED BY <1>1, <1>2, <1>3

LEMMA PumpAdmitKeeps == ASSUME IInv, NEW t \in Threads, PumpAdmit(t) PROVE IInv'
<1>1. PICK s \in ThreadRecs :
        /\ s = th[t] /\ s.pc = "admit" /\ s.win \in 1 .. Len(wins)
        /\ GoodThread(s, newest, chans, Len(wins))
        /\ t = "dispatch" => th[t].pc \in Between
        /\ t = "tick" => th["dispatch"].pc # "ended"
        /\ \A q \in Between : q \in StatesOf(t)
  BY AtWork DEF PumpAdmit, At
<1>2. PICK i \in 1 .. Len(wins) : i = s.win
  BY <1>1
<1>3. PICK b \in Seq(Items) : b = s.batch /\ b # <<>>
  BY <1>1 DEF ThreadRecs, GoodThread
<1>4. \A k \in 1 .. Len(b) : b[k].offset >= 1 /\ Reached(newest, chans, b[k].epoch, b[k].offset)
  BY <1>1, <1>3 DEF GoodThread
<1>5. PICK d \in Items : d = Head(b) /\ d.offset >= 1 /\ Reached(newest, chans, d.epoch, d.offset)
  BY <1>3, <1>4
<1>6. PICK rest \in Seq(Items) :
        /\ rest = Tail(b) /\ Len(rest) = Len(b) - 1 /\ Len(b) >= 1
        /\ \A k \in 1 .. Len(rest) : k + 1 \in 1 .. Len(b) /\ rest[k] = b[k + 1]
  BY <1>3, TailOfBatch
<1>7. Rewindowed /\ Len(wins') = Len(wins) /\ queue' \in Seq(Items)
  <2>1. AdmitThrough(i, d)
    BY <1>1, <1>2, <1>3, <1>5 DEF PumpAdmit
  <2> QED BY <1>5, <2>1, Admission DEF IInv, Types, PumpAdmit, engineVars
<1>8. PICK r : /\ th' = [th EXCEPT ![t] = r]
               /\ \/ r = IdleThread
                  \/ r = [IdleThread EXCEPT !.pc = "point", !.win = i]
                  \/ Len(b) # 1 /\ r = [s EXCEPT !.batch = rest]
  BY <1>1, <1>2, <1>3, <1>6 DEF PumpAdmit
<1>9. i \in Nat /\ i >= 1 /\ i <= Len(wins')
  BY <1>7, WindowCount DEF IInv, Types
<1>10. /\ r \in ThreadRecs /\ r.pc \in Between /\ r.pc # "reset"
       /\ GoodThread(r, newest', chans', Len(wins'))
  <2>1. CASE r = IdleThread
    BY <2>1, IdleIsGood DEF Between
  <2>2. CASE r = [IdleThread EXCEPT !.pc = "point", !.win = i]
    <3>1. r \in ThreadRecs /\ r.pc = "point" /\ r.win = i
      BY <1>9, <2>2, IdleIsGood DEF ThreadRecs, ThreadStates
    <3> QED BY <1>9, <3>1 DEF Between, GoodThread
  <2>3. CASE Len(b) # 1 /\ r = [s EXCEPT !.batch = rest]
    <3>1. r \in ThreadRecs /\ r.pc = "admit" /\ r.win = i /\ r.batch = rest
      BY <1>1, <1>2, <2>3 DEF ThreadRecs
    <3>2. newest' = newest /\ chans' = chans
      BY DEF PumpAdmit, engineVars
    <3>3. rest # <<>>
      <4>1. Len(rest) = Len(b) - 1 /\ Len(b) >= 1 /\ Len(b) # 1 /\ Len(b) \in Nat
        BY <1>3, <1>6, <2>3
      <4>2. Len(rest) # 0
        BY <4>1
      <4> QED BY <4>2
    <3>4. \A k \in 1 .. Len(rest) :
            rest[k].offset >= 1 /\ Reached(newest', chans', rest[k].epoch, rest[k].offset)
      BY <1>4, <1>6, <3>2
    <3> QED BY <1>9, <3>1, <3>3, <3>4 DEF Between, GoodThread
  <2> QED BY <1>8, <2>1, <2>2, <2>3
<1>11. ack' \in Nat /\ lost' = lost
  BY DEF IInv, Types, ClientTypes, PumpAdmit
<1>12. UNCHANGED <<lifeVars, engineVars, pub, cur, seen>>
  BY DEF PumpAdmit
<1> QED BY <1>1, <1>7, <1>8, <1>10, <1>11, <1>12, WorkFrame

-----------------------------------------------------------------------------
\* The requests of the session and its end.

\* The dispatch goroutine moves, in whatever request.
LEMMA RequestFrame ==
  ASSUME IInv, ChanTypes', Grown, Rewindowed, cur' \in 0 .. Len(wins'), pub' = pub,
         ClientTypes', LifeTypes',
         NEW r \in ThreadRecs, th' = [th EXCEPT !["dispatch"] = r],
         r.pc \in DispatchStates, r.pc # "reset",
         r.pc # "subscribe" \/ ~Recovering \/ Reached(newest', chans', r.epoch, r.from),
         GoodThread(r, newest', chans', Len(wins')),
         lost' = lost
  PROVE  Types' /\ lost' \in BOOLEAN /\ th'["dispatch"] = r /\ th'["tick"] = th["tick"]
<1>1. "dispatch" \in Threads /\ "tick" \in Threads /\ StatesOf("dispatch") = DispatchStates
  BY DEF Threads, StatesOf
<1>2. ThreadTypes'
  BY <1>1, OneThread DEF IInv, Types
<1>3. Types'
  BY <1>2, TypesFrame
<1>4. \A q \in Threads : th'[q] = IF q = "dispatch" THEN r ELSE th[q]
  BY DEF IInv, Types, ThreadTypes
<1>5. lost' \in BOOLEAN
  BY DEF IInv
<1> QED BY <1>1, <1>3, <1>4, <1>5

\* The part of the session that a request leaves to the tick.
LEMMA TickStays ==
  ASSUME IInv, th'["tick"] = th["tick"], th["dispatch"].pc # "ended",
         th'["dispatch"].pc \notin {"joining", "ended"}, ~fenced, UNCHANGED fenced,
         swept' => cur' # 0 /\ sweeper'.loop # "off",
         cur' # 0 /\ ~sweeper'.stopped => swept'
  PROVE  Fence'
  BY DEF Fence

LEMMA NotFenced ==
  ASSUME IInv, th["dispatch"].pc \notin {"joining", "ended"} PROVE ~fenced
  BY DEF IInv, Session, Fence

LEMMA RecoverPointReached ==
  ASSUME ChanTypes, NEW d \in RecoverPoints
  PROVE  d.offset \in Nat /\ d.epoch \in Nat /\ Reached(newest, chans, d.epoch, d.offset)
<1>1. d \in Deliveries /\ d.epoch <= newest /\ d.offset <= chans[d.epoch].last
  BY DEF RecoverPoints
<1>2. d.epoch \in Epochs /\ d.offset \in 1 .. MaxOffset /\ MaxOffset \in Nat
  BY <1>1, DeliveryAssumption DEF Deliveries, MaxOffset
<1>3. d.epoch \in Nat /\ d.epoch >= 1 /\ newest \in Nat
  BY <1>2, DeliveryAssumption DEF Epochs, ChanTypes
<1>4. chans[d.epoch].last \in Nat
  BY <1>2 DEF ChanTypes
<1>5. d.epoch \in 1 .. newest /\ d.offset \in 0 .. chans[d.epoch].last
  BY <1>1, <1>2, <1>3, <1>4
<1> QED BY <1>2, <1>3, <1>5 DEF Reached

\* Consumer.Subscribe and the sweeper it joins.
LEMMA Installed ==
  ASSUME IInv, ~fenced, NEW w, Follows(w, newest', chans'), ConsumerSubscribe(w)
  PROVE  /\ Rewindowed /\ cur' \in 0 .. Len(wins') /\ cur' # 0
         /\ swept' \in BOOLEAN
         /\ sweeper' \in [loop : {"off", "on", "gone"}, stopped : BOOLEAN]
         /\ swept' => cur' # 0 /\ sweeper'.loop # "off"
         /\ cur' # 0 /\ ~sweeper'.stopped => swept'
<1>1. Len(wins) \in Nat /\ swept \in BOOLEAN
      /\ sweeper \in [loop : {"off", "on", "gone"}, stopped : BOOLEAN]
  BY WindowCount DEF IInv, Types, LifeTypes
<1>2. CASE cur # 0
  <2>1. wins' = wins /\ cur' = cur /\ swept' = swept /\ sweeper' = sweeper
    BY <1>2 DEF ConsumerSubscribe
  <2>2. Rewindowed /\ cur' \in 0 .. Len(wins')
    BY <2>1, SameWindows DEF IInv, Types, WindowTypes
  <2>3. swept => sweeper.loop # "off"
    BY DEF IInv, Session, Fence
  <2>4. ~sweeper.stopped => swept
    BY <1>2 DEF IInv, Session, Fence
  <2> QED BY <1>1, <1>2, <2>1, <2>2, <2>3, <2>4
<1>3. CASE cur = 0
  <2>1. wins' = Append(wins, w) /\ cur' = Len(wins) + 1 /\ SweeperAdd
    BY <1>3 DEF ConsumerSubscribe
  <2>2. PICK S : wins \in Seq(S)
    BY DEF IInv, Types, WindowTypes
  <2>3. /\ wins' \in Seq(S \union {w}) /\ Len(wins') = Len(wins) + 1
        /\ wins'[Len(wins) + 1] = w
        /\ \A i \in 1 .. Len(wins) : wins'[i] = wins[i]
    <3>1. PICK s \in Seq(S \union {w}) : s = wins
      BY <2>2
    <3>2. /\ Append(s, w) \in Seq(S \union {w}) /\ Len(Append(s, w)) = Len(s) + 1
          /\ Append(s, w)[Len(s) + 1] = w
          /\ \A i \in 1 .. Len(s) : Append(s, w)[i] = s[i]
      BY AppendProperties
    <3> QED BY <2>1, <3>1, <3>2
  <2>4. ASSUME NEW i \in 1 .. Len(wins')
        PROVE  (i <= Len(wins) /\ wins'[i] = wins[i]) \/ Follows(wins'[i], newest', chans')
    <3>1. i \in 1 .. Len(wins) \/ i = Len(wins) + 1
      BY <1>1, <2>3
    <3>2. CASE i \in 1 .. Len(wins)
      BY <1>1, <2>3, <3>2
    <3>3. CASE i = Len(wins) + 1
      BY <2>3, <3>3
    <3> QED BY <3>1, <3>2, <3>3
  <2>5. Len(wins) <= Len(wins') /\ cur' \in 0 .. Len(wins') /\ cur' # 0
    BY <1>1, <2>1, <2>3
  <2>6. Rewindowed
    BY <2>3, <2>4, <2>5 DEF Rewindowed
  <2>7. ~swept
    BY <1>3 DEF IInv, Session, Fence
  <2>8. CASE sweeper.stopped
    <3>1. swept' = swept /\ sweeper' = sweeper
      BY <2>1, <2>8 DEF SweeperAdd
    <3> QED BY <1>1, <2>5, <2>6, <2>7, <2>8, <3>1
  <2>9. CASE ~sweeper.stopped
    <3>1. swept' = TRUE /\ sweeper' = [sweeper EXCEPT !.loop = "on"]
      BY <2>1, <2>9 DEF SweeperAdd
    <3>2. sweeper' \in [loop : {"off", "on", "gone"}, stopped : BOOLEAN] /\ sweeper'.loop = "on"
      BY <1>1, <3>1
    <3> QED BY <2>5, <2>6, <3>1, <3>2
  <2> QED BY <2>8, <2>9
<1> QED BY <1>2, <1>3

LEMMA SubInstallKeeps == ASSUME IInv, SubInstall PROVE IInv'
<1>1. ChanTypes' /\ Grown
  BY SameHistory DEF IInv, Types, SubInstall
<1>2. th["dispatch"].pc = "idle" /\ ~fenced
  BY NotFenced DEF SubInstall, At
<1>3. PICK k \in Nat : k = (IF cur = 0 THEN Len(wins) + 1 ELSE 0) /\ (k # 0 <=> cur = 0)
  BY WindowCount DEF IInv, Types
<1>4. PICK begun : begun = [IdleThread EXCEPT !.pc = "subscribe", !.win = k]
  OBVIOUS
<1>5. begun = [pc |-> "subscribe", win |-> k, from |-> 0, epoch |-> 0, room |-> 0, batch |-> <<>>]
  BY <1>4 DEF IdleThread
<1>6. \E w, r : /\ ConsumerSubscribe(w) /\ Follows(w, newest', chans')
                /\ th' = [th EXCEPT !["dispatch"] = r] /\ r \in ThreadRecs
                /\ r.pc = "subscribe" /\ r.win = k
                /\ ~Recovering \/ Reached(newest', chans', r.epoch, r.from)
  <2>1. CASE Recovering
    <3>1. PICK d \in RecoverPoints :
            /\ ConsumerSubscribe(Baseline(NewWindow, d.offset, d.epoch))
            /\ th' = [th EXCEPT !["dispatch"] =
                 [begun EXCEPT !.from = d.offset, !.epoch = d.epoch]]
      BY <1>3, <1>4, <2>1 DEF SubInstall
    <3>2. d.offset \in Nat /\ d.epoch \in Nat /\ Reached(newest, chans, d.epoch, d.offset)
      BY RecoverPointReached DEF IInv, Types
    <3>3. PICK o \in Nat, e \in Nat : o = d.offset /\ e = d.epoch
      BY <3>2
    <3>4. PICK w : w = Baseline(NewWindow, o, e)
      OBVIOUS
    <3>5. Sane(w) /\ w.baselined /\ w.epoch = e /\ w.delivered = o
      BY <3>4, BaselineSane
    <3>6. newest' = newest /\ chans' = chans
      BY DEF SubInstall, engineVars
    <3>7. Follows(w, newest', chans') /\ Reached(newest', chans', e, o)
      BY <3>2, <3>3, <3>5, <3>6 DEF Follows
    <3>8. PICK r : r = [begun EXCEPT !.from = o, !.epoch = e]
      OBVIOUS
    <3>9. r = [pc |-> "subscribe", win |-> k, from |-> o, epoch |-> e, room |-> 0, batch |-> <<>>]
      BY <1>5, <3>8
    <3>10. <<>> \in Seq(Items) /\ 0 \in Nat /\ "subscribe" \in ThreadStates
      BY DEF ThreadStates
    <3>11. r \in ThreadRecs /\ r.pc = "subscribe" /\ r.win = k /\ r.epoch = e /\ r.from = o
      BY <3>9, <3>10 DEF ThreadRecs
    <3>12. ConsumerSubscribe(w) /\ th' = [th EXCEPT !["dispatch"] = r]
      BY <3>1, <3>3, <3>4, <3>8
    <3> QED BY <3>7, <3>11, <3>12
  <2>2. CASE ~Recovering
    <3>1. ConsumerSubscribe(NewWindow) /\ th' = [th EXCEPT !["dispatch"] = begun]
      BY <1>3, <1>4, <2>2 DEF SubInstall
    <3>2. Follows(NewWindow, newest', chans')
      BY NewWindowSane DEF Follows
    <3>3. <<>> \in Seq(Items) /\ 0 \in Nat /\ "subscribe" \in ThreadStates
      BY DEF ThreadStates
    <3>4. begun \in ThreadRecs /\ begun.pc = "subscribe" /\ begun.win = k
      BY <1>5, <3>3 DEF ThreadRecs
    <3> QED BY <2>2, <3>1, <3>2, <3>4
  <2> QED BY <2>1, <2>2
<1>7. PICK w, r : /\ ConsumerSubscribe(w) /\ Follows(w, newest', chans')
                  /\ th' = [th EXCEPT !["dispatch"] = r] /\ r \in ThreadRecs
                  /\ r.pc = "subscribe" /\ r.win = k
                  /\ ~Recovering \/ Reached(newest', chans', r.epoch, r.from)
  BY <1>6
<1>8. /\ Rewindowed /\ cur' \in 0 .. Len(wins') /\ cur' # 0
      /\ swept' \in BOOLEAN
      /\ sweeper' \in [loop : {"off", "on", "gone"}, stopped : BOOLEAN]
      /\ swept' => cur' # 0 /\ sweeper'.loop # "off"
      /\ cur' # 0 /\ ~sweeper'.stopped => swept'
  BY <1>2, <1>7, Installed
<1>9. LifeTypes'
  BY <1>8 DEF IInv, Types, LifeTypes, SubInstall
<1>10. ClientTypes'
  <2>1. RecoverPoints \subseteq Items
    <3>1. SUFFICES ASSUME NEW d \in RecoverPoints PROVE d \in Items
      OBVIOUS
    <3>2. d \in Deliveries
      BY DEF RecoverPoints
    <3>3. d = [epoch |-> d.epoch, offset |-> d.offset]
      BY <3>2 DEF Deliveries
    <3>4. d.epoch \in Nat /\ d.offset \in Nat
      BY RecoverPointReached DEF IInv, Types
    <3> QED BY <3>3, <3>4 DEF Items
  <2>2. seen' \subseteq seen \union RecoverPoints
    BY DEF SubInstall
  <2>3. queue' = queue /\ ack' = ack
    BY DEF SubInstall
  <2> QED BY <2>1, <2>2, <2>3 DEF IInv, Types, ClientTypes
<1>11. GoodThread(r, newest', chans', Len(wins')) /\ r.pc \in DispatchStates /\ r.pc # "reset"
  BY <1>7 DEF GoodThread, DispatchStates
<1>12. pub' = pub /\ lost' = lost /\ newest' = newest /\ live' = live /\ chans' = chans
       /\ fenced' = fenced
  BY DEF SubInstall, ghostVars, engineVars
<1>14. Types' /\ lost' \in BOOLEAN /\ th'["dispatch"] = r /\ th'["tick"] = th["tick"]
  BY <1>1, <1>7, <1>8, <1>9, <1>10, <1>11, <1>12, RequestFrame
<1>15. Session'
  <2>1. Guarded'
    BY <1>8, <1>12 DEF IInv, Session, Guarded
  <2>2. Unsubscribed' <=> Unsubscribed
    BY <1>12 DEF Unsubscribed
  <2>3. Subscribed' <=> Subscribed
    BY <1>12 DEF Subscribed
  <2>4. IF k # 0 THEN Unsubscribed ELSE Subscribed
    BY <1>2, <1>3 DEF IInv, Session, Guarded, Request, Unsubscribed
  <2>5. Request'
    BY <1>7, <1>8, <1>14, <2>2, <2>3, <2>4 DEF Request
  <2>6. Fence'
    BY <1>2, <1>7, <1>8, <1>12, <1>14, TickStays
  <2> QED BY <2>1, <2>5, <2>6 DEF Session
<1> QED BY <1>14, <1>15 DEF IInv

LEMMA SubEngineKeeps == ASSUME IInv, SubEngine PROVE IInv'
<1>1. th["dispatch"].pc = "subscribe" /\ ~fenced
  BY NotFenced DEF SubEngine, At
<1>2. newest \in Nat /\ live \in Nat /\ live <= newest /\ newest <= MaxEpoch /\ MaxEpoch \in Nat
      /\ (live = 0 => newest < MaxEpoch)
  BY DeliveryAssumption DEF IInv, Types, ChanTypes
<1>3. PICK e \in Epochs : e = IF live = 0 THEN newest + 1 ELSE live
  BY <1>2 DEF Epochs
<1>4. /\ ~chans[e].sub /\ live' = e /\ newest' = (IF live = 0 THEN e ELSE newest)
      /\ chans' = [chans EXCEPT ![e].sub = TRUE]
  BY <1>3 DEF SubEngine
<1>5. PICK c \in [last : Nat, count : Nat, sub : BOOLEAN] : c = chans[e]
  BY DEF IInv, Types, ChanTypes
<1>6. chans' = [chans EXCEPT ![e] = [last |-> c.last, count |-> c.count, sub |-> TRUE]]
  <2>1. ASSUME NEW v PROVE [c EXCEPT !.sub = v] = [last |-> c.last, count |-> c.count, sub |-> v]
    OBVIOUS
  <2> QED BY <1>4, <1>5, <2>1
<1>7. /\ chans' \in [Epochs -> [last : Nat, count : Nat, sub : BOOLEAN]]
      /\ chans'[e] = [last |-> c.last, count |-> c.count, sub |-> TRUE]
      /\ \A f \in Epochs : f # e => chans'[f] = chans[f]
  BY <1>6 DEF IInv, Types, ChanTypes
<1>8. \A f \in 1 .. newest :
        /\ f \in Epochs /\ chans[f].last \in Nat
        /\ chans'[f].last = chans[f].last /\ chans'[f].count = chans[f].count
  <2>1. SUFFICES ASSUME NEW f \in 1 .. newest
                 PROVE  /\ f \in Epochs /\ chans[f].last \in Nat
                        /\ chans'[f].last = chans[f].last /\ chans'[f].count = chans[f].count
    OBVIOUS
  <2>2. f \in Epochs
    BY <1>2 DEF Epochs
  <2>3. chans[f].last \in Nat
    BY <2>2 DEF IInv, Types, ChanTypes
  <2>4. CASE f = e
    BY <1>5, <1>7, <2>2, <2>3, <2>4
  <2>5. CASE f # e
    BY <1>7, <2>2, <2>3, <2>5
  <2> QED BY <2>4, <2>5
<1>9. newest' \in 0 .. MaxEpoch /\ live' \in 0 .. newest' /\ live' # 0 /\ newest <= newest'
  BY <1>2, <1>3, <1>4
<1>10. ChanTypes' /\ Grown
  <2>1. ChanTypes'
    BY <1>7, <1>9 DEF ChanTypes
  <2>2. \A f \in 1 .. newest : chans[f].last <= chans'[f].last
    BY <1>8
  <2> QED BY <1>9, <2>1, <2>2 DEF Grown
<1>11. Rewindowed /\ cur' = cur /\ wins' = wins /\ pub' = pub /\ lost' = lost
  BY SameWindows DEF IInv, Types, SubEngine, ghostVars
<1>12. cur' \in 0 .. Len(wins') /\ ClientTypes' /\ LifeTypes'
  BY DEF IInv, Types, WindowTypes, ClientTypes, LifeTypes, SubEngine, lifeVars
<1>13. PICK s \in ThreadRecs : s = th["dispatch"] /\ s.pc = "subscribe"
  BY <1>1 DEF IInv, Types, ThreadTypes, Threads
<1>14. PICK r : /\ th' = [th EXCEPT !["dispatch"] = r]
                /\ r = IdleThread \/ (Recovering /\ r = [s EXCEPT !.pc = "replay"])
  BY <1>13 DEF SubEngine
<1>15. /\ r \in ThreadRecs /\ r.pc \in {"idle", "replay"}
       /\ GoodThread(r, newest', chans', Len(wins'))
  <2>1. CASE r = IdleThread
    BY <2>1, IdleIsGood
  <2>2. CASE Recovering /\ r = [s EXCEPT !.pc = "replay"]
    <3>1. r \in ThreadRecs /\ r.pc = "replay" /\ r.epoch = s.epoch /\ r.from = s.from
      BY <2>2 DEF ThreadRecs, ThreadStates
    <3>2. Reached(newest, chans, s.epoch, s.from)
      BY <1>13, <2>2 DEF IInv, Types, ThreadTypes
    <3>3. Reached(newest', chans', s.epoch, s.from)
      BY <1>10, <3>2, ReachedKept DEF IInv, Types
    <3> QED BY <3>1, <3>3 DEF GoodThread
  <2> QED BY <1>14, <2>1, <2>2
<1>16. r.pc \in DispatchStates /\ r.pc # "reset" /\ r.pc # "subscribe"
  BY <1>15 DEF DispatchStates
<1>18. Types' /\ lost' \in BOOLEAN /\ th'["dispatch"] = r /\ th'["tick"] = th["tick"]
  BY <1>10, <1>11, <1>12, <1>14, <1>15, <1>16, RequestFrame
<1>19. Session'
  <2>1. cur # 0
    BY <1>1 DEF IInv, Session, Request
  <2>2. Unsubscribed
    <3>1. SUFFICES ASSUME Subscribed PROVE FALSE
      BY <1>1 DEF IInv, Session, Request
    <3> QED BY <1>3, <1>4, <3>1 DEF Subscribed
  <2>3. Guarded'
    BY <1>4, <1>7, <1>11, <2>1, <2>2 DEF Guarded, Unsubscribed
  <2>4. Subscribed'
    BY <1>4, <1>7, <1>9 DEF Subscribed
  <2>5. Request'
    BY <1>11, <1>15, <1>18, <2>1, <2>4 DEF Request
  <2>6. UNCHANGED <<swept, sweeper, fenced>>
    BY DEF SubEngine, lifeVars
  <2>7. Fence
    BY DEF IInv, Session
  <2>8. Fence'
    BY <1>1, <1>11, <1>15, <1>18, <2>6, <2>7 DEF Fence
  <2> QED BY <2>3, <2>5, <2>8 DEF Session
<1> QED BY <1>18, <1>19 DEF IInv

\* A request that touches neither history nor any window, and ends.
LEMMA RequestEnds ==
  ASSUME IInv, UNCHANGED <<engineVars, pub, wins, queue, seen, ack, lost, sweeper, fenced>>,
         cur' \in 0 .. Len(wins), swept' \in BOOLEAN,
         th' = [th EXCEPT !["dispatch"] = IdleThread]
  PROVE  Types' /\ lost' \in BOOLEAN /\ th'["dispatch"].pc = "idle" /\ th'["tick"] = th["tick"]
<1>1. ChanTypes' /\ Grown /\ Rewindowed
  BY SameHistory, SameWindows DEF IInv, Types
<1>2. cur' \in 0 .. Len(wins') /\ ClientTypes' /\ LifeTypes'
  BY DEF IInv, Types, ClientTypes, LifeTypes
<1>3. PICK r \in ThreadRecs : /\ r = IdleThread /\ r.pc = "idle"
                              /\ GoodThread(r, newest', chans', Len(wins'))
  BY IdleIsGood
<1>4. r.pc \in DispatchStates /\ r.pc # "reset" /\ r.pc # "subscribe"
  BY <1>3 DEF DispatchStates
<1>6. Types' /\ lost' \in BOOLEAN /\ th'["dispatch"] = r /\ th'["tick"] = th["tick"]
  BY <1>1, <1>2, <1>3, <1>4, RequestFrame
<1> QED BY <1>3, <1>6

LEMMA SubRefusedKeeps == ASSUME IInv, SubRefused PROVE IInv'
<1>1. th["dispatch"].pc = "subscribe" /\ ~fenced /\ cur \in 0 .. Len(wins) /\ Len(wins) \in Nat
      /\ swept \in BOOLEAN
  BY NotFenced, WindowCount DEF SubRefused, At, IInv, Types, WindowTypes, LifeTypes
<1>2. \/ th["dispatch"].win # 0 /\ cur' = 0 /\ swept' = FALSE
      \/ th["dispatch"].win = 0 /\ cur' = cur /\ swept' = swept
  BY DEF SubRefused, DropWindow
<1>3. cur' \in 0 .. Len(wins) /\ swept' \in BOOLEAN
  <2>1. cur' = 0 \/ cur' = cur
    BY <1>2
  <2>2. cur' \in 0 .. Len(wins)
    BY <1>1, <2>1
  <2>3. swept' \in BOOLEAN
    BY <1>1, <1>2, Zenon
  <2> QED BY <2>2, <2>3
<1>4. UNCHANGED <<engineVars, pub, wins, queue, seen, ack, lost, sweeper, fenced>>
      /\ th' = [th EXCEPT !["dispatch"] = IdleThread]
  BY DEF SubRefused, ghostVars
<1>5. Types' /\ lost' \in BOOLEAN /\ th'["dispatch"].pc = "idle" /\ th'["tick"] = th["tick"]
  BY <1>3, <1>4, RequestEnds
<1>6. Session'
  <2>1. IF th["dispatch"].win # 0 THEN Unsubscribed ELSE Subscribed
    BY <1>1 DEF IInv, Session, Request
  <2>2. (Unsubscribed' <=> Unsubscribed) /\ (Subscribed' <=> Subscribed)
    BY <1>4 DEF Unsubscribed, Subscribed, engineVars
  <2>3. Guarded'
    BY <1>2, <1>4, <2>1 DEF IInv, Session, Guarded, Unsubscribed, engineVars
  <2>4. Request'
    BY <1>2, <1>5, <2>1, <2>2 DEF Request
  <2>5. Fence
    BY DEF IInv, Session
  <2>6. Fence'
    <3>1. CASE th["dispatch"].win # 0 /\ cur' = 0 /\ swept' = FALSE
      BY <1>1, <1>4, <1>5, <3>1 DEF Fence
    <3>2. CASE th["dispatch"].win = 0 /\ cur' = cur /\ swept' = swept
      BY <1>1, <1>4, <1>5, <2>5, <3>2 DEF Fence
    <3> QED BY <1>2, <3>1, <3>2
  <2> QED BY <2>3, <2>4, <2>6 DEF Session
<1> QED BY <1>5, <1>6 DEF IInv

LEMMA UnsubWindowKeeps == ASSUME IInv, UnsubWindow PROVE IInv'
<1>1. th["dispatch"].pc = "unsubscribe" /\ ~fenced /\ Len(wins) \in Nat
  BY NotFenced, WindowCount DEF UnsubWindow, At, IInv, Types
<1>2. cur' = 0 /\ swept' = FALSE /\ cur' \in 0 .. Len(wins) /\ swept' \in BOOLEAN
  <2>1. cur' = 0 /\ swept' = FALSE
    BY DEF UnsubWindow, DropWindow
  <2>2. cur' \in 0 .. Len(wins)
    BY <1>1, <2>1
  <2>3. swept' \in BOOLEAN
    BY <2>1, Zenon
  <2> QED BY <2>1, <2>2, <2>3
<1>3. UNCHANGED <<engineVars, pub, wins, queue, seen, ack, lost, sweeper, fenced>>
      /\ th' = [th EXCEPT !["dispatch"] = IdleThread]
  BY DEF UnsubWindow, ghostVars
<1>4. Types' /\ lost' \in BOOLEAN /\ th'["dispatch"].pc = "idle" /\ th'["tick"] = th["tick"]
  BY <1>2, <1>3, RequestEnds
<1>5. Session'
  <2>1. Guarded'
    BY <1>1, <1>3 DEF IInv, Session, Request, Guarded, Unsubscribed, engineVars
  <2>2. Request'
    BY <1>2, <1>4 DEF Request
  <2>3. Fence'
    BY <1>1, <1>2, <1>3, <1>4 DEF Fence
  <2> QED BY <2>1, <2>2, <2>3 DEF Session
<1> QED BY <1>4, <1>5 DEF IInv

\* The replay of a recovering subscribe: the range it holds, then its deliveries.
LEMMA SubRecoverKeeps == ASSUME IInv, SubRecover PROVE IInv'
<1>1. PICK s \in ThreadRecs : /\ s = th["dispatch"] /\ s.pc = "replay"
                              /\ GoodThread(s, newest, chans, Len(wins))
  BY DEF IInv, Types, ThreadTypes, Threads, SubRecover, At
<1>2. PICK o \in Nat, e \in Nat : o = s.from /\ e = s.epoch
  BY DEF ThreadRecs
<1>3. Reached(newest, chans, e, o)
  BY <1>1, <1>2 DEF GoodThread
<1>4. PICK b : b = RecoverItems(o, 0)
  OBVIOUS
<1>5. PICK r : /\ th' = [th EXCEPT !["dispatch"] = r]
               /\ \/ r = IdleThread
                  \/ RecoverOk(o, e) /\ r = [s EXCEPT !.pc = "deliver", !.batch = b]
  BY <1>1, <1>2, <1>4 DEF SubRecover
<1>6. ChanTypes' /\ Grown /\ Rewindowed
  BY SameHistory, SameWindows DEF IInv, Types, SubRecover
<1>7. newest' = newest /\ chans' = chans /\ live' = live /\ pub' = pub /\ lost' = lost
  BY DEF SubRecover, engineVars, ghostVars
<1>8. /\ r \in ThreadRecs /\ r.pc \in {"idle", "deliver"}
      /\ GoodThread(r, newest', chans', Len(wins'))
  <2>1. CASE r = IdleThread
    BY <2>1, IdleIsGood
  <2>2. CASE RecoverOk(o, e) /\ r = [s EXCEPT !.pc = "deliver", !.batch = b]
    <3>1. /\ b \in Seq(Items)
          /\ \A k \in 1 .. Len(b) :
               b[k].offset >= 1 /\ Reached(newest, chans, b[k].epoch, b[k].offset)
      BY <1>3, <1>4, <2>2, ServedItems DEF IInv, Types
    <3>2. r \in ThreadRecs /\ r.pc = "deliver" /\ r.batch = b
      BY <2>2, <3>1 DEF ThreadRecs, ThreadStates
    <3> QED BY <1>7, <3>1, <3>2 DEF GoodThread
  <2> QED BY <1>5, <2>1, <2>2
<1>9. r.pc \in DispatchStates /\ r.pc # "reset" /\ r.pc # "subscribe"
  BY <1>8 DEF DispatchStates
<1>10. cur' \in 0 .. Len(wins') /\ ClientTypes' /\ LifeTypes'
  BY DEF IInv, Types, WindowTypes, ClientTypes, LifeTypes, SubRecover, lifeVars
<1>12. Types' /\ lost' \in BOOLEAN /\ th'["dispatch"] = r /\ th'["tick"] = th["tick"]
  BY <1>5, <1>6, <1>7, <1>8, <1>9, <1>10, RequestFrame
<1>13. Session'
  <2>1. UNCHANGED <<cur, swept, sweeper, fenced>>
    BY DEF SubRecover, lifeVars
  <2>2. Guarded' /\ (Subscribed' <=> Subscribed)
    BY <1>7, <2>1 DEF IInv, Session, Guarded, Subscribed
  <2>3. Request'
    BY <1>1, <1>8, <1>12, <2>1, <2>2 DEF IInv, Session, Request
  <2>4. Fence'
    BY <1>1, <1>8, <1>12, <2>1 DEF IInv, Session, Fence
  <2> QED BY <2>2, <2>3, <2>4 DEF Session
<1> QED BY <1>12, <1>13 DEF IInv

LEMMA SubReplayKeeps == ASSUME IInv, SubReplay PROVE IInv'
<1>1. PICK s \in ThreadRecs : /\ s = th["dispatch"] /\ s.pc = "deliver"
                              /\ GoodThread(s, newest, chans, Len(wins))
  BY DEF IInv, Types, ThreadTypes, Threads, SubReplay, At
<1>2. PICK b \in Seq(Items) : b = s.batch
  BY DEF ThreadRecs
<1>3. \A k \in 1 .. Len(b) : b[k].offset >= 1 /\ Reached(newest, chans, b[k].epoch, b[k].offset)
  BY <1>1, <1>2 DEF GoodThread
<1>4. ChanTypes' /\ Grown
  BY SameHistory DEF IInv, Types, SubReplay
<1>5. newest' = newest /\ chans' = chans /\ live' = live /\ pub' = pub /\ lost' = lost
      /\ cur' = cur /\ seen' = seen /\ ack' = ack
  BY DEF SubReplay, engineVars
<1>6. \E r \in ThreadRecs :
        /\ th' = [th EXCEPT !["dispatch"] = r] /\ r.pc \in {"idle", "deliver"}
        /\ GoodThread(r, newest', chans', Len(wins'))
        /\ Rewindowed /\ Len(wins') = Len(wins) /\ queue' \in Seq(Items)
  <2>1. CASE b = <<>>
    <3>1. th' = [th EXCEPT !["dispatch"] = IdleThread] /\ wins' = wins /\ queue' = queue
      BY <1>1, <1>2, <2>1 DEF SubReplay
    <3>2. Rewindowed
      BY <3>1, SameWindows DEF IInv, Types
    <3>3. queue' \in Seq(Items)
      BY <3>1 DEF IInv, Types, ClientTypes
    <3>4. PICK r \in ThreadRecs : /\ r = IdleThread /\ r.pc = "idle"
                                  /\ GoodThread(r, newest', chans', Len(wins'))
      BY IdleIsGood
    <3> QED BY <3>1, <3>2, <3>3, <3>4
  <2>2. CASE b # <<>>
    <3>1. AdmitThrough(cur, Head(b)) /\ th' = [th EXCEPT !["dispatch"].batch = Tail(b)]
      BY <1>1, <1>2, <2>2 DEF SubReplay
    <3>2. Len(b) \in Nat /\ Len(b) >= 1
      BY <2>2
    <3>3. PICK d \in Items : d = Head(b) /\ d.offset >= 1 /\ Reached(newest, chans, d.epoch, d.offset)
      BY <1>3, <2>2, <3>2
    <3>4. PICK rest \in Seq(Items) :
            /\ rest = Tail(b)
            /\ \A k \in 1 .. Len(rest) : k + 1 \in 1 .. Len(b) /\ rest[k] = b[k + 1]
      BY <2>2, TailOfBatch
    <3>5. cur # 0
      BY <1>1 DEF IInv, Session, Request
    <3>6. PICK i \in 1 .. Len(wins) : i = cur
      BY <3>5, WindowCount DEF IInv, Types, WindowTypes
    <3>7. AdmitThrough(i, d)
      BY <3>1, <3>3, <3>6
    <3>8. Rewindowed /\ Len(wins') = Len(wins) /\ queue' \in Seq(Items)
      BY <1>5, <3>3, <3>7, Admission DEF IInv, Types
    <3>9. PICK r : r = [s EXCEPT !.batch = rest]
      OBVIOUS
    <3>10. r \in ThreadRecs /\ r.pc = "deliver" /\ r.batch = rest
      BY <1>1, <3>9 DEF ThreadRecs
    <3>11. \A k \in 1 .. Len(rest) :
             rest[k].offset >= 1 /\ Reached(newest', chans', rest[k].epoch, rest[k].offset)
      BY <1>3, <1>5, <3>4
    <3>12. GoodThread(r, newest', chans', Len(wins'))
      BY <3>10, <3>11 DEF GoodThread
    <3>13. th' = [th EXCEPT !["dispatch"] = r]
      BY <1>1, <3>1, <3>4, <3>9
    <3> QED BY <3>8, <3>10, <3>12, <3>13
  <2> QED BY <2>1, <2>2
<1>7. PICK r \in ThreadRecs :
        /\ th' = [th EXCEPT !["dispatch"] = r] /\ r.pc \in {"idle", "deliver"}
        /\ GoodThread(r, newest', chans', Len(wins'))
        /\ Rewindowed /\ Len(wins') = Len(wins) /\ queue' \in Seq(Items)
  BY <1>6
<1>8. r.pc \in DispatchStates /\ r.pc # "reset" /\ r.pc # "subscribe"
  BY <1>7 DEF DispatchStates
<1>9. cur' \in 0 .. Len(wins')
  BY <1>5, <1>7 DEF IInv, Types, WindowTypes
<1>10. ClientTypes'
  BY <1>5, <1>7 DEF IInv, Types, ClientTypes
<1>11. LifeTypes'
  BY DEF IInv, Types, LifeTypes, SubReplay, lifeVars
<1>13. Types' /\ lost' \in BOOLEAN /\ th'["dispatch"] = r /\ th'["tick"] = th["tick"]
  BY <1>4, <1>5, <1>7, <1>8, <1>9, <1>10, <1>11, RequestFrame
<1>14. Session'
  <2>1. UNCHANGED <<cur, swept, sweeper, fenced>>
    BY DEF SubReplay, lifeVars
  <2>2. Guarded' /\ (Subscribed' <=> Subscribed)
    BY <1>5, <2>1 DEF IInv, Session, Guarded, Subscribed
  <2>3. Request'
    BY <1>1, <1>7, <1>13, <2>1, <2>2 DEF IInv, Session, Request
  <2>4. Fence'
    BY <1>1, <1>7, <1>13, <2>1 DEF IInv, Session, Fence
  <2> QED BY <2>2, <2>3, <2>4 DEF Session
<1> QED BY <1>13, <1>14 DEF IInv

\* The engine lets go of subscriptions and of nothing else.
LEMMA Unsubscribing ==
  ASSUME IInv, UNCHANGED <<live, newest, pub, wins, cur, queue, seen, ack, lost, swept, sweeper, fenced>>,
         NEW r \in {"unsubscribe", "ended"}, th' = [th EXCEPT !["dispatch"].pc = r],
         chans' \in [Epochs -> [last : Nat, count : Nat, sub : BOOLEAN]],
         \A f \in Epochs : chans'[f].last = chans[f].last /\ chans'[f].count = chans[f].count
  PROVE  Types' /\ lost' \in BOOLEAN /\ th'["dispatch"].pc = r /\ th'["tick"] = th["tick"]
<1>1. newest \in Nat /\ \A f \in 1 .. newest : f \in Epochs /\ chans[f].last \in Nat
  BY DeliveryAssumption DEF IInv, Types, ChanTypes, Epochs
<1>2. ChanTypes' /\ Grown
  <2>1. ChanTypes'
    BY DEF IInv, Types, ChanTypes
  <2>2. \A f \in 1 .. newest : chans[f].last <= chans'[f].last
    BY <1>1
  <2> QED BY <1>1, <2>1, <2>2 DEF Grown
<1>3. Rewindowed /\ cur' \in 0 .. Len(wins') /\ ClientTypes' /\ LifeTypes'
  BY SameWindows DEF IInv, Types, WindowTypes, ClientTypes, LifeTypes
<1>4. PICK s \in ThreadRecs : s = th["dispatch"]
  BY DEF IInv, Types, ThreadTypes, Threads
<1>5. PICK q : q = [s EXCEPT !.pc = r]
  OBVIOUS
<1>6. q \in ThreadRecs /\ q.pc = r
  BY <1>5 DEF ThreadRecs, ThreadStates
<1>7. GoodThread(q, newest', chans', Len(wins')) /\ q.pc \in DispatchStates
      /\ q.pc # "reset" /\ q.pc # "subscribe"
  BY <1>6 DEF GoodThread, DispatchStates
<1>8. th' = [th EXCEPT !["dispatch"] = q]
  BY <1>4, <1>5
<1>10. Types' /\ lost' \in BOOLEAN /\ th'["dispatch"] = q /\ th'["tick"] = th["tick"]
  BY <1>2, <1>3, <1>6, <1>7, <1>8, RequestFrame
<1> QED BY <1>6, <1>10

LEMMA UnsubEngineKeeps == ASSUME IInv, UnsubEngine PROVE IInv'
<1>1. th["dispatch"].pc = "idle" /\ ~fenced
  BY NotFenced DEF UnsubEngine, At
<1>2. PICK e \in Epochs : e = live
  BY LiveRange DEF IInv, Types, UnsubEngine
<1>3. PICK c \in [last : Nat, count : Nat, sub : BOOLEAN] : c = chans[e]
  BY DEF IInv, Types, ChanTypes
<1>4. chans' = [chans EXCEPT ![e] = [last |-> c.last, count |-> c.count, sub |-> FALSE]]
  <2>1. ASSUME NEW v PROVE [c EXCEPT !.sub = v] = [last |-> c.last, count |-> c.count, sub |-> v]
    OBVIOUS
  <2>2. chans' = [chans EXCEPT ![e].sub = FALSE]
    BY <1>2 DEF UnsubEngine
  <2> QED BY <1>3, <2>1, <2>2
<1>5. /\ chans' \in [Epochs -> [last : Nat, count : Nat, sub : BOOLEAN]]
      /\ chans'[e] = [last |-> c.last, count |-> c.count, sub |-> FALSE]
      /\ \A f \in Epochs : f # e => chans'[f] = chans[f]
  BY <1>4 DEF IInv, Types, ChanTypes
<1>6. \A f \in Epochs : chans'[f].last = chans[f].last /\ chans'[f].count = chans[f].count
  BY <1>3, <1>5
<1>7. UNCHANGED <<live, newest, pub, wins, cur, queue, seen, ack, lost, swept, sweeper, fenced>>
  BY DEF UnsubEngine, lifeVars, ghostVars
<1>8. th' = [th EXCEPT !["dispatch"].pc = "unsubscribe"]
  BY DEF UnsubEngine
<1>9. Types' /\ lost' \in BOOLEAN /\ th'["dispatch"].pc = "unsubscribe" /\ th'["tick"] = th["tick"]
  BY <1>5, <1>6, <1>7, <1>8, Unsubscribing
<1>10. Session'
  <2>1. Unsubscribed' /\ Guarded'
    BY <1>2, <1>5, <1>7 DEF IInv, Session, Guarded, Unsubscribed
  <2>2. Request'
    BY <1>9, <2>1 DEF Request
  <2>3. Fence'
    BY <1>1, <1>7, <1>9 DEF IInv, Session, Fence
  <2> QED BY <2>1, <2>2, <2>3 DEF Session
<1> QED BY <1>9, <1>10 DEF IInv

LEMMA SessionJoinKeeps == ASSUME IInv, SessionJoin PROVE IInv'
<1>1. th["dispatch"].pc = "joining" /\ th["tick"].pc \in {"idle", "called"}
  BY DEF SessionJoin, At
<1>2. \A f \in Epochs : chans[f] \in [last : Nat, count : Nat, sub : BOOLEAN]
  BY DEF IInv, Types, ChanTypes
<1>3. chans' = [f \in Epochs |-> [chans[f] EXCEPT !.sub = FALSE]]
  BY DEF SessionJoin
<1>4. ASSUME NEW c \in [last : Nat, count : Nat, sub : BOOLEAN]
      PROVE  /\ [c EXCEPT !.sub = FALSE] \in [last : Nat, count : Nat, sub : BOOLEAN]
             /\ [c EXCEPT !.sub = FALSE].last = c.last
             /\ [c EXCEPT !.sub = FALSE].count = c.count
             /\ ~[c EXCEPT !.sub = FALSE].sub
  OBVIOUS
<1>5. chans' \in [Epochs -> [last : Nat, count : Nat, sub : BOOLEAN]]
  BY <1>2, <1>3, <1>4
<1>6. \A f \in Epochs : /\ chans'[f].last = chans[f].last /\ chans'[f].count = chans[f].count
                        /\ ~chans'[f].sub
  BY <1>2, <1>3, <1>4
<1>7. UNCHANGED <<live, newest, pub, wins, cur, queue, seen, ack, lost, swept, sweeper, fenced>>
  BY DEF SessionJoin, lifeVars, ghostVars
<1>8. th' = [th EXCEPT !["dispatch"].pc = "ended"]
  BY DEF SessionJoin
<1>9. Types' /\ lost' \in BOOLEAN /\ th'["dispatch"].pc = "ended" /\ th'["tick"] = th["tick"]
  BY <1>5, <1>6, <1>7, <1>8, Unsubscribing
<1>10. Session'
  <2>1. Unsubscribed' /\ Guarded'
    BY <1>6 DEF Guarded, Unsubscribed
  <2>2. Request'
    BY <1>9 DEF Request
  <2>3. Fence'
    BY <1>1, <1>7, <1>9 DEF IInv, Session, Fence
  <2> QED BY <2>1, <2>2, <2>3 DEF Session
<1> QED BY <1>9, <1>10 DEF IInv

LEMMA SessionStopKeeps == ASSUME IInv, SessionStop PROVE IInv'
<1>1. th["dispatch"].pc = "idle" /\ ~fenced
  BY NotFenced DEF SessionStop, At
<1>2. ChanTypes' /\ Grown /\ Rewindowed
  BY SameHistory, SameWindows DEF IInv, Types, SessionStop
<1>3. pub' = pub /\ cur' = cur /\ wins' = wins /\ lost' = lost /\ sweeper' = sweeper
      /\ newest' = newest /\ live' = live /\ chans' = chans
  BY DEF SessionStop, engineVars, ghostVars
<1>4. fenced' /\ ~swept' /\ fenced' \in BOOLEAN /\ swept' \in BOOLEAN
  BY DEF SessionStop
<1>5. cur' \in 0 .. Len(wins') /\ ClientTypes'
  BY DEF IInv, Types, WindowTypes, ClientTypes, SessionStop
<1>6. LifeTypes'
  BY <1>3, <1>4 DEF IInv, Types, LifeTypes
<1>7. PICK s \in ThreadRecs : s = th["dispatch"]
  BY DEF IInv, Types, ThreadTypes, Threads
<1>8. PICK r : r = [s EXCEPT !.pc = "joining"]
  OBVIOUS
<1>9. r \in ThreadRecs /\ r.pc = "joining"
  BY <1>8 DEF ThreadRecs, ThreadStates
<1>10. GoodThread(r, newest', chans', Len(wins')) /\ r.pc \in DispatchStates
       /\ r.pc # "reset" /\ r.pc # "subscribe"
  BY <1>9 DEF GoodThread, DispatchStates
<1>11. th' = [th EXCEPT !["dispatch"] = r]
  BY <1>7, <1>8 DEF SessionStop
<1>13. Types' /\ lost' \in BOOLEAN /\ th'["dispatch"] = r /\ th'["tick"] = th["tick"]
  BY <1>2, <1>3, <1>5, <1>6, <1>9, <1>10, <1>11, RequestFrame
<1>14. Session'
  <2>1. Guarded'
    BY <1>3 DEF IInv, Session, Guarded
  <2>2. Request'
    BY <1>9, <1>13 DEF Request
  <2>3. Fence'
    BY <1>4, <1>9, <1>13 DEF Fence
  <2> QED BY <2>1, <2>2, <2>3 DEF Session
<1> QED BY <1>13, <1>14 DEF IInv

-----------------------------------------------------------------------------
\* The theorems.

LEMMA InitIInv == ASSUME Init PROVE IInv
<1>1. /\ Seed \in Nat /\ HistCap \in Nat /\ SmallerOf(Seed, HistCap) \in Nat
      /\ MaxEpoch \in Nat \ {0} /\ 1 \in Epochs
  BY DeliveryAssumption DEF SmallerOf, Epochs
<1>2. chans \in [Epochs -> [last : Nat, count : Nat, sub : BOOLEAN]]
      /\ \A e \in Epochs : ~chans[e].sub
  BY <1>1 DEF Init, NoChannel
<1>3. ChanTypes
  BY <1>1, <1>2 DEF Init, ChanTypes
<1>4. wins = <<>> /\ Len(wins) = 0 /\ cur = 0 /\ wins \in Seq({}) /\ queue \in Seq(Items)
  BY DEF Init
<1>5. PubTypes
  <2>1. \A p \in Pubs : pub[p] = IdlePub
    BY DEF Init
  <2>2. IdlePub \in PubRecs /\ GoodPub(IdlePub, newest, chans, 0)
    BY IdlePubIsGood
  <2>3. pub \in [Pubs -> PubRecs]
    BY <2>2 DEF Init
  <2> QED BY <1>4, <2>1, <2>2, <2>3 DEF PubTypes
<1>6. ThreadTypes /\ \A t \in Threads : th[t].pc = "idle"
  <2>1. \A t \in Threads : th[t] = IdleThread
    BY DEF Init
  <2>2. IdleThread \in ThreadRecs /\ IdleThread.pc = "idle" /\ GoodThread(IdleThread, newest, chans, Len(wins))
    BY IdleIsGood
  <2>3. th \in [Threads -> ThreadRecs]
    BY <2>2 DEF Init
  <2>4. th["dispatch"].pc = "idle" /\ th["tick"].pc = "idle"
    BY <2>1, <2>2 DEF Threads
  <2> QED BY <2>1, <2>2, <2>3, <2>4 DEF ThreadTypes, DispatchStates, TickStates
<1>7. WindowTypes
  BY <1>4 DEF WindowTypes
<1>8. ClientTypes
  BY <1>4 DEF Init, ClientTypes
<1>9. LifeTypes
  BY DEF Init, LifeTypes
<1>10. Session
  <2>1. th["dispatch"].pc = "idle" /\ th["tick"].pc = "idle"
    BY <1>6 DEF Threads
  <2>2. ~swept /\ ~fenced
    BY DEF Init
  <2>3. Guarded /\ Request /\ Fence
    BY <1>2, <1>4, <2>1, <2>2 DEF Guarded, Request, Fence
  <2> QED BY <2>3 DEF Session
<1>11. lost \in BOOLEAN
  BY DEF Init
<1> QED BY <1>3, <1>5, <1>6, <1>7, <1>8, <1>9, <1>10, <1>11 DEF IInv, Types

LEMMA StutterIInv == ASSUME IInv, UNCHANGED vars PROVE IInv'
<1>1. UNCHANGED <<lifeVars, engineVars, pub, wins, cur, th, queue, seen, ack, lost>>
  BY DEF vars, lifeVars, engineVars
<1>2. Rewindowed /\ queue' \in Seq(Items)
  BY <1>1, SameWindows DEF IInv, Types, ClientTypes
<1>3. ChanTypes' /\ Grown
  BY <1>1, SameHistory DEF IInv, Types
<1>4. PubTypes'
  BY <1>1, <1>2, <1>3, SamePubs DEF IInv, Types
<1> QED BY <1>1, <1>2, <1>4, PublisherFrame

\* Whatever a publisher, a request, a tick, a pump, the history sweeper or the
\* client does next, the invariant stays.
THEOREM DeliveryInvariant == Spec => []IInv
<1>1. Init => IInv
  BY InitIInv
<1>2. IInv /\ [Next]_vars => IInv'
  <2> SUFFICES ASSUME IInv, [Next]_vars PROVE IInv'
    OBVIOUS
  <2>1. CASE \E p \in Pubs : PubAcquire(p) \/ PubStep(p)
    BY <2>1, PubAcquireKeeps, PubAppendKeeps, PubFanKeeps, PubGateKeeps, PubDeliverKeeps
    DEF PubStep
  <2>2. CASE SubInstall \/ UnsubEngine \/ DispatchConfirm
    BY <2>2, SubInstallKeeps, UnsubEngineKeeps, DispatchConfirmKeeps
  <2>3. CASE DispatchStep
    BY <2>3, SubEngineKeeps, SubRefusedKeeps, SubRecoverKeeps, SubReplayKeeps, UnsubWindowKeeps
    DEF DispatchStep
  <2>4. CASE SweepTick \/ TickStart \/ TickCheck
    BY <2>4, SweepTickKeeps, TickStartKeeps, TickCheckKeeps
  <2>5. CASE \E t \in Threads : PumpStep(t)
    BY <2>5, PumpStartKeeps, PumpFetchKeeps, PumpResetKeeps, PumpAdmitKeeps DEF PumpStep
  <2>6. CASE Age \/ Expire \/ Reap
    BY <2>6, AgeKeeps, ExpireKeeps, ReapKeeps
  <2>7. CASE SessionStop \/ SessionJoin
    BY <2>7, SessionStopKeeps, SessionJoinKeeps
  <2>8. CASE SweeperStop \/ SweeperExit
    BY <2>8, SweeperKeeps
  <2>9. CASE ClientRecv \/ ClientConfirm
    BY <2>9, ClientKeeps
  <2>10. CASE UNCHANGED vars
    BY <2>10, StutterIInv
  <2> QED BY <2>1, <2>2, <2>3, <2>4, <2>5, <2>6, <2>7, <2>8, <2>9, <2>10 DEF Next
<1> QED BY <1>1, <1>2, PTL DEF Spec

\* For any number of publishers, windows and incarnations, between two requests
\* a channel has its window installed if and only if the engine fans out to the
\* session, and within a request never without it (ops.go Subscribe, Unsubscribe;
\* engine.go's history sweeper).
THEOREM WindowMatchesSubscriptionHolds == Spec => []WindowMatchesSubscription
<1>1. IInv => WindowMatchesSubscription
  BY DEF IInv, Session, Guarded, Request, Subscribed, WindowMatchesSubscription, At
<1> QED BY <1>1, DeliveryInvariant, PTL

\* After Consumer.Stop has joined, no tick is past its fence, and until then the
\* sweeper has the consumer exactly while it has a window (consumer.go Stop,
\* Tick; sweeper.go add, run).
THEOREM SweeperFollowsSessionHolds == Spec => []SweeperFollowsSession
<1>1. IInv => SweeperFollowsSession
  BY DEF IInv, Session, Fence, SweeperFollowsSession, At
<1> QED BY <1>1, DeliveryInvariant, PTL

-----------------------------------------------------------------------------
\* What a pump gives up as lost.

\* What a pump found gone stays gone: no incarnation comes back, and neither the
\* first nor the last offset that history holds goes back.
Onwards ==
  \A e \in 1 .. newest :
    /\ e # live => e # live'
    /\ chans[e].last <= chans'[e].last
    /\ Oldest(chans[e]) <= Oldest(chans'[e])

\* The range a pump was refused, with its cursor within the history.
Refused ==
  \A t \in Threads :
    At(t, "reset") => /\ Reached(newest, chans, th[t].epoch, th[t].from)
                      /\ Gone(th[t].from, th[t].epoch)

\* A range that RecoverN refuses lost its beginning, or its whole incarnation.
LEMMA UnservedIsGone ==
  ASSUME ChanTypes, NEW e, NEW o, Reached(newest, chans, e, o), ~RecoverOk(o, e)
  PROVE  Gone(o, e)
<1>1. e \in 1 .. newest /\ o \in 0 .. chans[e].last /\ newest \in Nat /\ live \in Nat
  BY DEF Reached, ChanTypes
<1>2. CASE live # e
  BY <1>1, <1>2 DEF Gone
<1>3. CASE live = e
  <2>1. PICK l \in Nat, n \in Nat : l = chans[e].last /\ n = chans[e].count
    BY <1>1, DeliveryAssumption DEF ChanTypes, Epochs
  <2>2. o < l /\ (n = 0 \/ o + 1 < l - n + 1)
    BY <1>1, <1>3, <2>1 DEF RecoverOk, Oldest
  <2>3. o + 1 \in (o + 1) .. l /\ o + 1 \notin (l - n + 1) .. l
    BY <1>1, <2>1, <2>2
  <2> QED BY <1>3, <2>1, <2>3 DEF Gone, Retained, Oldest
<1> QED BY <1>2, <1>3

\* Once gone, a range is gone for good.
LEMMA GoneStays ==
  ASSUME ChanTypes, ChanTypes', newest <= newest', Onwards, NEW e, NEW o,
         Reached(newest, chans, e, o), Gone(o, e)
  PROVE  Reached(newest', chans', e, o) /\ Gone(o, e)'
<1>1. PICK l \in Nat, n \in Nat : l = chans[e].last /\ n = chans[e].count
  BY DeliveryAssumption DEF ChanTypes, Epochs, Reached
<1>2. e \in 1 .. newest /\ o \in 0 .. l /\ newest \in Nat /\ newest' \in Nat
  BY <1>1 DEF Reached, ChanTypes
<1>3. PICK m \in Nat, k \in Nat : m = chans'[e].last /\ k = chans'[e].count
  <2>1. e \in Epochs
    BY <1>2, DeliveryAssumption DEF ChanTypes, Epochs
  <2> QED BY <2>1 DEF ChanTypes
<1>4. (e # live => e # live') /\ l <= m /\ l - n <= m - k
  <2>1. Oldest(chans[e]) = l - n + 1 /\ Oldest(chans'[e]) = m - k + 1
    BY <1>1, <1>3 DEF Oldest
  <2> QED BY <1>1, <1>2, <1>3, <2>1 DEF Onwards
<1>5. Reached(newest', chans', e, o)
  BY <1>2, <1>3, <1>4 DEF Reached
<1>6. CASE e # live'
  BY <1>5, <1>6 DEF Gone
<1>7. CASE e = live'
  <2>1. e = live
    BY <1>4, <1>7
  <2>2. PICK x \in (o + 1) .. l : x \notin (l - n + 1) .. l
    BY <1>1, <2>1 DEF Gone, Retained, Oldest
  <2>3. x \in (o + 1) .. m /\ x \notin (m - k + 1) .. m
    BY <1>1, <1>2, <1>3, <1>4, <2>2
  <2> QED BY <1>3, <1>5, <1>7, <2>3 DEF Gone, Retained, Oldest
<1> QED BY <1>5, <1>6, <1>7

\* A history that stays, or of which only the subscription changes.
LEMMA OnwardsSame ==
  ASSUME ChanTypes, live' = live,
         \A e \in 1 .. newest :
           chans'[e].last = chans[e].last /\ chans'[e].count = chans[e].count
  PROVE  Onwards
<1>1. \A e \in 1 .. newest : chans[e].last \in Nat /\ chans[e].count \in Nat
  BY DeliveryAssumption DEF ChanTypes, Epochs
<1> QED BY <1>1 DEF Onwards, Oldest

\* Publishes and expiries move history on; a reap ends an incarnation; a new one
\* gets a number of its own.
LEMMA OnwardsStep == ASSUME IInv, [Next]_vars PROVE Onwards
<1>1. \A e \in 1 .. newest : e \in Epochs /\ chans[e] \in [last : Nat, count : Nat, sub : BOOLEAN]
  BY DeliveryAssumption DEF IInv, Types, ChanTypes, Epochs
<1>2. CASE \E p \in Pubs : PubAppend(p)
  <2>1. PICK p \in Pubs : PubAppend(p)
    BY <1>2
  <2>2. PICK f \in 1 .. newest : f = pub[p].epoch
    BY <2>1 DEF IInv, Types, PubTypes, GoodPub, PubAppend
  <2>3. PICK l \in Nat, n \in Nat : l = chans[f].last /\ n = chans[f].count
    BY <1>1
  <2>4. PICK k \in Nat : k = SmallerOf(n + 1, HistCap) /\ k <= n + 1
    BY DeliveryAssumption DEF SmallerOf
  <2>5. live' = live /\ chans' = [chans EXCEPT ![f].last = l + 1, ![f].count = k]
    BY <2>1, <2>2, <2>3, <2>4 DEF PubAppend
  <2>6. /\ chans'[f].last = l + 1 /\ chans'[f].count = k
        /\ \A e \in 1 .. newest : e # f => chans'[e] = chans[e]
    BY <1>1, <2>5 DEF IInv, Types, ChanTypes
  <2>7. ASSUME NEW e \in 1 .. newest
        PROVE  chans[e].last <= chans'[e].last /\ Oldest(chans[e]) <= Oldest(chans'[e])
    <3>1. CASE e = f
      BY <2>3, <2>4, <2>6, <3>1 DEF Oldest
    <3>2. CASE e # f
      BY <1>1, <2>6, <3>2 DEF Oldest
    <3> QED BY <3>1, <3>2
  <2> QED BY <2>5, <2>7 DEF Onwards
<1>3. CASE Expire
  <2>1. PICK f \in 1 .. newest : f = live
    BY <1>3 DEF Expire, IInv, Types, ChanTypes
  <2>2. PICK l \in Nat, n \in Nat : l = chans[f].last /\ n = chans[f].count
    BY <1>1
  <2>3. PICK k \in 0 .. (n - 1) : chans' = [chans EXCEPT ![f].count = k]
    BY <1>3, <2>1, <2>2 DEF Expire
  <2>4. /\ live' = live /\ chans'[f].last = l /\ chans'[f].count = k
        /\ \A e \in 1 .. newest : e # f => chans'[e] = chans[e]
    BY <1>1, <1>3, <2>2, <2>3 DEF Expire, IInv, Types, ChanTypes
  <2>5. ASSUME NEW e \in 1 .. newest
        PROVE  chans[e].last <= chans'[e].last /\ Oldest(chans[e]) <= Oldest(chans'[e])
    <3>1. CASE e = f
      BY <2>2, <2>3, <2>4, <3>1 DEF Oldest
    <3>2. CASE e # f
      BY <1>1, <2>4, <3>2 DEF Oldest
    <3> QED BY <3>1, <3>2
  <2> QED BY <2>4, <2>5 DEF Onwards
<1>4. CASE Reap
  <2>1. live' = 0 /\ chans' = chans
    BY <1>4 DEF Reap
  <2> QED BY <1>1, <2>1 DEF Onwards, Oldest
<1>5. CASE SubEngine
  <2>1. PICK f : f = IF live = 0 THEN newest + 1 ELSE live
    OBVIOUS
  <2>2. live' = f /\ chans' = [chans EXCEPT ![f].sub = TRUE]
    BY <1>5, <2>1 DEF SubEngine
  <2>3. \A e \in 1 .. newest : e # live => e # live'
    BY <2>1, <2>2, DeliveryAssumption DEF IInv, Types, ChanTypes
  <2>4. \A e \in 1 .. newest :
          chans'[e].last = chans[e].last /\ chans'[e].count = chans[e].count
    BY <1>1, <2>2 DEF IInv, Types, ChanTypes
  <2> QED BY <1>1, <2>3, <2>4 DEF Onwards, Oldest
<1>6. CASE UnsubEngine \/ SessionJoin
  <2>1. live' = live /\ live \in Epochs \union {0}
    BY <1>6, LiveRange DEF UnsubEngine, SessionJoin, IInv, Types
  <2>2. \/ chans' = [chans EXCEPT ![live].sub = FALSE]
        \/ chans' = [e \in Epochs |-> [chans[e] EXCEPT !.sub = FALSE]]
    BY <1>6 DEF UnsubEngine, SessionJoin
  <2>3. \A e \in 1 .. newest :
          chans'[e].last = chans[e].last /\ chans'[e].count = chans[e].count
    <3>1. CASE chans' = [chans EXCEPT ![live].sub = FALSE]
      BY <1>1, <3>1 DEF IInv, Types, ChanTypes
    <3>2. CASE chans' = [e \in Epochs |-> [chans[e] EXCEPT !.sub = FALSE]]
      BY <1>1, <3>2
    <3> QED BY <2>2, <3>1, <3>2
  <2> QED BY <2>1, <2>3, OnwardsSame DEF IInv, Types
<1>7. CASE live' = live /\ chans' = chans
  BY <1>7, OnwardsSame DEF IInv, Types
<1>8. \/ live' = live /\ chans' = chans
      \/ \E p \in Pubs : PubAppend(p)
      \/ Expire \/ Reap \/ SubEngine \/ UnsubEngine \/ SessionJoin
  BY DEF Next, vars, PubStep, PubAcquire, PubFan, PubGate, PubDeliver, SubInstall, DispatchConfirm,
         DispatchStep, SubRefused, SubRecover, SubReplay, UnsubWindow, SweepTick, TickStart, TickCheck,
         PumpStep, PumpStart, PumpFetch, PumpReset, PumpAdmit, Age, SessionStop, SweeperStop, SweeperExit,
         ClientRecv, ClientConfirm, engineVars
<1> QED BY <1>2, <1>3, <1>4, <1>5, <1>6, <1>7, <1>8

\* Only a fetch sends a thread to reset its window.
LEMMA RefusedByFetch ==
  ASSUME IInv, [Next]_vars, NEW t \in Threads, th'[t].pc = "reset"
  PROVE  th'[t] = th[t] \/ PumpFetch(t)
<1>1. PICK s \in ThreadRecs, d \in ThreadRecs, k \in ThreadRecs :
        s = th[t] /\ d = th["dispatch"] /\ k = th["tick"]
  BY DEF IInv, Types, ThreadTypes, Threads
<1>2. \A q \in Threads : \A r : th' = [th EXCEPT ![q] = r] => th'[t] = r \/ th'[t] = th[t]
  BY DEF IInv, Types, ThreadTypes
<1>3. "dispatch" \in Threads /\ "tick" \in Threads
  BY DEF Threads
<1>4. IdleThread.pc # "reset" /\ \A pc, win : [IdleThread EXCEPT !.pc = pc, !.win = win].pc = pc
  BY DEF IdleThread
<1>5. \A x \in ThreadRecs : \A pc : [x EXCEPT !.pc = pc].pc = pc
  BY DEF ThreadRecs
<1>6. \A x \in ThreadRecs : \A b : [x EXCEPT !.batch = b].pc = x.pc
  BY DEF ThreadRecs
<1>7. CASE \E q \in Threads : PumpStep(q)
  <2>1. PICK q \in Threads : PumpStep(q)
    BY <1>7
  <2>2. CASE q # t
    BY <2>1, <2>2
    DEF PumpStep, PumpStart, PumpFetch, PumpReset, PumpAdmit, IInv, Types, ThreadTypes
  <2>3. CASE q = t /\ PumpStart(t)
    BY <1>1, <1>4, <2>3 DEF PumpStart, IInv, Types, ThreadTypes, ThreadRecs
  <2>4. CASE q = t /\ PumpReset(t)
    BY <1>4, <2>4 DEF PumpReset, IInv, Types, ThreadTypes
  <2>5. CASE q = t /\ PumpAdmit(t)
    BY <1>1, <1>4, <1>6, <2>5 DEF PumpAdmit, At, IInv, Types, ThreadTypes
  <2> QED BY <2>1, <2>2, <2>3, <2>4, <2>5 DEF PumpStep
<1>8. CASE SweepTick
  BY <1>1, <1>2, <1>3, <1>5, <1>8 DEF SweepTick
<1>9. CASE TickStart
  <2>1. PICK r : th' = [th EXCEPT !["tick"] = r] /\ r.pc # "reset"
    BY <1>4, <1>9 DEF TickStart
  <2> QED BY <1>2, <1>3, <2>1
<1>10. CASE TickCheck
  BY <1>1, <1>2, <1>3, <1>5, <1>10 DEF TickCheck
<1>11. CASE SubInstall
  <2>1. PICK r : th' = [th EXCEPT !["dispatch"] = r] /\ r.pc # "reset"
    <3>1. PICK w : w = IF cur = 0 THEN Len(wins) + 1 ELSE 0
      OBVIOUS
    <3>2. PICK x : x = [IdleThread EXCEPT !.pc = "subscribe", !.win = w]
      OBVIOUS
    <3>3. x.pc = "subscribe" /\ \A o, e : [x EXCEPT !.from = o, !.epoch = e].pc = "subscribe"
      BY <3>2 DEF IdleThread
    <3>4. \/ th' = [th EXCEPT !["dispatch"] = x]
          \/ \E p \in RecoverPoints :
               th' = [th EXCEPT !["dispatch"] = [x EXCEPT !.from = p.offset, !.epoch = p.epoch]]
      BY <1>11, <3>1, <3>2 DEF SubInstall
    <3>5. CASE th' = [th EXCEPT !["dispatch"] = x]
      BY <3>3, <3>5
    <3>6. ASSUME NEW p \in RecoverPoints,
                 th' = [th EXCEPT !["dispatch"] = [x EXCEPT !.from = p.offset, !.epoch = p.epoch]]
          PROVE  \E r : th' = [th EXCEPT !["dispatch"] = r] /\ r.pc # "reset"
      <4>1. PICK r : r = [x EXCEPT !.from = p.offset, !.epoch = p.epoch]
        OBVIOUS
      <4>2. r.pc = "subscribe"
        BY <3>3, <4>1
      <4> QED BY <3>6, <4>1, <4>2
    <3> QED BY <3>4, <3>5, <3>6
  <2> QED BY <1>2, <1>3, <2>1
<1>12. CASE UnsubEngine \/ SessionStop \/ SessionJoin
  <2>1. PICK pc : pc # "reset" /\ th' = [th EXCEPT !["dispatch"].pc = pc]
    BY <1>12 DEF UnsubEngine, SessionStop, SessionJoin
  <2>2. PICK r : r = [d EXCEPT !.pc = pc]
    OBVIOUS
  <2>3. th' = [th EXCEPT !["dispatch"] = r]
    BY <1>1, <2>1, <2>2
  <2>4. r.pc # "reset"
    BY <1>5, <2>1, <2>2
  <2> QED BY <1>2, <1>3, <2>3, <2>4
<1>13. CASE DispatchConfirm
  <2>1. CASE cur = 0
    BY <1>13, <2>1 DEF DispatchConfirm
  <2>2. CASE cur # 0
    <3>1. PICK r : r = [IdleThread EXCEPT !.pc = "point", !.win = cur]
      OBVIOUS
    <3>2. r.pc = "point"
      BY <1>4, <3>1
    <3>3. th' = [th EXCEPT !["dispatch"] = r]
      BY <1>13, <2>2, <3>1 DEF DispatchConfirm
    <3> QED BY <1>2, <1>3, <3>2, <3>3
  <2> QED BY <2>1, <2>2
<1>14. CASE SubEngine
  <2>1. PICK r : r = [d EXCEPT !.pc = "replay"]
    OBVIOUS
  <2>2. r.pc = "replay"
    BY <1>5, <2>1
  <2>3. th' = [th EXCEPT !["dispatch"] = r] \/ th' = [th EXCEPT !["dispatch"] = IdleThread]
    BY <1>1, <1>14, <2>1 DEF SubEngine
  <2> QED BY <1>2, <1>3, <1>4, <2>2, <2>3
<1>15. CASE SubRecover
  <2>1. PICK b : b = RecoverItems(d.from, 0)
    OBVIOUS
  <2>2. PICK r : r = [d EXCEPT !.pc = "deliver", !.batch = b]
    OBVIOUS
  <2>3. r.pc = "deliver"
    BY <2>2 DEF ThreadRecs
  <2>4. th' = [th EXCEPT !["dispatch"] = r] \/ th' = [th EXCEPT !["dispatch"] = IdleThread]
    BY <1>1, <1>15, <2>1, <2>2 DEF SubRecover
  <2> QED BY <1>2, <1>3, <1>4, <2>3, <2>4
<1>16. CASE SubReplay
  <2>1. PICK b : b = Tail(d.batch)
    OBVIOUS
  <2>2. PICK r : r = [d EXCEPT !.batch = b]
    OBVIOUS
  <2>3. r.pc = "deliver"
    BY <1>1, <1>6, <1>16, <2>2 DEF SubReplay, At
  <2>4. th' = [th EXCEPT !["dispatch"] = r] \/ th' = [th EXCEPT !["dispatch"] = IdleThread]
    BY <1>1, <1>16, <2>1, <2>2 DEF SubReplay
  <2> QED BY <1>2, <1>3, <1>4, <2>3, <2>4
<1>17. CASE SubRefused \/ UnsubWindow
  BY <1>2, <1>3, <1>4, <1>17 DEF SubRefused, UnsubWindow
<1>18. CASE UNCHANGED th
  BY <1>18
<1>19. \/ UNCHANGED th \/ \E q \in Threads : PumpStep(q)
       \/ SweepTick \/ TickStart \/ TickCheck \/ SubInstall \/ UnsubEngine \/ DispatchConfirm
       \/ DispatchStep \/ SessionStop \/ SessionJoin
  BY DEF Next, vars, PubStep, PubAcquire, PubAppend, PubFan, PubGate, PubDeliver, Age, Expire, Reap,
         SweeperStop, SweeperExit, ClientRecv, ClientConfirm
<1> QED
  BY <1>7, <1>8, <1>9, <1>10, <1>11, <1>12, <1>13, <1>14, <1>15, <1>16, <1>17, <1>18, <1>19
  DEF DispatchStep

\* A refused fetch saves a range that is gone; it is gone until the reset.
LEMMA RefusedStep == ASSUME IInv, IInv', Refused, [Next]_vars PROVE Refused'
<1>1. Onwards /\ newest <= newest' /\ ChanTypes /\ ChanTypes'
  <2>1. newest \in Nat
    BY DEF IInv, Types, ChanTypes
  <2>2. newest' = newest \/ newest' = newest + 1
    BY DEF Next, vars, PubStep, PubAcquire, PubAppend, PubFan, PubGate, PubDeliver, SubInstall,
           UnsubEngine, DispatchConfirm, DispatchStep, SubEngine, SubRefused, SubRecover, SubReplay,
           UnsubWindow, SweepTick, TickStart, TickCheck, PumpStep, PumpStart, PumpFetch, PumpReset,
           PumpAdmit, Age, Expire, Reap, SessionStop, SessionJoin, SweeperStop, SweeperExit,
           ClientRecv, ClientConfirm, engineVars
  <2> QED BY <2>1, <2>2, OnwardsStep DEF IInv, Types
<1>2. SUFFICES ASSUME NEW t \in Threads, th'[t].pc = "reset"
               PROVE  /\ Reached(newest', chans', th'[t].epoch, th'[t].from)
                      /\ Gone(th[t].from, th[t].epoch)'
  BY DEF Refused, At
<1>3. PICK o, e : o = th[t].from /\ e = th[t].epoch
  OBVIOUS
<1>4. CASE th'[t] = th[t]
  <2>1. Reached(newest, chans, e, o) /\ Gone(o, e)
    BY <1>2, <1>3, <1>4 DEF Refused, At
  <2>2. Reached(newest', chans', e, o) /\ Gone(o, e)'
    BY <1>1, <2>1, GoneStays
  <2> QED BY <1>3, <1>4, <2>2 DEF Gone, Retained
<1>5. CASE PumpFetch(t)
  <2>1. PICK s \in ThreadRecs : s = th[t] /\ s.pc = "fetch" /\ GoodThread(s, newest, chans, Len(wins))
    BY <1>5 DEF IInv, Types, ThreadTypes, PumpFetch, At
  <2>2. Reached(newest, chans, e, o)
    BY <1>3, <2>1 DEF GoodThread
  <2>3. PICK b : b = RecoverItems(o, s.room)
    OBVIOUS
  <2>4. PICK r : /\ th' = [th EXCEPT ![t] = r]
                 /\ \/ r = IdleThread
                    \/ r = [s EXCEPT !.pc = "admit", !.batch = b]
                    \/ ~RecoverOk(o, e) /\ r = [s EXCEPT !.pc = "reset"]
    BY <1>3, <1>5, <2>1, <2>3 DEF PumpFetch
  <2>5. th'[t] = r /\ ~RecoverOk(o, e) /\ r = [s EXCEPT !.pc = "reset"]
    <3>1. th'[t] = r
      BY <2>4 DEF IInv, Types, ThreadTypes
    <3>2. r # IdleThread
      BY <1>2, <3>1 DEF IdleThread
    <3>3. r # [s EXCEPT !.pc = "admit", !.batch = b]
      <4>1. [s EXCEPT !.pc = "admit", !.batch = b].pc = "admit"
        BY DEF ThreadRecs
      <4> QED BY <1>2, <3>1, <4>1
    <3> QED BY <2>4, <3>1, <3>2, <3>3
  <2>6. th'[t].from = o /\ th'[t].epoch = e
    BY <1>3, <2>1, <2>5 DEF ThreadRecs
  <2>7. Gone(o, e)
    BY <1>1, <2>2, <2>5, UnservedIsGone
  <2>8. Reached(newest', chans', e, o) /\ Gone(o, e)'
    BY <1>1, <2>2, <2>7, GoneStays
  <2> QED BY <2>6, <2>8 DEF Gone, Retained
<1> QED BY <1>2, <1>4, <1>5, RefusedByFetch

\* A range that a pump gives up as lost is gone, from the failed recovery until
\* the reset, whatever publishers, sweeps, reaps, requests and the other pump do
\* meanwhile and however old the pump's snapshot of the window was: for every
\* history size, batch size, credit and number of publishers, windows and channel
\* incarnations (consumer.go pump, history.go replayN, engine.go RecoverN).
THEOREM LostRangeIsGoneHolds == Spec => []LostRangeIsGone
<1>1. Init => Refused
  BY DEF Init, Refused, At, IdleThread
<1>2. IInv /\ IInv' /\ Refused /\ [Next]_vars => Refused'
  BY RefusedStep
<1>3. Refused => LostRangeIsGone
  BY DEF Refused, LostRangeIsGone
<1> QED BY <1>1, <1>2, <1>3, DeliveryInvariant, PTL DEF Spec

-----------------------------------------------------------------------------
\* What a subscriber that brings a recover point gets from one incarnation of
\* its channel.

Item(k) == [epoch |-> 1, offset |-> k]

\* S has every publication up to offset o.
Covers(S, o) == \A k \in 1 .. o : Item(k) \in S

\* Received by the client or given up; handed over or given up.
Held   == seen \union given
Handed == Sent \union given

\* Only publications of the one incarnation are sent and fanned out.
OneStream == \A d \in Sent \union owed : \E k \in Nat \ {0} : d = Item(k)

\* No window, current or replaced, is past a publication that was neither
\* handed to the transport nor given up.
Caught ==
  ~lost => \A i \in 1 .. Len(wins) : wins[i].baselined /\ Covers(Handed, wins[i].delivered)

Delivery == OneStream /\ Caught /\ DupMeansDelivered

\* The stream in the order of the send ring: whatever the client has, and
\* whatever is on its way, comes after all that precedes it, and a confirm
\* covers only what was received.
InOrder ==
  ~lost => /\ \A k \in Nat \ {0} : Item(k) \in seen => Covers(Held, k)
           /\ \A q \in 1 .. Len(queue) :
                Covers(Held \union { queue[j] : j \in 1 .. q }, queue[q].offset)
           /\ \A i \in 1 .. Len(wins) : Covers(Held, wins[i].confirmed)
           /\ Covers(Held, ack)

\* No publisher is past the gate without a window.
Gated == \A p \in Pubs : pub[p].pc = "deliver" => pub[p].win # 0

LEMMA CoversLess ==
  ASSUME NEW S, NEW T, S \subseteq T, NEW n \in Nat, NEW o \in Nat, o <= n, Covers(S, n)
  PROVE  Covers(T, o)
  BY DEF Covers

LEMMA CoversNext ==
  ASSUME NEW S, NEW n \in Nat, Covers(S, n), Item(n + 1) \in S
  PROVE  Covers(S, n + 1)
<1> SUFFICES ASSUME NEW k \in 1 .. n + 1 PROVE Item(k) \in S
  BY DEF Covers
<1>1. k \in 1 .. n \/ k = n + 1
  OBVIOUS
<1> QED BY <1>1 DEF Covers

LEMMA ItemsAreDistinct ==
  ASSUME NEW k, NEW l, Item(k) = Item(l) PROVE k = l
<1>1. Item(k).offset = k /\ Item(l).offset = l
  BY DEF Item
<1> QED BY <1>1

\* With one incarnation whatever is reached belongs to it.
LEMMA ReachedIsItem ==
  ASSUME IInv, MaxEpoch = 1, NEW d \in Items, d.offset >= 1,
         Reached(newest, chans, d.epoch, d.offset)
  PROVE  d.offset \in Nat \ {0} /\ d = Item(d.offset)
<1>1. d = [epoch |-> d.epoch, offset |-> d.offset] /\ d.offset \in Nat /\ d.epoch \in Nat
  BY DEF Items
<1>2. d.epoch = 1
  BY <1>1 DEF Reached, IInv, Types, ChanTypes
<1> QED BY <1>1, <1>2 DEF Item

\* A window that is pinned is pinned to it.
LEMMA PinnedToOne ==
  ASSUME IInv, MaxEpoch = 1, NEW i \in 1 .. Len(wins)
  PROVE  /\ Sane(wins[i]) /\ wins[i].delivered \in Nat /\ wins[i].confirmed \in Nat
         /\ wins[i].confirmed <= wins[i].delivered
         /\ wins[i].baselined => wins[i].epoch = 1
<1>1. PICK x : x = wins[i] /\ Follows(x, newest, chans)
  BY DEF IInv, Types, WindowTypes
<1>2. Sane(x) /\ x.delivered \in Nat /\ x.confirmed \in Nat /\ x.confirmed <= x.delivered
  BY <1>1, SaneFields DEF Follows
<1>3. x.baselined => x.epoch \in 1 .. newest
  BY <1>1 DEF Follows, Reached
<1>4. newest \in 0 .. 1
  BY DEF IInv, Types, ChanTypes
<1> QED BY <1>1, <1>2, <1>3, <1>4

LEMMA SentIs ==
  ASSUME ClientTypes
  PROVE  Sent = seen \union { queue[j] : j \in 1 .. Len(queue) }
<1>1. DOMAIN queue = 1 .. Len(queue)
  BY DEF ClientTypes
<1> QED BY <1>1 DEF Sent, ToSet

-----------------------------------------------------------------------------
\* The window's operations on its two cursors.

LEMMA AdmitCursor ==
  ASSUME NEW x, Sane(x), x.baselined, x.epoch = 1, NEW o \in Nat \ {0}, NEW accepts
  PROVE LET r == Admit(x, o, 1, 1, accepts)
        IN  /\ r.window.baselined /\ r.window.confirmed = x.confirmed
            /\ r.verdict = "Dup" => o <= x.delivered
            /\ \/ r.verdict = "Admitted" /\ o = x.delivered + 1 /\ r.window.delivered = o
               \/ r.verdict # "Admitted" /\ r.window.delivered = x.delivered
<1> DEFINE v == Verdict(x, o, 1, accepts)
           r == Admit(x, o, 1, 1, accepts)
<1>1. Rebase(x, o, 1) = x
  BY DEF Rebase
<1>2. r = [verdict |-> v, window |-> IF v = "Admitted" THEN Commit(x, o, 1) ELSE x]
  BY <1>1 DEF Admit
<1>3. x.delivered \in Nat
  BY SaneFields
<1>4. v = "Dup" => o <= x.delivered
  BY <1>3 DEF Verdict
<1>5. v = "Admitted" => o = x.delivered + 1
  BY <1>3 DEF Verdict
<1> HIDE DEF v
<1>6. r.verdict = v /\ r.window = IF v = "Admitted" THEN Commit(x, o, 1) ELSE x
  BY <1>2
<1> HIDE DEF r
<1>7. CASE v = "Admitted"
  <2>1. PICK y : y = Commit(x, o, 1)
    OBVIOUS
  <2>2. y.confirmed = x.confirmed /\ y.delivered = o /\ y.baselined = x.baselined
    BY <2>1 DEF Commit, Sane, Windows
  <2>3. r.window = y
    BY <1>6, <1>7, <2>1
  <2> QED BY <1>5, <1>6, <1>7, <2>2, <2>3 DEF r
<1>8. CASE v # "Admitted"
  BY <1>4, <1>6, <1>8 DEF r
<1> QED BY <1>7, <1>8

\* A confirm moves the confirmed cursor no further than it says.
LEMMA ConfirmCursor ==
  ASSUME NEW x, Sane(x), NEW o \in Nat
  PROVE  Confirm(x, o).confirmed = x.confirmed \/ Confirm(x, o).confirmed <= o
<1>1. x.confirmed \in Nat /\ x.delivered \in Nat
  BY SaneFields
<1>2. PICK upTo \in Nat : upTo = (IF o > x.delivered THEN x.delivered ELSE o) /\ upTo <= o
  BY <1>1
<1>3. CASE upTo <= x.confirmed
  BY <1>2, <1>3 DEF Confirm
<1>4. CASE ~(upTo <= x.confirmed)
  <2>1. PICK b, s, a : Confirm(x, o) = [x EXCEPT !.confirmed = upTo, !.inflight = s,
                                              !.inflightBytes = b, !.aged = a]
    BY <1>2, <1>4 DEF Confirm
  <2>2. Confirm(x, o).confirmed = upTo
    BY <2>1 DEF Sane, Windows
  <2> QED BY <1>2, <2>2
<1> QED BY <1>3, <1>4

\* A redelivery check confirms at most the message it gives up.
LEMMA CheckCursor ==
  ASSUME NEW x, Sane(x)
  PROVE  \/ CheckRedelivery(x).confirmed = x.confirmed
         \/ /\ Poisoned(x) # 0 /\ Poisoned(x) = x.confirmed + 1
            /\ CheckRedelivery(x).confirmed = x.confirmed + 1 /\ x.baselined
<1>1. /\ x.confirmed \in Nat /\ x.inflight \in Seq(Entry) /\ Len(x.inflight) \in Nat
      /\ \A i \in 1 .. Len(x.inflight) : x.inflight[i].offset = x.confirmed + i
      /\ ~x.baselined => x.inflight = <<>>
  BY SaneFields DEF Sane
<1>2. CASE ~RedeliveryDue(x)
  BY <1>2 DEF CheckRedelivery
<1>3. CASE RedeliveryDue(x)
  <2>1. x.inflight # <<>>
    BY <1>3 DEF RedeliveryDue
  <2>2. Len(x.inflight) >= 1 /\ x.inflight[1].offset = x.confirmed + 1 /\ x.baselined
    BY <1>1, <2>1
  <2>3. PICK floor : floor = IF Poisoned(x) # 0 THEN x.inflight[1].offset ELSE x.confirmed
    OBVIOUS
  <2>4. PICK a, ao : CheckRedelivery(x) =
          [x EXCEPT !.attempts = a, !.attemptsOffset = ao, !.confirmed = floor,
                    !.delivered = floor, !.inflight = <<>>, !.inflightBytes = 0, !.aged = FALSE]
    BY <1>3, <2>3 DEF CheckRedelivery
  <2>5. CheckRedelivery(x).confirmed = floor
    BY <2>4 DEF Sane, Windows
  <2>6. Poisoned(x) # 0 => Poisoned(x) = x.inflight[1].offset
    BY DEF Poisoned
  <2> QED BY <2>2, <2>3, <2>5, <2>6
<1> QED BY <1>2, <1>3

-----------------------------------------------------------------------------
\* What the steps keep of the stream.

\* Steps of the engine, the sweeper and the requests that touch neither the
\* windows nor the stream.
LEMMA StreamUntouched ==
  ASSUME UNCHANGED <<wins, queue, seen, given, ack, lost, silent, owed>>
  PROVE  (Delivery => Delivery') /\ (InOrder => InOrder')
<1>1. Sent' = Sent /\ Held' = Held /\ Handed' = Handed
  BY DEF Sent, Held, Handed
<1>2. OneStream => OneStream'
  BY <1>1 DEF OneStream
<1>3. Caught => Caught'
  BY <1>1 DEF Caught
<1>4. DupMeansDelivered => DupMeansDelivered'
  BY DEF DupMeansDelivered
<1>5. InOrder => InOrder'
  BY <1>1 DEF InOrder
<1> QED BY <1>2, <1>3, <1>4, <1>5 DEF Delivery

LEMMA CaughtFrame ==
  ASSUME IInv, MaxEpoch = 1, Caught, lost' = lost, Handed \subseteq Handed',
         \A i \in 1 .. Len(wins') :
           \/ /\ i \in 1 .. Len(wins) /\ (wins[i].baselined => wins'[i].baselined)
              /\ wins'[i].delivered \in Nat /\ wins'[i].delivered <= wins[i].delivered
           \/ ~lost => wins'[i].baselined /\ Covers(Handed', wins'[i].delivered)
  PROVE  Caught'
<1> SUFFICES ASSUME ~lost, NEW i \in 1 .. Len(wins')
             PROVE  wins'[i].baselined /\ Covers(Handed', wins'[i].delivered)
  BY DEF Caught
<1>1. CASE /\ i \in 1 .. Len(wins) /\ (wins[i].baselined => wins'[i].baselined)
           /\ wins'[i].delivered \in Nat /\ wins'[i].delivered <= wins[i].delivered
  <2>1. wins[i].baselined /\ Covers(Handed, wins[i].delivered)
    BY <1>1 DEF Caught
  <2>2. wins[i].delivered \in Nat
    BY <1>1, PinnedToOne
  <2> QED BY <1>1, <2>1, <2>2, CoversLess
<1> QED BY <1>1

\* The four parts of InOrder.
SeenInOrder   == \A k \in Nat \ {0} : Item(k) \in seen => Covers(Held, k)
QueueInOrder  == \A q \in 1 .. Len(queue) :
                   Covers(Held \union { queue[j] : j \in 1 .. q }, queue[q].offset)
ConfirmedHeld == \A i \in 1 .. Len(wins) : Covers(Held, wins[i].confirmed)
AckHeld       == Covers(Held, ack)

LEMMA InOrderParts == InOrder <=> (~lost => SeenInOrder /\ QueueInOrder /\ ConfirmedHeld /\ AckHeld)
  BY DEF InOrder, SeenInOrder, QueueInOrder, ConfirmedHeld, AckHeld

LEMMA CoversMore ==
  ASSUME NEW S, NEW T, S \subseteq T, NEW o, Covers(S, o) PROVE Covers(T, o)
  BY DEF Covers

\* The client holds more, and the same is on its way.
LEMMA HeldGrows ==
  ASSUME Held \subseteq Held'
  PROVE  /\ (QueueInOrder /\ queue' = queue) => QueueInOrder'
         /\ (AckHeld /\ ack' = ack) => AckHeld'
         /\ (SeenInOrder /\ seen' = seen) => SeenInOrder'
<1>1. ASSUME QueueInOrder, queue' = queue PROVE QueueInOrder'
  <2> SUFFICES ASSUME NEW q \in 1 .. Len(queue)
               PROVE  Covers(Held' \union { queue[j] : j \in 1 .. q }, queue[q].offset)
    BY <1>1 DEF QueueInOrder
  <2>1. Covers(Held \union { queue[j] : j \in 1 .. q }, queue[q].offset)
    BY <1>1 DEF QueueInOrder
  <2>2. Held \union { queue[j] : j \in 1 .. q } \subseteq Held' \union { queue[j] : j \in 1 .. q }
    OBVIOUS
  <2> QED BY <2>1, <2>2, CoversMore
<1>2. ASSUME AckHeld, ack' = ack PROVE AckHeld'
  BY <1>2, CoversMore DEF AckHeld
<1>3. ASSUME SeenInOrder, seen' = seen PROVE SeenInOrder'
  BY <1>3, CoversMore DEF SeenInOrder
<1> QED BY <1>1, <1>2, <1>3

LEMMA ConfirmedFrame ==
  ASSUME IInv, MaxEpoch = 1, ConfirmedHeld, Held \subseteq Held',
         \A i \in 1 .. Len(wins') :
           \/ i \in 1 .. Len(wins) /\ wins'[i].confirmed = wins[i].confirmed
           \/ Covers(Held', wins'[i].confirmed)
  PROVE  ConfirmedHeld'
<1> SUFFICES ASSUME NEW i \in 1 .. Len(wins') PROVE Covers(Held', wins'[i].confirmed)
  BY DEF ConfirmedHeld
<1>1. CASE i \in 1 .. Len(wins) /\ wins'[i].confirmed = wins[i].confirmed
  <2>1. Covers(Held, wins[i].confirmed)
    BY <1>1 DEF ConfirmedHeld
  <2> QED BY <1>1, <2>1, CoversMore
<1> QED BY <1>1

\* One more message on its way.
LEMMA QueueGrows ==
  ASSUME ClientTypes, ClientTypes', NEW k \in Nat \ {0}, queue' = Append(queue, Item(k)), seen' = seen
  PROVE  /\ Sent' = Sent \union {Item(k)}
         /\ Len(queue) \in Nat /\ Len(queue') = Len(queue) + 1
         /\ queue'[Len(queue) + 1] = Item(k)
         /\ \A j \in 1 .. Len(queue) : queue'[j] = queue[j]
<1>1. PICK d \in Items : d = Item(k)
  BY DEF Items, Item
<1>2. PICK s \in Seq(Items) : s = queue
  BY DEF ClientTypes
<1>3. /\ Len(s) \in Nat /\ Len(Append(s, d)) = Len(s) + 1
      /\ Append(s, d)[Len(s) + 1] = d
      /\ \A j \in 1 .. Len(s) : Append(s, d)[j] = s[j]
  BY AppendProperties
<1>4. PICK z : z = queue'
  OBVIOUS
<1>5. /\ Len(s) \in Nat /\ Len(z) = Len(s) + 1 /\ z[Len(s) + 1] = d
      /\ \A j \in 1 .. Len(s) : z[j] = s[j]
  BY <1>1, <1>2, <1>3, <1>4
<1>6. { z[j] : j \in 1 .. Len(z) } = { s[j] : j \in 1 .. Len(s) } \union {d}
  <2>1. \A j \in 1 .. Len(z) : j \in 1 .. Len(s) \/ j = Len(s) + 1
    BY <1>5
  <2>2. Len(s) + 1 \in 1 .. Len(z) /\ \A j \in 1 .. Len(s) : j \in 1 .. Len(z)
    BY <1>5
  <2> QED BY <1>5, <2>1, <2>2
<1>7. Sent = seen \union { s[j] : j \in 1 .. Len(s) }
  BY <1>2, SentIs
<1>8. Sent' = seen \union { z[j] : j \in 1 .. Len(z) }
  <2>1. Sent' = seen' \union { queue'[j] : j \in 1 .. Len(queue') }
    <3>1. DOMAIN queue' = 1 .. Len(queue')
      BY DEF ClientTypes
    <3> QED BY <3>1 DEF Sent, ToSet
  <2> QED BY <1>4, <2>1
<1> QED BY <1>1, <1>2, <1>4, <1>5, <1>6, <1>7, <1>8

\* One window is replaced.
LEMMA WindowsExcept ==
  ASSUME IInv, NEW i \in 1 .. Len(wins), NEW y, wins' = [wins EXCEPT ![i] = y]
  PROVE  Len(wins') = Len(wins) /\ \A j \in 1 .. Len(wins') : wins'[j] = IF j = i THEN y ELSE wins[j]
<1>1. PICK S : wins \in Seq(S)
  BY DEF IInv, Types, WindowTypes
<1>2. PICK s \in Seq(S \union {y}) : s = wins
  BY <1>1
<1>3. Len([s EXCEPT ![i] = y]) = Len(s)
  BY <1>2, ExceptSeq
<1>4. DOMAIN wins = 1 .. Len(wins)
  BY <1>1
<1> QED BY <1>2, <1>3, <1>4

\* An admission, on whichever path.
LEMMA AdmitKeepsStream ==
  ASSUME IInv, IInv', MaxEpoch = 1, Delivery, NEW i \in 1 .. Len(wins), NEW k \in Nat \ {0},
         AdmitThrough(i, Item(k)), UNCHANGED <<seen, given, owed, lost, ack>>
  PROVE  Delivery' /\ (InOrder => InOrder')
<1>1. PICK x : /\ x = wins[i] /\ Sane(x) /\ x.delivered \in Nat
               /\ (x.baselined => x.epoch = 1)
  BY PinnedToOne
<1>2. PICK a : a = Accepts
  OBVIOUS
<1>3. PICK r : r = Admit(x, k, 1, 1, a)
  OBVIOUS
<1>4. /\ wins' = [wins EXCEPT ![i] = r.window]
      /\ IF r.verdict = "Admitted" THEN queue' = Append(queue, Item(k)) ELSE queue' = queue
      /\ silent' = (silent \/ (r.verdict = "Dup" /\ Item(k) \in owed \ (Sent \union given)))
  BY <1>1, <1>2, <1>3 DEF AdmitThrough, Enqueue, Item
<1>5. Len(wins') = Len(wins) /\ \A j \in 1 .. Len(wins') : wins'[j] = IF j = i THEN r.window ELSE wins[j]
  BY <1>4, WindowsExcept
<1>6. ClientTypes /\ ClientTypes'
  BY DEF IInv, Types
<1>7. CASE r.verdict = "Admitted"
  <2>1. /\ Sent' = Sent \union {Item(k)}
        /\ Len(queue) \in Nat /\ Len(queue') = Len(queue) + 1
        /\ queue'[Len(queue) + 1] = Item(k)
        /\ \A j \in 1 .. Len(queue) : queue'[j] = queue[j]
    BY <1>4, <1>6, <1>7, QueueGrows
  <2>2. OneStream'
    BY <2>1 DEF Delivery, OneStream
  <2>3. Handed' = Handed \union {Item(k)} /\ Held' = Held
    BY <2>1 DEF Handed, Held
  <2>4. silent' => silent
    BY <1>4, <1>7
  <2>5. DupMeansDelivered'
    BY <2>4 DEF Delivery, DupMeansDelivered
  <2>6. ASSUME ~lost
        PROVE  /\ k = x.delivered + 1 /\ r.window.delivered = k /\ r.window.baselined
               /\ Covers(Handed, x.delivered) /\ r.window.confirmed = x.confirmed
    <3>1. x.baselined /\ Covers(Handed, x.delivered)
      BY <1>1, <2>6 DEF Delivery, Caught
    <3> QED BY <1>1, <1>3, <1>7, <3>1, AdmitCursor
  <2>7. Caught'
    <3>1. ASSUME ~lost PROVE r.window.baselined /\ Covers(Handed', r.window.delivered)
      <4>1. k = x.delivered + 1 /\ r.window.delivered = k /\ r.window.baselined /\ Covers(Handed, x.delivered)
        BY <2>6, <3>1
      <4>2. Covers(Handed', x.delivered) /\ Item(x.delivered + 1) \in Handed'
        BY <2>3, <4>1, CoversMore
      <4>3. Covers(Handed', x.delivered + 1)
        BY <1>1, <4>2, CoversNext
      <4> QED BY <4>1, <4>3
    <3>2. \A j \in 1 .. Len(wins') :
           \/ /\ j \in 1 .. Len(wins) /\ (wins[j].baselined => wins'[j].baselined)
              /\ wins'[j].delivered \in Nat /\ wins'[j].delivered <= wins[j].delivered
           \/ ~lost => wins'[j].baselined /\ Covers(Handed', wins'[j].delivered)
      <4> SUFFICES ASSUME NEW j \in 1 .. Len(wins')
                   PROVE  \/ /\ j \in 1 .. Len(wins) /\ (wins[j].baselined => wins'[j].baselined)
                             /\ wins'[j].delivered \in Nat /\ wins'[j].delivered <= wins[j].delivered
                          \/ ~lost => wins'[j].baselined /\ Covers(Handed', wins'[j].delivered)
        OBVIOUS
      <4>1. CASE j = i
        BY <1>5, <3>1, <4>1
      <4>2. CASE j # i
        <5>1. wins'[j] = wins[j] /\ j \in 1 .. Len(wins)
          BY <1>5, <4>2
        <5>2. wins[j].delivered \in Nat
          BY <5>1, PinnedToOne
        <5> QED BY <5>1, <5>2
      <4> QED BY <4>1, <4>2
    <3>3. Handed \subseteq Handed' /\ Caught
      BY <2>3 DEF Delivery
    <3> QED BY <3>2, <3>3, CaughtFrame
  <2>8. ASSUME InOrder, ~lost PROVE SeenInOrder' /\ QueueInOrder' /\ ConfirmedHeld' /\ AckHeld'
    <3>1. SeenInOrder /\ QueueInOrder /\ ConfirmedHeld /\ AckHeld
      BY <2>8, InOrderParts
    <3>2. SeenInOrder' /\ AckHeld'
      BY <2>3, <3>1, HeldGrows
    <3>3. ConfirmedHeld'
      <4>1. \A j \in 1 .. Len(wins') : j \in 1 .. Len(wins) /\ wins'[j].confirmed = wins[j].confirmed
        BY <1>1, <1>5, <2>6, <2>8
      <4> QED BY <2>3, <3>1, <4>1, ConfirmedFrame
    <3>4. QueueInOrder'
      <4> SUFFICES ASSUME NEW q \in 1 .. Len(queue')
                   PROVE  Covers(Held' \union { queue'[j] : j \in 1 .. q }, queue'[q].offset)
        BY DEF QueueInOrder
      <4>1. CASE q \in 1 .. Len(queue)
        <5>1. Covers(Held \union { queue[j] : j \in 1 .. q }, queue[q].offset)
          BY <3>1, <4>1 DEF QueueInOrder
        <5>2. \A j \in 1 .. q : j \in 1 .. Len(queue) /\ queue'[j] = queue[j]
          BY <2>1, <4>1
        <5>3. { queue'[j] : j \in 1 .. q } = { queue[j] : j \in 1 .. q } /\ queue'[q] = queue[q]
          BY <2>1, <4>1, <5>2
        <5> QED BY <2>3, <5>1, <5>3
      <4>2. CASE q = Len(queue) + 1
        <5>1. Item(k).offset = k
          BY DEF Item
        <5>2. queue'[q] = Item(k) /\ q \in 1 .. q
          BY <2>1, <4>2
        <5>3. PICK T : T = Held' \union { queue'[j] : j \in 1 .. q }
          OBVIOUS
        <5>4. Item(k) \in T
          BY <5>2, <5>3
        <5>5. Handed \subseteq T
          <6>1. Handed = Held \union { queue[j] : j \in 1 .. Len(queue) }
            BY <1>6, SentIs DEF Handed, Held
          <6>2. \A j \in 1 .. Len(queue) : j \in 1 .. q /\ queue'[j] = queue[j]
            BY <2>1, <4>2
          <6> QED BY <2>3, <5>3, <6>1, <6>2
        <5>6. Covers(T, x.delivered) /\ k = x.delivered + 1
          BY <2>6, <2>8, <5>5, CoversMore
        <5>7. Covers(T, k)
          BY <1>1, <5>4, <5>6, CoversNext
        <5> QED BY <5>1, <5>2, <5>3, <5>7
      <4> QED BY <2>1, <4>1, <4>2
    <3> QED BY <3>2, <3>3, <3>4
  <2>9. InOrder => InOrder'
    <3>1. InOrder' <=> (~lost' => SeenInOrder' /\ QueueInOrder' /\ ConfirmedHeld' /\ AckHeld')
      BY DEF InOrder, SeenInOrder, QueueInOrder, ConfirmedHeld, AckHeld
    <3> QED BY <2>8, <3>1
  <2> QED BY <2>2, <2>5, <2>7, <2>9 DEF Delivery
<1>8. CASE r.verdict # "Admitted"
  <2>1. queue' = queue
    BY <1>4, <1>8
  <2>2. Sent' = Sent /\ Held' = Held /\ Handed' = Handed
    BY <2>1 DEF Sent, Held, Handed
  <2>3. OneStream'
    BY <2>2 DEF Delivery, OneStream
  <2>4. ASSUME ~lost
        PROVE  /\ r.window.delivered = x.delivered /\ r.window.baselined
               /\ Covers(Handed, x.delivered) /\ r.window.confirmed = x.confirmed
               /\ r.verdict = "Dup" => k <= x.delivered
    <3>1. x.baselined /\ Covers(Handed, x.delivered)
      BY <1>1, <2>4 DEF Delivery, Caught
    <3> QED BY <1>1, <1>3, <1>8, <3>1, AdmitCursor
  <2>5. DupMeansDelivered'
    <3> SUFFICES ASSUME silent', ~lost PROVE FALSE
      BY DEF DupMeansDelivered
    <3>1. ~silent
      BY DEF Delivery, DupMeansDelivered
    <3>2. r.verdict = "Dup" /\ Item(k) \notin Handed
      BY <1>4, <3>1 DEF Handed
    <3>3. k \in 1 .. x.delivered /\ Covers(Handed, x.delivered)
      BY <1>1, <2>4, <3>2
    <3> QED BY <3>2, <3>3 DEF Covers
  <2>6. Caught'
    <3>1. \A j \in 1 .. Len(wins') : ~lost => wins'[j].baselined /\ Covers(Handed', wins'[j].delivered)
      <4> SUFFICES ASSUME NEW j \in 1 .. Len(wins'), ~lost
                   PROVE  wins'[j].baselined /\ Covers(Handed', wins'[j].delivered)
        OBVIOUS
      <4>1. wins[j].baselined /\ Covers(Handed, wins[j].delivered)
        BY <1>5 DEF Delivery, Caught
      <4> QED BY <1>1, <1>5, <2>2, <2>4, <4>1
    <3> QED BY <3>1 DEF Caught
  <2>7. InOrder => InOrder'
    <3> SUFFICES ASSUME InOrder, ~lost PROVE SeenInOrder' /\ QueueInOrder' /\ ConfirmedHeld' /\ AckHeld'
      BY DEF InOrder, SeenInOrder, QueueInOrder, ConfirmedHeld, AckHeld
    <3>1. SeenInOrder /\ QueueInOrder /\ ConfirmedHeld /\ AckHeld
      BY InOrderParts
    <3>2. SeenInOrder' /\ QueueInOrder' /\ AckHeld'
      BY <2>1, <2>2, <3>1, HeldGrows
    <3>3. \A j \in 1 .. Len(wins') : j \in 1 .. Len(wins) /\ wins'[j].confirmed = wins[j].confirmed
      BY <1>1, <1>5, <2>4
    <3> QED BY <2>2, <3>1, <3>2, <3>3, ConfirmedFrame
  <2> QED BY <2>3, <2>5, <2>6, <2>7 DEF Delivery
<1> QED BY <1>7, <1>8

\* The live path: past the gate through a window, or around it.
LEMMA PubDeliverStream ==
  ASSUME IInv, IInv', MaxEpoch = 1, Delivery, NEW p \in Pubs, PubDeliver(p)
  PROVE  Delivery' /\ (InOrder /\ Gated => InOrder')
<1>1. PICK s \in PubRecs : s = pub[p] /\ GoodPub(s, newest, chans, Len(wins)) /\ s.pc = "deliver"
  BY DEF IInv, Types, PubTypes, PubDeliver
<1>2. PICK d \in Items : d = [epoch |-> s.epoch, offset |-> s.offset]
  BY DEF PubRecs, Items
<1>3. d.offset >= 1 /\ Reached(newest, chans, d.epoch, d.offset)
  BY <1>1, <1>2 DEF GoodPub
<1>4. PICK k \in Nat \ {0} : d = Item(k)
  BY <1>3, ReachedIsItem
<1>5. UNCHANGED <<seen, given, owed, lost, ack>>
  BY DEF PubDeliver
<1>6. CASE s.win = 0
  <2>1. wins' = wins /\ silent' = silent /\ (queue' = queue \/ queue' = Append(queue, Item(k)))
    BY <1>1, <1>2, <1>4, <1>6 DEF PubDeliver, Enqueue
  <2>2. ~Gated
    BY <1>1, <1>6 DEF Gated
  <2>3. Sent' = Sent \/ Sent' = Sent \union {Item(k)}
    <3>1. ClientTypes /\ ClientTypes'
      BY DEF IInv, Types
    <3>2. CASE queue' = queue
      BY <1>5, <3>2 DEF Sent
    <3>3. CASE queue' = Append(queue, Item(k))
      BY <1>5, <3>1, <3>3, QueueGrows
    <3> QED BY <2>1, <3>2, <3>3
  <2>4. OneStream'
    BY <1>5, <2>3 DEF Delivery, OneStream
  <2>5. Handed \subseteq Handed'
    BY <1>5, <2>3 DEF Handed
  <2>6. Caught'
    BY <1>5, <2>1, <2>5, CoversMore DEF Delivery, Caught
  <2>7. DupMeansDelivered'
    BY <1>5, <2>1 DEF Delivery, DupMeansDelivered
  <2> QED BY <2>2, <2>4, <2>6, <2>7 DEF Delivery
<1>7. CASE s.win # 0
  <2>1. PICK i \in 1 .. Len(wins) : i = s.win
    BY <1>1, <1>7, WindowCount DEF GoodPub, PubRecs, IInv, Types
  <2>2. AdmitThrough(i, Item(k))
    BY <1>1, <1>2, <1>4, <1>7, <2>1 DEF PubDeliver
  <2> QED BY <1>5, <2>2, AdmitKeepsStream
<1> QED BY <1>6, <1>7

\* The replay of a subscribe.
LEMMA SubReplayStream ==
  ASSUME IInv, IInv', MaxEpoch = 1, Delivery, SubReplay
  PROVE  Delivery' /\ (InOrder => InOrder')
<1>1. PICK s \in ThreadRecs : /\ s = th["dispatch"] /\ s.pc = "deliver"
                              /\ GoodThread(s, newest, chans, Len(wins))
  BY DEF IInv, Types, ThreadTypes, Threads, SubReplay, At
<1>2. PICK b \in Seq(Items) : b = s.batch
  BY DEF ThreadRecs
<1>3. \A k \in 1 .. Len(b) : b[k].offset >= 1 /\ Reached(newest, chans, b[k].epoch, b[k].offset)
  BY <1>1, <1>2 DEF GoodThread
<1>4. UNCHANGED <<seen, given, owed, lost, ack>>
  BY DEF SubReplay
<1>5. CASE b = <<>>
  <2>1. wins' = wins /\ queue' = queue /\ silent' = silent
    BY <1>1, <1>2, <1>5 DEF SubReplay
  <2> QED BY <1>4, <2>1, StreamUntouched
<1>6. CASE b # <<>>
  <2>1. AdmitThrough(cur, Head(b))
    BY <1>1, <1>2, <1>6 DEF SubReplay
  <2>2. Len(b) \in Nat /\ Len(b) >= 1
    BY <1>6
  <2>3. PICK d \in Items : d = Head(b) /\ d.offset >= 1 /\ Reached(newest, chans, d.epoch, d.offset)
    BY <1>3, <1>6, <2>2
  <2>4. PICK k \in Nat \ {0} : d = Item(k)
    BY <2>3, ReachedIsItem
  <2>5. cur # 0
    BY <1>1 DEF IInv, Session, Request
  <2>6. PICK i \in 1 .. Len(wins) : i = cur
    BY <2>5, WindowCount DEF IInv, Types, WindowTypes
  <2>7. AdmitThrough(i, Item(k))
    BY <2>1, <2>3, <2>4, <2>6
  <2> QED BY <1>4, <2>7, AdmitKeepsStream
<1> QED BY <1>5, <1>6

\* Either pump.
LEMMA PumpAdmitStream ==
  ASSUME IInv, IInv', MaxEpoch = 1, Delivery, NEW t \in Threads, PumpAdmit(t)
  PROVE  Delivery' /\ (InOrder => InOrder')
<1>1. PICK s \in ThreadRecs :
        /\ s = th[t] /\ s.pc = "admit" /\ s.win \in 1 .. Len(wins)
        /\ GoodThread(s, newest, chans, Len(wins))
  BY AtWork DEF PumpAdmit, At
<1>2. PICK b \in Seq(Items) : b = s.batch /\ b # <<>>
  BY <1>1 DEF ThreadRecs, GoodThread
<1>3. \A k \in 1 .. Len(b) : b[k].offset >= 1 /\ Reached(newest, chans, b[k].epoch, b[k].offset)
  BY <1>1, <1>2 DEF GoodThread
<1>4. PICK d \in Items : d = Head(b) /\ d.offset >= 1 /\ Reached(newest, chans, d.epoch, d.offset)
  BY <1>2, <1>3
<1>5. PICK k \in Nat \ {0} : d = Item(k)
  BY <1>4, ReachedIsItem
<1>6. AdmitThrough(s.win, Item(k))
  BY <1>1, <1>2, <1>4, <1>5 DEF PumpAdmit
<1>7. UNCHANGED <<seen, given, owed, lost, ack>>
  BY DEF PumpAdmit
<1> QED BY <1>1, <1>6, <1>7, AdmitKeepsStream

\* A gap that is counted ends the promises.
LEMMA PumpResetStream ==
  ASSUME Delivery, NEW t \in Threads, PumpReset(t)
  PROVE  Delivery' /\ InOrder'
<1>1. lost' /\ UNCHANGED <<queue, seen, owed>>
  BY DEF PumpReset
<1>2. OneStream'
  BY <1>1 DEF Delivery, OneStream, Sent
<1> QED BY <1>1, <1>2 DEF Delivery, Caught, DupMeansDelivered, InOrder

\* A publication is fanned out.
LEMMA PubFanStream ==
  ASSUME IInv, MaxEpoch = 1, Delivery, NEW p \in Pubs, PubFan(p)
  PROVE  Delivery' /\ (InOrder => InOrder')
<1>1. PICK s \in PubRecs : s = pub[p] /\ GoodPub(s, newest, chans, Len(wins)) /\ s.pc = "fan"
  BY DEF IInv, Types, PubTypes, PubFan
<1>2. PICK d \in Items : d = [epoch |-> s.epoch, offset |-> s.offset]
  BY DEF PubRecs, Items
<1>3. PICK k \in Nat \ {0} : d = Item(k)
  BY <1>1, <1>2, ReachedIsItem DEF GoodPub
<1>4. owed' \subseteq owed \union {d}
  BY <1>1, <1>2 DEF PubFan
<1>5. UNCHANGED <<wins, queue, seen, given, ack, lost, silent>>
  BY DEF PubFan
<1>6. Sent' = Sent /\ Held' = Held /\ Handed' = Handed
  BY <1>5 DEF Sent, Held, Handed
<1>7. OneStream'
  BY <1>3, <1>4, <1>6 DEF Delivery, OneStream
<1> QED BY <1>5, <1>6, <1>7 DEF Delivery, Caught, DupMeansDelivered, InOrder

\* One window is replaced by one with the same cursors or less, beside a client
\* that holds no less.
LEMMA RewindStream ==
  ASSUME IInv, MaxEpoch = 1, Delivery, NEW i \in 1 .. Len(wins), NEW y,
         wins' = [wins EXCEPT ![i] = y], y.baselined = wins[i].baselined,
         y.delivered \in Nat, y.delivered <= wins[i].delivered,
         UNCHANGED <<queue, seen, owed, lost, silent>>, given \subseteq given'
  PROVE  /\ Delivery'
         /\ (InOrder /\ (~lost => Covers(Held', y.confirmed) /\ AckHeld')) => InOrder'
<1>1. Len(wins') = Len(wins) /\ \A j \in 1 .. Len(wins') : wins'[j] = IF j = i THEN y ELSE wins[j]
  BY WindowsExcept
<1>2. Sent' = Sent /\ Held \subseteq Held' /\ Handed \subseteq Handed'
  BY DEF Sent, Held, Handed
<1>3. OneStream' /\ DupMeansDelivered'
  BY <1>2 DEF Delivery, OneStream, DupMeansDelivered
<1>4. \A j \in 1 .. Len(wins') :
        /\ j \in 1 .. Len(wins) /\ (wins[j].baselined => wins'[j].baselined)
        /\ wins'[j].delivered \in Nat /\ wins'[j].delivered <= wins[j].delivered
  <2> SUFFICES ASSUME NEW j \in 1 .. Len(wins')
               PROVE  /\ j \in 1 .. Len(wins) /\ (wins[j].baselined => wins'[j].baselined)
                      /\ wins'[j].delivered \in Nat /\ wins'[j].delivered <= wins[j].delivered
    OBVIOUS
  <2>1. j \in 1 .. Len(wins) /\ wins[j].delivered \in Nat
    BY <1>1, PinnedToOne
  <2> QED BY <1>1, <2>1
<1>5. Caught'
  BY <1>2, <1>4, CaughtFrame DEF Delivery
<1>6. ASSUME InOrder, ~lost => Covers(Held', y.confirmed) /\ AckHeld' PROVE InOrder'
  <2> SUFFICES ASSUME ~lost PROVE SeenInOrder' /\ QueueInOrder' /\ ConfirmedHeld' /\ AckHeld'
    BY DEF InOrder, SeenInOrder, QueueInOrder, ConfirmedHeld, AckHeld
  <2>1. SeenInOrder /\ QueueInOrder /\ ConfirmedHeld
    BY <1>6, InOrderParts
  <2>2. SeenInOrder' /\ QueueInOrder'
    BY <1>2, <2>1, HeldGrows
  <2>3. \A j \in 1 .. Len(wins') :
          \/ j \in 1 .. Len(wins) /\ wins'[j].confirmed = wins[j].confirmed
          \/ Covers(Held', wins'[j].confirmed)
    BY <1>1, <1>6
  <2>4. ConfirmedHeld'
    BY <1>2, <2>1, <2>3, ConfirmedFrame
  <2> QED BY <1>6, <2>2, <2>4
<1> QED BY <1>3, <1>5, <1>6 DEF Delivery

LEMMA AgeStream ==
  ASSUME IInv, MaxEpoch = 1, Delivery, Age
  PROVE  Delivery' /\ (InOrder => InOrder')
<1>1. PICK i \in 1 .. Len(wins) : i = cur
  BY WindowCount DEF Age, IInv, Types, WindowTypes
<1>2. PICK x : x = wins[i] /\ Sane(x) /\ x.delivered \in Nat
  BY PinnedToOne
<1>3. PICK y : y = Aged(x)
  OBVIOUS
<1>4. y.baselined = x.baselined /\ y.delivered = x.delivered /\ y.confirmed = x.confirmed
  BY <1>2, <1>3 DEF Aged, Sane, Windows
<1>5. wins' = [wins EXCEPT ![i] = y] /\ UNCHANGED <<queue, seen, owed, lost, silent, given, ack>>
  BY <1>1, <1>2, <1>3 DEF Age, ghostVars
<1>6. ASSUME InOrder, ~lost PROVE Covers(Held', y.confirmed) /\ AckHeld'
  <2>1. Held' = Held
    BY <1>5 DEF Held
  <2> QED BY <1>2, <1>4, <1>5, <1>6, <2>1, InOrderParts DEF ConfirmedHeld, AckHeld
<1>7. /\ y.baselined = wins[i].baselined /\ y.delivered \in Nat
      /\ y.delivered <= wins[i].delivered /\ given \subseteq given'
  BY <1>2, <1>4, <1>5
<1> QED BY <1>5, <1>6, <1>7, RewindStream

\* A redelivery check rewinds, and gives up at most the head.
LEMMA TickCheckStream ==
  ASSUME IInv, MaxEpoch = 1, Delivery, TickCheck
  PROVE  Delivery' /\ (InOrder => InOrder')
<1>1. "tick" \in Threads
  BY DEF Threads
<1>2. PICK i \in 1 .. Len(wins) : i = th["tick"].win
  BY <1>1, AtWork DEF TickCheck, At
<1>3. PICK x : /\ x = wins[i] /\ Sane(x) /\ x.delivered \in Nat /\ x.confirmed \in Nat
               /\ (x.baselined => x.epoch = 1)
  BY PinnedToOne
<1>4. PICK y : y = CheckRedelivery(x)
  OBVIOUS
<1>5. Sane(y) /\ y.baselined = x.baselined /\ y.delivered <= x.delivered /\ y.delivered \in Nat
  BY <1>3, <1>4, CheckSane, SaneFields
<1>6. /\ wins' = [wins EXCEPT ![i] = y] /\ UNCHANGED <<queue, seen, owed, lost, silent, ack>>
      /\ given' = IF Poisoned(x) # 0
                  THEN given \union {[epoch |-> x.epoch, offset |-> Poisoned(x)]} ELSE given
  BY <1>2, <1>3, <1>4 DEF TickCheck
<1>7. given \subseteq given' /\ Held \subseteq Held'
  BY <1>6 DEF Held
<1>8. ASSUME InOrder, ~lost PROVE Covers(Held', y.confirmed) /\ AckHeld'
  <2>1. Covers(Held, x.confirmed) /\ AckHeld
    BY <1>3, <1>8, InOrderParts DEF ConfirmedHeld
  <2>2. AckHeld' /\ Covers(Held', x.confirmed)
    BY <1>6, <1>7, <2>1, HeldGrows, CoversMore
  <2>3. CASE y.confirmed = x.confirmed
    BY <2>2, <2>3
  <2>4. CASE /\ Poisoned(x) # 0 /\ Poisoned(x) = x.confirmed + 1
             /\ y.confirmed = x.confirmed + 1 /\ x.baselined
    <3>1. Item(x.confirmed + 1) \in Held'
      BY <1>3, <1>6, <2>4 DEF Held, Item
    <3> QED BY <1>3, <2>2, <2>4, <3>1, CoversNext
  <2> QED BY <1>3, <1>4, <2>3, <2>4, CheckCursor
<1> QED BY <1>3, <1>5, <1>6, <1>7, <1>8, RewindStream

\* A confirm covers what the client read.
LEMMA DispatchConfirmStream ==
  ASSUME IInv, MaxEpoch = 1, Delivery, DispatchConfirm
  PROVE  Delivery' /\ (InOrder => InOrder')
<1>1. ack' = 0 /\ ack \in Nat /\ UNCHANGED <<queue, seen, given, owed, lost, silent>>
  BY DEF DispatchConfirm, ghostVars, IInv, Types, ClientTypes
<1>2. Held' = Held /\ Sent' = Sent /\ Handed' = Handed
  BY <1>1 DEF Held, Sent, Handed
<1>3. AckHeld'
  BY <1>1 DEF AckHeld, Covers
<1>4. CASE cur = 0
  <2>1. wins' = wins
    BY <1>4 DEF DispatchConfirm
  <2>2. Delivery'
    BY <1>1, <1>2, <2>1 DEF Delivery, OneStream, Caught, DupMeansDelivered
  <2>3. InOrder => InOrder'
    BY <1>1, <1>2, <1>3, <2>1 DEF InOrder, AckHeld
  <2> QED BY <2>2, <2>3
<1>5. CASE cur # 0
  <2>1. PICK i \in 1 .. Len(wins) : i = cur
    BY <1>5, WindowCount DEF IInv, Types, WindowTypes
  <2>2. PICK x : x = wins[i] /\ Sane(x) /\ x.delivered \in Nat /\ x.confirmed \in Nat
    BY PinnedToOne
  <2>3. PICK y : y = Confirm(x, ack)
    OBVIOUS
  <2>4. Sane(y) /\ y.baselined = x.baselined /\ y.delivered = x.delivered
    BY <1>1, <2>2, <2>3, ConfirmSane
  <2>5. y.confirmed \in Nat /\ (y.confirmed = x.confirmed \/ y.confirmed <= ack)
    BY <1>1, <2>2, <2>3, <2>4, ConfirmCursor, SaneFields
  <2>6. wins' = [wins EXCEPT ![i] = y]
    BY <1>5, <2>1, <2>2, <2>3 DEF DispatchConfirm
  <2>7. /\ y.baselined = wins[i].baselined /\ y.delivered \in Nat
        /\ y.delivered <= wins[i].delivered /\ given \subseteq given'
    BY <1>1, <2>2, <2>4
  <2>8. ASSUME InOrder, ~lost PROVE Covers(Held', y.confirmed)
    <3>1. Covers(Held, x.confirmed) /\ Covers(Held, ack)
      BY <2>2, <2>8, InOrderParts DEF ConfirmedHeld, AckHeld
    <3>2. CASE y.confirmed = x.confirmed
      BY <1>2, <3>1, <3>2
    <3>3. CASE y.confirmed <= ack
      BY <1>1, <1>2, <2>5, <3>1, <3>3, CoversLess
    <3> QED BY <2>5, <3>2, <3>3
  <2> QED BY <1>1, <1>3, <2>6, <2>7, <2>8, RewindStream
<1> QED BY <1>4, <1>5

\* The points up to a recover point are the publications up to it.
LEMMA PointsBelow ==
  ASSUME IInv, MaxEpoch = 1, NEW r \in RecoverPoints
  PROVE  /\ r.epoch = 1 /\ r.offset \in Nat
         /\ \A d \in RecoverPoints : d.offset \in Nat \ {0} /\ d = Item(d.offset)
         /\ \A k \in 1 .. r.offset : Item(k) \in RecoverPoints
<1>1. \A d \in RecoverPoints : d.epoch = 1 /\ d.offset \in Nat \ {0} /\ d = Item(d.offset)
  <2> SUFFICES ASSUME NEW d \in RecoverPoints
               PROVE  d.epoch = 1 /\ d.offset \in Nat \ {0} /\ d = Item(d.offset)
    OBVIOUS
  <2>1. d \in Deliveries
    BY DEF RecoverPoints
  <2>2. d.epoch \in 1 .. 1 /\ d.offset \in 1 .. MaxOffset /\ d = [epoch |-> d.epoch, offset |-> d.offset]
    BY <2>1 DEF Deliveries, Epochs
  <2>3. MaxOffset \in Nat
    BY DeliveryAssumption DEF MaxOffset
  <2> QED BY <2>2, <2>3 DEF Item
<1>2. ASSUME NEW k \in 1 .. r.offset PROVE Item(k) \in RecoverPoints
  <2>1. /\ r \in Deliveries /\ r.epoch <= newest /\ r.offset <= chans[r.epoch].last
        /\ r.epoch = 1 /\ r.offset \in Nat
    BY <1>1 DEF RecoverPoints
  <2>2. r.offset \in 1 .. MaxOffset /\ MaxOffset \in Nat
    BY <2>1, DeliveryAssumption DEF Deliveries, MaxOffset
  <2>3. chans[1].last \in Nat
    BY DEF IInv, Types, ChanTypes, Epochs
  <2>4. k \in 1 .. MaxOffset /\ k <= chans[1].last /\ 1 \in Epochs
    BY <2>1, <2>2, <2>3 DEF Epochs
  <2>5. Item(k) \in Deliveries /\ Item(k).epoch = 1 /\ Item(k).offset = k
    BY <2>4 DEF Item, Deliveries
  <2> QED BY <2>1, <2>4, <2>5 DEF RecoverPoints
<1> QED BY <1>1, <1>2

\* A subscribe that brings a recover point.
LEMMA SubInstallStream ==
  ASSUME IInv, MaxEpoch = 1, Recovering, Delivery, SubInstall
  PROVE  Delivery' /\ (InOrder => InOrder')
<1>1. PICK r \in RecoverPoints :
        /\ ConsumerSubscribe(Baseline(NewWindow, r.offset, r.epoch))
        /\ seen' = seen \union { d \in RecoverPoints : d.epoch = r.epoch /\ d.offset <= r.offset }
  BY DEF SubInstall
<1>2. /\ r.epoch = 1 /\ r.offset \in Nat
      /\ \A d \in RecoverPoints : d.offset \in Nat \ {0} /\ d = Item(d.offset)
      /\ \A k \in 1 .. r.offset : Item(k) \in RecoverPoints
  BY PointsBelow
<1>3. UNCHANGED <<queue, given, owed, lost, silent, ack>>
  BY DEF SubInstall, ghostVars
<1>4. Held \subseteq Held' /\ Handed \subseteq Handed' /\ Held' \subseteq Handed'
  BY <1>1, <1>3 DEF Held, Handed, Sent
<1>5. Covers(Held', r.offset)
  <2> SUFFICES ASSUME NEW k \in 1 .. r.offset PROVE Item(k) \in seen'
    BY DEF Covers, Held
  <2>1. Item(k).epoch = 1 /\ Item(k).offset = k /\ k <= r.offset
    BY <1>2 DEF Item
  <2> QED BY <1>1, <1>2, <2>1
<1>6. OneStream'
  <2>1. Sent' \subseteq Sent \union RecoverPoints
    BY <1>1, <1>3 DEF Sent
  <2>2. \A d \in RecoverPoints : \E k \in Nat \ {0} : d = Item(k)
    BY <1>2
  <2> QED BY <1>3, <2>1, <2>2 DEF Delivery, OneStream
<1>7. PICK w : w = Baseline(NewWindow, r.offset, r.epoch)
  OBVIOUS
<1>8. w.baselined /\ w.delivered = r.offset /\ w.confirmed = r.offset
  BY <1>7 DEF Baseline, NewWindow
<1>9. \A i \in 1 .. Len(wins') : (i \in 1 .. Len(wins) /\ wins'[i] = wins[i]) \/ wins'[i] = w
  <2>1. CASE cur # 0
    BY <1>1, <2>1 DEF ConsumerSubscribe
  <2>2. CASE cur = 0
    <3>1. wins' = Append(wins, w)
      BY <1>1, <1>7, <2>2 DEF ConsumerSubscribe
    <3>2. PICK S : wins \in Seq(S)
      BY DEF IInv, Types, WindowTypes
    <3>3. PICK s \in Seq(S \union {w}) : s = wins
      BY <3>2
    <3>4. /\ Len(Append(s, w)) = Len(s) + 1 /\ Append(s, w)[Len(s) + 1] = w /\ Len(s) \in Nat
          /\ \A i \in 1 .. Len(s) : Append(s, w)[i] = s[i]
      BY AppendProperties
    <3>5. \A i \in 1 .. Len(s) + 1 : i \in 1 .. Len(s) \/ i = Len(s) + 1
      BY <3>4
    <3> QED BY <3>1, <3>3, <3>4, <3>5
  <2> QED BY <2>1, <2>2
<1>10. Caught'
  <2> SUFFICES ASSUME ~lost, NEW i \in 1 .. Len(wins')
               PROVE  wins'[i].baselined /\ Covers(Handed', wins'[i].delivered)
    BY <1>3 DEF Caught
  <2>1. CASE i \in 1 .. Len(wins) /\ wins'[i] = wins[i]
    <3>1. wins[i].baselined /\ Covers(Handed, wins[i].delivered)
      BY <2>1 DEF Delivery, Caught
    <3> QED BY <1>4, <2>1, <3>1, CoversMore
  <2>2. CASE wins'[i] = w
    BY <1>4, <1>5, <1>8, <2>2, CoversMore
  <2> QED BY <1>9, <2>1, <2>2
<1>11. DupMeansDelivered'
  BY <1>3 DEF Delivery, DupMeansDelivered
<1>12. ASSUME InOrder PROVE InOrder'
  <2> SUFFICES ASSUME ~lost PROVE SeenInOrder' /\ QueueInOrder' /\ ConfirmedHeld' /\ AckHeld'
    BY <1>3 DEF InOrder, SeenInOrder, QueueInOrder, ConfirmedHeld, AckHeld
  <2>1. SeenInOrder /\ QueueInOrder /\ ConfirmedHeld /\ AckHeld
    BY <1>12, InOrderParts
  <2>2. QueueInOrder' /\ AckHeld'
    BY <1>3, <1>4, <2>1, HeldGrows
  <2>3. ConfirmedHeld'
    <3>1. \A i \in 1 .. Len(wins') :
            \/ i \in 1 .. Len(wins) /\ wins'[i].confirmed = wins[i].confirmed
            \/ Covers(Held', wins'[i].confirmed)
      BY <1>5, <1>8, <1>9
    <3> QED BY <1>4, <2>1, <3>1, ConfirmedFrame
  <2>4. SeenInOrder'
    <3> SUFFICES ASSUME NEW k \in Nat \ {0}, Item(k) \in seen' PROVE Covers(Held', k)
      BY DEF SeenInOrder
    <3>1. CASE Item(k) \in seen
      BY <1>4, <2>1, <3>1, CoversMore DEF SeenInOrder
    <3>2. CASE Item(k) \notin seen
      <4>1. Item(k).offset <= r.offset /\ Item(k).offset = k
        BY <1>1, <3>2 DEF Item
      <4> QED BY <1>2, <1>5, <4>1, CoversLess
    <3> QED BY <3>1, <3>2
  <2> QED BY <2>2, <2>3, <2>4
<1> QED BY <1>6, <1>10, <1>11, <1>12 DEF Delivery

\* The client reads what comes next.
LEMMA ClientRecvStream ==
  ASSUME IInv, IInv', MaxEpoch = 1, Delivery, ClientRecv
  PROVE  Delivery' /\ (InOrder => InOrder')
<1>1. UNCHANGED <<wins, given, owed, lost, silent, ack>>
  BY DEF ClientRecv, ghostVars
<1>2. PICK s \in Seq(Items) : s = queue /\ s # <<>>
  BY DEF IInv, Types, ClientTypes, ClientRecv
<1>3. PICK z \in Seq(Items) :
        /\ z = Tail(s) /\ Len(z) = Len(s) - 1 /\ Len(s) >= 1
        /\ \A k \in 1 .. Len(z) : k + 1 \in 1 .. Len(s) /\ z[k] = s[k + 1]
  BY <1>2, TailOfBatch
<1>4. queue' = z /\ seen' = seen \union {s[1]} /\ Len(s) \in Nat
  BY <1>2, <1>3 DEF ClientRecv
<1>5. ASSUME NEW q \in 0 .. Len(z)
      PROVE  {s[1]} \union { z[j] : j \in 1 .. q } = { s[j] : j \in 1 .. q + 1 }
  <2>1. \A j \in 1 .. q + 1 : j = 1 \/ (j - 1 \in 1 .. q /\ (j - 1) + 1 = j)
    BY <1>3, <1>4
  <2>2. \A j \in 1 .. q : j + 1 \in 1 .. q + 1 /\ j \in 1 .. Len(z)
    BY <1>3, <1>4
  <2>3. 1 \in 1 .. q + 1
    BY <1>3, <1>4
  <2>4. \A j \in 1 .. q : z[j] = s[j + 1]
    BY <1>3, <2>2
  <2>5. ASSUME NEW j \in 1 .. q + 1 PROVE s[j] \in {s[1]} \union { z[l] : l \in 1 .. q }
    <3>1. CASE j = 1
      BY <3>1
    <3>2. CASE j - 1 \in 1 .. q /\ (j - 1) + 1 = j
      <4>1. z[j - 1] = s[j]
        BY <2>4, <3>2
      <4> QED BY <3>2, <4>1
    <3> QED BY <2>1, <3>1, <3>2
  <2>6. ASSUME NEW j \in 1 .. q PROVE z[j] \in { s[l] : l \in 1 .. q + 1 }
    BY <2>2, <2>4
  <2>7. s[1] \in { s[l] : l \in 1 .. q + 1 }
    BY <2>3
  <2> QED BY <2>5, <2>6, <2>7
<1>6. Held' = Held \union {s[1]}
  BY <1>1, <1>4 DEF Held
<1>7. Sent' = Sent
  <2>1. Sent = seen \union { s[j] : j \in 1 .. Len(s) }
    BY <1>2, SentIs DEF IInv, Types
  <2>2. Sent' = seen' \union { z[j] : j \in 1 .. Len(z) }
    <3>1. DOMAIN queue' = 1 .. Len(queue')
      BY <1>4
    <3> QED BY <1>4, <3>1 DEF Sent, ToSet
  <2>3. PICK q \in 0 .. Len(z) : q = Len(z) /\ q + 1 = Len(s)
    <3>1. Len(z) \in Nat
      OBVIOUS
    <3>2. PICK m \in Nat, n \in Nat : m = Len(z) /\ n = Len(s) /\ m = n - 1
      BY <1>3, <1>4, <3>1
    <3> QED BY <3>2
  <2>4. {s[1]} \union { z[j] : j \in 1 .. q } = { s[j] : j \in 1 .. q + 1 }
    BY <1>5
  <2> QED BY <1>4, <2>1, <2>2, <2>3, <2>4
<1>8. Delivery'
  <2>1. Handed' = Handed
    BY <1>1, <1>7 DEF Handed
  <2> QED BY <1>1, <1>7, <2>1 DEF Delivery, OneStream, Caught, DupMeansDelivered
<1>9. ASSUME InOrder PROVE InOrder'
  <2> SUFFICES ASSUME ~lost PROVE SeenInOrder' /\ QueueInOrder' /\ ConfirmedHeld' /\ AckHeld'
    BY <1>1 DEF InOrder, SeenInOrder, QueueInOrder, ConfirmedHeld, AckHeld
  <2>1. SeenInOrder /\ QueueInOrder /\ ConfirmedHeld /\ AckHeld
    BY <1>9, InOrderParts
  <2>2. ConfirmedHeld' /\ AckHeld'
    BY <1>1, <1>6, <2>1, CoversMore DEF ConfirmedHeld, AckHeld
  <2>3. SeenInOrder'
    <3> SUFFICES ASSUME NEW k \in Nat \ {0}, Item(k) \in seen' PROVE Covers(Held', k)
      BY DEF SeenInOrder
    <3>1. CASE Item(k) \in seen
      BY <1>6, <2>1, <3>1, CoversMore DEF SeenInOrder
    <3>2. CASE Item(k) \notin seen
      <4>1. Item(k) = s[1]
        BY <1>4, <3>2
      <4>2. s[1].offset = k
        BY <4>1 DEF Item
      <4>3. Covers(Held \union { queue[j] : j \in 1 .. 1 }, queue[1].offset)
        <5>1. 1 \in 1 .. Len(queue)
          BY <1>2, <1>3, <1>4
        <5> QED BY <2>1, <5>1 DEF QueueInOrder
      <4>4. { queue[j] : j \in 1 .. 1 } = {s[1]}
        BY <1>2
      <4> QED BY <1>2, <1>6, <4>2, <4>3, <4>4
    <3> QED BY <3>1, <3>2
  <2>4. QueueInOrder'
    <3> SUFFICES ASSUME NEW q \in 1 .. Len(z)
                 PROVE  Covers(Held' \union { z[j] : j \in 1 .. q }, z[q].offset)
      BY <1>4 DEF QueueInOrder
    <3>1. q + 1 \in 1 .. Len(s) /\ z[q] = s[q + 1] /\ q \in 0 .. Len(z)
      BY <1>3, <1>4
    <3>2. Covers(Held \union { s[j] : j \in 1 .. q + 1 }, s[q + 1].offset)
      BY <1>2, <2>1, <3>1 DEF QueueInOrder
    <3>3. Held' \union { z[j] : j \in 1 .. q } = Held \union { s[j] : j \in 1 .. q + 1 }
      BY <1>5, <1>6, <3>1
    <3> QED BY <3>1, <3>2, <3>3
  <2> QED BY <2>2, <2>3, <2>4
<1> QED BY <1>8, <1>9

LEMMA ClientConfirmStream ==
  ASSUME IInv, MaxEpoch = 1, Delivery, ClientConfirm
  PROVE  Delivery' /\ (InOrder => InOrder')
<1>1. UNCHANGED <<wins, queue, seen, given, owed, lost, silent>>
  BY DEF ClientConfirm, ghostVars
<1>2. PICK d \in seen : ack' = d.offset
  BY DEF ClientConfirm
<1>3. PICK k \in Nat \ {0} : d = Item(k)
  BY DEF Delivery, OneStream, Sent
<1>4. ack' = k
  BY <1>2, <1>3 DEF Item
<1>5. Held' = Held /\ Sent' = Sent /\ Handed' = Handed
  BY <1>1 DEF Held, Sent, Handed
<1>6. Delivery'
  BY <1>1, <1>5 DEF Delivery, OneStream, Caught, DupMeansDelivered
<1>7. ASSUME InOrder, ~lost PROVE Covers(Held, k)
  BY <1>3, <1>7 DEF InOrder
<1>8. InOrder => InOrder'
  BY <1>1, <1>4, <1>5, <1>7 DEF InOrder
<1> QED BY <1>6, <1>8

-----------------------------------------------------------------------------
LEMMA StreamStep ==
  ASSUME IInv, IInv', MaxEpoch = 1, Recovering, Delivery, [Next]_vars
  PROVE  Delivery' /\ (InOrder /\ Gated => InOrder')
<1>1. CASE \E p \in Pubs : PubAcquire(p) \/ PubAppend(p) \/ PubGate(p)
  BY <1>1, StreamUntouched DEF PubAcquire, PubAppend, PubGate, ghostVars
<1>2. CASE \E p \in Pubs : PubFan(p)
  BY <1>2, PubFanStream
<1>3. CASE \E p \in Pubs : PubDeliver(p)
  BY <1>3, PubDeliverStream
<1>4. CASE SubInstall
  BY <1>4, SubInstallStream
<1>5. CASE DispatchConfirm
  BY <1>5, DispatchConfirmStream
<1>6. CASE SubReplay
  BY <1>6, SubReplayStream
<1>7. CASE SubEngine \/ SubRefused \/ SubRecover \/ UnsubEngine \/ UnsubWindow
  BY <1>7, StreamUntouched
  DEF SubEngine, SubRefused, SubRecover, UnsubEngine, UnsubWindow, ghostVars
<1>8. CASE SweepTick \/ TickStart
  BY <1>8, StreamUntouched DEF SweepTick, TickStart, ghostVars
<1>9. CASE TickCheck
  BY <1>9, TickCheckStream
<1>10. CASE \E t \in Threads : PumpStart(t) \/ PumpFetch(t)
  BY <1>10, StreamUntouched DEF PumpStart, PumpFetch, ghostVars
<1>11. CASE \E t \in Threads : PumpReset(t)
  BY <1>11, PumpResetStream
<1>12. CASE \E t \in Threads : PumpAdmit(t)
  BY <1>12, PumpAdmitStream
<1>13. CASE Age
  BY <1>13, AgeStream
<1>14. CASE Expire \/ Reap
  BY <1>14, StreamUntouched DEF Expire, Reap, ghostVars
<1>15. CASE SessionStop \/ SessionJoin \/ SweeperStop \/ SweeperExit
  BY <1>15, StreamUntouched DEF SessionStop, SessionJoin, SweeperStop, SweeperExit, ghostVars
<1>16. CASE ClientRecv
  BY <1>16, ClientRecvStream
<1>17. CASE ClientConfirm
  BY <1>17, ClientConfirmStream
<1>18. CASE UNCHANGED vars
  BY <1>18, StreamUntouched DEF vars
<1> QED
  BY <1>1, <1>2, <1>3, <1>4, <1>5, <1>6, <1>7, <1>8, <1>9, <1>10, <1>11, <1>12, <1>13, <1>14,
     <1>15, <1>16, <1>17, <1>18
  DEF Next, PubStep, PumpStep, DispatchStep

LEMMA InitStream == ASSUME Init PROVE Delivery /\ InOrder
<1>1. /\ wins = <<>> /\ queue = <<>> /\ seen = {} /\ owed = {} /\ ack = 0 /\ ~silent
  BY DEF Init
<1>2. Len(wins) = 0 /\ Len(queue) = 0 /\ Sent = {}
  BY <1>1 DEF Sent, ToSet
<1>3. Delivery
  BY <1>1, <1>2 DEF Delivery, OneStream, Caught, DupMeansDelivered
<1>4. InOrder
  BY <1>1, <1>2 DEF InOrder, Covers
<1> QED BY <1>3, <1>4

\* A fanned-out delivery that a window drops as a duplicate was handed to the
\* transport before, for any number of publishers and subscriptions of a client
\* that brings its recover point, as long as the channel is not recreated
\* (window.go Admit, consumer.go Deliver and pump, ops.go Subscribe).
THEOREM DupMeansDeliveredHolds ==
  ASSUME Recovering, MaxEpoch = 1
  PROVE  Spec => []DupMeansDelivered
<1>1. Init => Delivery
  BY InitStream
<1>2. IInv /\ IInv' /\ Delivery /\ [Next]_vars => Delivery'
  BY StreamStep
<1>3. Delivery => DupMeansDelivered
  BY DEF Delivery
<1> QED BY <1>1, <1>2, <1>3, DeliveryInvariant, PTL DEF Spec

\* What the client has and what is on its way to it follows the order of the
\* channel, through any number of subscriptions, as long as no delivery goes
\* around the gate.
THEOREM StreamInOrder ==
  ASSUME Recovering, MaxEpoch = 1
  PROVE  Spec /\ []Gated => [](IInv /\ Delivery /\ InOrder)
<1>1. Init => Delivery /\ InOrder
  BY InitStream
<1>2. IInv /\ IInv' /\ Gated /\ Delivery /\ InOrder /\ [Next]_vars => Delivery' /\ InOrder'
  BY StreamStep
<1> QED BY <1>1, <1>2, DeliveryInvariant, PTL DEF Spec

\* When a delivery was sent, every earlier publication fanned out to the session
\* was sent before it or dropped as poison, whichever path sent it and however
\* often the client subscribed again, unless a lost gap was counted, the channel
\* was recreated or a delivery went around the gate (window.go Admit,
\* consumer.go pump).
THEOREM GapFreeHolds ==
  ASSUME Recovering, MaxEpoch = 1
  PROVE  Spec /\ []Gated => []GapFree
<1>1. IInv /\ Delivery /\ InOrder => GapFree
  <2> SUFFICES ASSUME IInv, Delivery, InOrder, ~lost, NEW d \in Sent, NEW e \in owed,
                      e.offset < d.offset
               PROVE  e \in Handed
    BY DEF GapFree, Handed
  <2>1. PICK k \in Nat \ {0}, l \in Nat \ {0} : d = Item(k) /\ e = Item(l)
    BY DEF Delivery, OneStream
  <2>2. d.offset = k /\ l \in 1 .. k
    <3>1. Item(k).offset = k /\ Item(l).offset = l
      BY DEF Item
    <3> QED BY <2>1, <3>1
  <2>3. Sent = seen \union { queue[j] : j \in 1 .. Len(queue) }
    BY SentIs DEF IInv, Types
  <2>4. CASE d \in seen
    <3>1. Covers(Held, k)
      BY <2>1, <2>4 DEF InOrder
    <3> QED BY <2>1, <2>2, <2>3, <3>1 DEF Covers, Held, Handed
  <2>5. CASE d \notin seen
    <3>1. PICK q \in 1 .. Len(queue) : d = queue[q]
      BY <2>3, <2>5
    <3>2. Covers(Held \union { queue[j] : j \in 1 .. q }, k)
      BY <2>2, <3>1 DEF InOrder
    <3>3. \A j \in 1 .. q : j \in 1 .. Len(queue)
      BY <3>1
    <3>4. Held \union { queue[j] : j \in 1 .. q } \subseteq Handed
      BY <2>3, <3>3 DEF Held, Handed
    <3> QED BY <2>1, <2>2, <3>2, <3>4 DEF Covers
  <2> QED BY <2>4, <2>5
<1> QED BY <1>1, StreamInOrder, PTL

\* Everything the current window counts as confirmed was read by the client or
\* dropped as poison, under the same conditions: no late, repeated or
\* overtaking confirm acknowledges a delivery still on its way (window.go
\* Confirm, CheckRedelivery).
THEOREM ConfirmedWasReceivedHolds ==
  ASSUME Recovering, MaxEpoch = 1
  PROVE  Spec /\ []Gated => []ConfirmedWasReceived
<1>1. IInv /\ Delivery /\ InOrder => ConfirmedWasReceived
  <2> SUFFICES ASSUME IInv, Delivery, InOrder, cur # 0, ~lost, NEW o \in 1 .. wins[cur].confirmed
               PROVE  [epoch |-> wins[cur].epoch, offset |-> o] \in Held
    BY DEF ConfirmedWasReceived, Held
  <2>1. PICK i \in 1 .. Len(wins) : i = cur
    BY WindowCount DEF IInv, Types, WindowTypes
  <2>2. wins[i].epoch = 1
    BY PinnedToOne DEF Delivery, Caught
  <2>3. Covers(Held, wins[i].confirmed)
    BY DEF InOrder
  <2> QED BY <2>1, <2>2, <2>3 DEF Covers, Item
<1> QED BY <1>1, StreamInOrder, PTL

-----------------------------------------------------------------------------
\* A session that subscribes once.

\* There is no window, or one whose subscription is not there yet.
Bare == cur = 0 \/ (th["dispatch"].pc = "subscribe" /\ th["dispatch"].win # 0)

Once ==
  /\ th["dispatch"].pc # "unsubscribe"
  /\ \A p \in Pubs : pub[p].pc = "gate" => ~Bare
  /\ Gated

\* The publishers stay where they are.
LEMMA OnceFrame ==
  ASSUME Once, pub' = pub, Bare' => Bare, th'["dispatch"].pc # "unsubscribe"
  PROVE  Once'
  BY DEF Once, Gated

\* The window stays, and no request begins or ends.
LEMMA OnceKept ==
  ASSUME Once, pub' = pub, cur' = cur,
         \/ th'["dispatch"] = th["dispatch"]
         \/ th'["dispatch"].pc \notin {"subscribe", "unsubscribe"}
  PROVE  Once'
<1>1. (Bare' => Bare) /\ th'["dispatch"].pc # "unsubscribe"
  BY DEF Bare, Once
<1> QED BY <1>1, OnceFrame

\* A thread takes a step of its own.
LEMMA ThreadStep ==
  ASSUME IInv, Once, NEW t \in Threads, pub' = pub, cur' = cur,
         NEW r, th' = [th EXCEPT ![t] = r],
         t = "dispatch" => r.pc \notin {"subscribe", "unsubscribe"}
  PROVE  Once'
<1>1. DOMAIN th = Threads /\ "dispatch" \in Threads
  BY DEF IInv, Types, ThreadTypes, Threads
<1>2. th'["dispatch"] = IF t = "dispatch" THEN r ELSE th["dispatch"]
  BY <1>1
<1> QED BY <1>2, OnceKept

LEMMA PubOnce ==
  ASSUME IInv, Once, NEW p \in Pubs, PubAcquire(p) \/ PubStep(p)
  PROVE  Once'
<1>1. cur' = cur /\ th' = th
  BY DEF PubAcquire, PubStep, PubAppend, PubFan, PubGate, PubDeliver
<1>2. Bare' <=> Bare
  BY <1>1 DEF Bare
<1>3. PICK s \in PubRecs : s = pub[p] /\ GoodPub(s, newest, chans, Len(wins))
  BY DEF IInv, Types, PubTypes
<1>4. \E r : /\ pub' = [pub EXCEPT ![p] = r]
             /\ r.pc = "gate" => ~Bare
             /\ r.pc = "deliver" => r.win # 0
  <2>1. CASE PubAcquire(p)
    <3>1. PICK r : r = [IdlePub EXCEPT !.pc = "append", !.epoch = live]
      OBVIOUS
    <3>2. r.pc = "append" /\ pub' = [pub EXCEPT ![p] = r]
      BY <2>1, <3>1 DEF PubAcquire, IdlePub
    <3> QED BY <3>2
  <2>2. CASE PubAppend(p)
    <3>1. PICK r : r = [s EXCEPT !.pc = "fan", !.offset = chans[s.epoch].last + 1]
      OBVIOUS
    <3>2. r.pc = "fan"
      BY <3>1 DEF PubRecs
    <3>3. pub' = [pub EXCEPT ![p] = r]
      BY <1>3, <2>2, <3>1 DEF PubAppend
    <3> QED BY <3>2, <3>3
  <2>3. CASE PubFan(p)
    <3>1. CASE chans[s.epoch].sub
      <4>1. PICK r : r = [s EXCEPT !.pc = "gate"]
        OBVIOUS
      <4>2. r.pc = "gate" /\ pub' = [pub EXCEPT ![p] = r]
        BY <1>3, <2>3, <3>1, <4>1 DEF PubFan, PubRecs
      <4>3. s.epoch \in Epochs
        BY <1>3, <2>3, DeliveryAssumption DEF GoodPub, PubFan, Epochs, IInv, Types, ChanTypes
      <4>4. ~Bare
        BY <3>1, <4>3 DEF Bare, IInv, Session, Guarded, Request, Unsubscribed
      <4> QED BY <4>2, <4>4
    <3>2. CASE ~chans[s.epoch].sub
      <4>1. pub' = [pub EXCEPT ![p] = IdlePub] /\ IdlePub.pc = "idle"
        BY <1>3, <2>3, <3>2 DEF PubFan, IdlePub
      <4> QED BY <4>1
    <3> QED BY <3>1, <3>2
  <2>4. CASE PubGate(p)
    <3>1. PICK r : r = [s EXCEPT !.pc = "deliver", !.win = cur]
      OBVIOUS
    <3>2. r.pc = "deliver" /\ r.win = cur
      BY <3>1 DEF PubRecs
    <3>3. pub' = [pub EXCEPT ![p] = r]
      BY <1>3, <2>4, <3>1 DEF PubGate
    <3>4. cur # 0
      BY <2>4 DEF PubGate, Once, Bare
    <3> QED BY <3>2, <3>3, <3>4
  <2>5. CASE PubDeliver(p)
    <3>1. pub' = [pub EXCEPT ![p] = IdlePub] /\ IdlePub.pc = "idle"
      BY <2>5 DEF PubDeliver, IdlePub
    <3> QED BY <3>1
  <2> QED BY <2>1, <2>2, <2>3, <2>4, <2>5 DEF PubStep
<1>5. PICK r : /\ pub' = [pub EXCEPT ![p] = r]
               /\ r.pc = "gate" => ~Bare
               /\ r.pc = "deliver" => r.win # 0
  BY <1>4
<1>6. \A q \in Pubs : pub'[q] = IF q = p THEN r ELSE pub[q]
  BY <1>5 DEF IInv, Types, PubTypes
<1> QED BY <1>1, <1>2, <1>5, <1>6 DEF Once, Gated

LEMMA RequestOnce ==
  ASSUME IInv, Once, MaxWindows = 1,
         SubInstall \/ UnsubEngine \/ DispatchConfirm \/ DispatchStep
  PROVE  Once'
<1>1. pub' = pub
  BY DEF SubInstall, UnsubEngine, DispatchConfirm, DispatchStep, SubEngine, SubRefused, SubRecover,
         SubReplay, UnsubWindow
<1>2. DOMAIN th = Threads /\ "dispatch" \in Threads /\ Len(wins) \in Nat /\ cur \in 0 .. Len(wins)
  BY WindowCount DEF IInv, Types, ThreadTypes, WindowTypes, Threads
<1>3. PICK s \in ThreadRecs : s = th["dispatch"]
  BY <1>2 DEF IInv, Types, ThreadTypes
<1>4. CASE SubInstall
  <2>1. PICK k : k = IF cur = 0 THEN Len(wins) + 1 ELSE 0
    OBVIOUS
  <2>2. PICK begun : begun = [IdleThread EXCEPT !.pc = "subscribe", !.win = k]
    OBVIOUS
  <2>3. \E o, e : \/ th' = [th EXCEPT !["dispatch"] = [begun EXCEPT !.from = o, !.epoch = e]]
                  \/ th' = [th EXCEPT !["dispatch"] = begun]
    BY <1>4, <2>1, <2>2 DEF SubInstall
  <2>4. th'["dispatch"].pc = "subscribe" /\ th'["dispatch"].win = k
    BY <1>2, <2>2, <2>3 DEF IdleThread
  <2>5. cur' # 0
    <3>1. \E w : ConsumerSubscribe(w)
      BY <1>4 DEF SubInstall
    <3>2. CASE cur = 0
      BY <1>2, <3>1, <3>2 DEF ConsumerSubscribe
    <3>3. CASE cur # 0
      BY <3>1, <3>3 DEF ConsumerSubscribe
    <3> QED BY <3>2, <3>3
  <2>6. Bare' => Bare
    BY <1>2, <2>1, <2>4, <2>5 DEF Bare
  <2> QED BY <1>1, <2>4, <2>6, OnceFrame
<1>5. CASE UnsubEngine
  <2>1. Len(wins) < 1 /\ live # 0 /\ chans[live].sub
    BY <1>5 DEF UnsubEngine
  <2>2. cur = 0 /\ live \in Epochs
    BY <1>2, <2>1, LiveRange DEF IInv, Types
  <2> QED BY <2>1, <2>2 DEF IInv, Session, Guarded
<1>6. CASE DispatchConfirm
  <2>1. CASE cur = 0
    BY <1>1, <1>6, <2>1, OnceKept DEF DispatchConfirm
  <2>2. CASE cur # 0
    <3>1. PICK r : r = [IdleThread EXCEPT !.pc = "point", !.win = cur]
      OBVIOUS
    <3>2. r.pc = "point"
      BY <3>1 DEF IdleThread
    <3>3. th' = [th EXCEPT !["dispatch"] = r] /\ cur' = cur
      BY <1>6, <2>2, <3>1 DEF DispatchConfirm
    <3> QED BY <1>1, <1>2, <3>2, <3>3, ThreadStep
  <2> QED BY <2>1, <2>2
<1>7. IdleThread.pc = "idle"
  BY DEF IdleThread
<1>8. CASE SubEngine
  <2>1. PICK r : r = [s EXCEPT !.pc = "replay"]
    OBVIOUS
  <2>2. r.pc = "replay"
    BY <2>1 DEF ThreadRecs
  <2>3. cur' = cur /\ (th' = [th EXCEPT !["dispatch"] = r] \/ th' = [th EXCEPT !["dispatch"] = IdleThread])
    BY <1>3, <1>8, <2>1 DEF SubEngine
  <2> QED BY <1>1, <1>2, <1>7, <2>2, <2>3, ThreadStep
<1>9. CASE SubRefused
  <2>1. th' = [th EXCEPT !["dispatch"] = IdleThread] /\ th["dispatch"].pc = "subscribe"
    BY <1>9 DEF SubRefused, At
  <2>2. th'["dispatch"].pc = "idle"
    BY <1>2, <1>7, <2>1
  <2>3. cur' = cur \/ th["dispatch"].win # 0
    BY <1>9 DEF SubRefused
  <2>4. Bare' => Bare
    BY <2>1, <2>2, <2>3 DEF Bare
  <2> QED BY <1>1, <2>2, <2>4, OnceFrame
<1>10. CASE SubRecover
  <2>1. PICK b : b = RecoverItems(s.from, 0)
    OBVIOUS
  <2>2. PICK r : r = [s EXCEPT !.pc = "deliver", !.batch = b]
    OBVIOUS
  <2>3. r.pc = "deliver"
    BY <2>2 DEF ThreadRecs
  <2>4. cur' = cur /\ (th' = [th EXCEPT !["dispatch"] = r] \/ th' = [th EXCEPT !["dispatch"] = IdleThread])
    BY <1>3, <1>10, <2>1, <2>2 DEF SubRecover
  <2> QED BY <1>1, <1>2, <1>7, <2>3, <2>4, ThreadStep
<1>11. CASE SubReplay
  <2>1. PICK r : r = [s EXCEPT !.batch = Tail(s.batch)]
    OBVIOUS
  <2>2. r.pc = s.pc /\ s.pc = "deliver"
    BY <1>3, <1>11, <2>1 DEF ThreadRecs, SubReplay, At
  <2>3. cur' = cur /\ (th' = [th EXCEPT !["dispatch"] = r] \/ th' = [th EXCEPT !["dispatch"] = IdleThread])
    BY <1>3, <1>11, <2>1 DEF SubReplay
  <2> QED BY <1>1, <1>2, <1>7, <2>2, <2>3, ThreadStep
<1>12. CASE UnsubWindow
  BY <1>12 DEF UnsubWindow, At, Once
<1> QED BY <1>4, <1>5, <1>6, <1>8, <1>9, <1>10, <1>11, <1>12 DEF DispatchStep

LEMMA WorkOnce ==
  ASSUME IInv, Once,
         \/ SweepTick \/ TickStart \/ TickCheck
         \/ \E t \in Threads : PumpStep(t)
  PROVE  Once'
<1>1. pub' = pub /\ cur' = cur
  BY DEF SweepTick, TickStart, TickCheck, PumpStep, PumpStart, PumpFetch, PumpReset, PumpAdmit
<1>2. DOMAIN th = Threads /\ "dispatch" \in Threads /\ "tick" # "dispatch"
  BY DEF IInv, Types, ThreadTypes, Threads
<1>3. CASE SweepTick \/ TickStart \/ TickCheck
  <2>1. \E r : th' = [th EXCEPT !["tick"] = r]
    BY <1>3 DEF SweepTick, TickStart, TickCheck
  <2>2. th'["dispatch"] = th["dispatch"]
    BY <1>2, <2>1
  <2> QED BY <1>1, <2>2, OnceKept
<1>4. ASSUME NEW t \in Threads, PumpStep(t) PROVE Once'
  <2>1. PICK s \in ThreadRecs : s = th[t]
    BY DEF IInv, Types, ThreadTypes
  <2>2. IdleThread.pc = "idle" /\ \A w : [IdleThread EXCEPT !.pc = "point", !.win = w].pc = "point"
    BY DEF IdleThread
  <2>3. s.pc \in {"point", "fetch", "reset", "admit"}
    BY <1>4, <2>1 DEF PumpStep, PumpStart, PumpFetch, PumpReset, PumpAdmit, At
  <2>4. CASE PumpStart(t)
    <3>1. PICK f, e, m : \/ th' = [th EXCEPT ![t] = IdleThread]
                         \/ th' = [th EXCEPT ![t] = [s EXCEPT !.pc = "fetch", !.from = f,
                                                              !.epoch = e, !.room = m]]
      BY <2>1, <2>4 DEF PumpStart
    <3>2. [s EXCEPT !.pc = "fetch", !.from = f, !.epoch = e, !.room = m].pc = "fetch"
      BY DEF ThreadRecs
    <3> QED BY <1>1, <2>2, <3>1, <3>2, ThreadStep
  <2>5. CASE PumpFetch(t)
    <3>1. PICK b : \/ th' = [th EXCEPT ![t] = IdleThread]
                   \/ th' = [th EXCEPT ![t] = [s EXCEPT !.pc = "reset"]]
                   \/ th' = [th EXCEPT ![t] = [s EXCEPT !.pc = "admit", !.batch = b]]
      BY <2>1, <2>5 DEF PumpFetch
    <3>2. [s EXCEPT !.pc = "reset"].pc = "reset" /\ [s EXCEPT !.pc = "admit", !.batch = b].pc = "admit"
      BY DEF ThreadRecs
    <3> QED BY <1>1, <2>2, <3>1, <3>2, ThreadStep
  <2>6. CASE PumpReset(t)
    <3>1. th' = [th EXCEPT ![t] = IdleThread]
      BY <2>6 DEF PumpReset
    <3> QED BY <1>1, <2>2, <3>1, ThreadStep
  <2>7. CASE PumpAdmit(t)
    <3>1. PICK b : \/ th' = [th EXCEPT ![t] = IdleThread]
                   \/ th' = [th EXCEPT ![t] = [IdleThread EXCEPT !.pc = "point", !.win = s.win]]
                   \/ th' = [th EXCEPT ![t] = [s EXCEPT !.batch = b]]
      BY <2>1, <2>7 DEF PumpAdmit
    <3>2. [s EXCEPT !.batch = b].pc = s.pc
      BY DEF ThreadRecs
    <3> QED BY <1>1, <2>2, <2>3, <3>1, <3>2, ThreadStep
  <2> QED BY <1>4, <2>4, <2>5, <2>6, <2>7 DEF PumpStep
<1> QED BY <1>3, <1>4

\* A session that subscribes once never has a delivery around its gate,
\* whatever it does with recover points and whether or not the channel is
\* recreated: "deliveries must never bypass the gate" (ops.go:113-115).
THEOREM OneSubscriptionIsGated ==
  ASSUME MaxWindows = 1
  PROVE  Spec => []Gated
<1>1. Init => Once
  <2> SUFFICES ASSUME Init PROVE Once
    OBVIOUS
  <2>1. th["dispatch"].pc = "idle" /\ \A p \in Pubs : pub[p].pc = "idle"
    BY DEF Init, Threads, IdleThread, IdlePub
  <2> QED BY <2>1 DEF Once, Gated
<1>2. IInv /\ Once /\ [Next]_vars => Once'
  <2> SUFFICES ASSUME IInv, Once, [Next]_vars PROVE Once'
    OBVIOUS
  <2>1. CASE \E p \in Pubs : PubAcquire(p) \/ PubStep(p)
    BY <2>1, PubOnce
  <2>2. CASE SubInstall \/ UnsubEngine \/ DispatchConfirm \/ DispatchStep
    BY <2>2, RequestOnce
  <2>3. CASE \/ SweepTick \/ TickStart \/ TickCheck
             \/ \E t \in Threads : PumpStep(t)
    BY <2>3, WorkOnce
  <2>4. CASE \/ Age \/ Expire \/ Reap \/ SweeperStop \/ SweeperExit
             \/ ClientRecv \/ ClientConfirm \/ UNCHANGED vars
    BY <2>4, OnceKept
    DEF Age, Expire, Reap, SweeperStop, SweeperExit, ClientRecv, ClientConfirm, vars
  <2>5. CASE SessionStop \/ SessionJoin
    <3>1. DOMAIN th = Threads /\ "dispatch" \in Threads
      BY DEF IInv, Types, ThreadTypes, Threads
    <3>2. PICK s \in ThreadRecs : s = th["dispatch"]
      BY <3>1 DEF IInv, Types, ThreadTypes
    <3>3. PICK r : /\ r = [s EXCEPT !.pc = "joining"] \/ r = [s EXCEPT !.pc = "ended"]
                   /\ th' = [th EXCEPT !["dispatch"] = r]
      BY <2>5, <3>2 DEF SessionStop, SessionJoin
    <3>4. r.pc \in {"joining", "ended"}
      BY <3>3 DEF ThreadRecs
    <3>5. pub' = pub /\ cur' = cur
      BY <2>5 DEF SessionStop, SessionJoin
    <3> QED BY <3>1, <3>3, <3>4, <3>5, ThreadStep
  <2> QED BY <2>1, <2>2, <2>3, <2>4, <2>5 DEF Next
<1>3. Once => Gated
  BY DEF Once
<1> QED BY <1>1, <1>2, <1>3, DeliveryInvariant, PTL DEF Spec

\* For a session that subscribes once, with its recover point, the two promises
\* need no condition on the gate.
COROLLARY OneSubscriptionInOrder ==
  ASSUME Recovering, MaxEpoch = 1, MaxWindows = 1
  PROVE  Spec => [](GapFree /\ ConfirmedWasReceived)
  BY OneSubscriptionIsGated, GapFreeHolds, ConfirmedWasReceivedHolds, PTL
=============================================================================
