-------------------------- MODULE CreditWindowProofs --------------------------
(***************************************************************************)
(* The safety properties of the credit window for every credit limit,      *)
(* redelivery budget, offset range, set of epochs and payload sizes.  One  *)
(* lemma per call shows that it preserves IInv; the theorems follow.       *)
(***************************************************************************)
EXTENDS CreditWindow, SequenceTheorems, TLAPS

USE DEF Offsets, Budget

\* A window as NewWindow makes it satisfies the invariant (window.go:66-73).
LEMMA InitIInv == Init => IInv
<1> SUFFICES ASSUME Init PROVE IInv
  OBVIOUS
<1> USE WindowAssumption, CallAssumption
<1>1. TypeOK
  BY DEF Init, NewWindow, NoSends, TypeOK, WindowWithBytes, Entry
<1> QED
  BY <1>1 DEF Init, IInv, NewWindow, Contiguous, CountRespected, UnpinnedIsEmpty,
     CursorBounds, ConfirmCoversSent, InflightSent, AttemptsPaid, PoisonedAfterBudget

\* The fields of a window that satisfies the invariant.
LEMMA TypeFacts ==
  ASSUME IInv
  PROVE  /\ w.confirmed \in Nat /\ w.delivered \in Nat /\ w.baselined \in BOOLEAN
         /\ w.attempts \in Nat /\ w.attemptsOffset \in Nat /\ base \in Nat
         /\ w.inflight \in Seq(Entry) /\ Len(w.inflight) \in Nat
         /\ w.inflight # <<>> => Len(w.inflight) > 0
         /\ \A o \in Offsets : sends[o] \in 0..Budget
<1>1. w.inflight \in Seq(Entry)
  BY DEF IInv, TypeOK, WindowWithBytes
<1>2. Len(w.inflight) \in Nat /\ (w.inflight # <<>> => Len(w.inflight) > 0)
  BY <1>1, EmptySeq, LenProperties
<1>3. \A o \in Offsets : sends[o] \in 0..Budget
  BY DEF IInv, TypeOK
<1> QED
  BY <1>1, <1>2, <1>3 DEF IInv, TypeOK, WindowWithBytes

\* A call that changes nothing preserves the invariant.
LEMMA StutterIInv == IInv /\ UNCHANGED vars => IInv'
  BY DEF vars, IInv, TypeOK, Contiguous, CountRespected, UnpinnedIsEmpty,
     CursorBounds, ConfirmCoversSent, InflightSent, AttemptsPaid, PoisonedAfterBudget

\* Reset forgets everything, which the invariant allows (window.go:151-163).
LEMMA ResetIInv == IInv /\ ResetCall => IInv'
<1> SUFFICES ASSUME IInv, ResetCall PROVE IInv'
  OBVIOUS
<1> USE WindowAssumption, CallAssumption
<1>1. w' = [w EXCEPT !.baselined = FALSE, !.epoch = 0, !.delivered = 0, !.confirmed = 0,
                     !.inflight = <<>>, !.inflightBytes = 0,
                     !.attempts = 0, !.attemptsOffset = 0]
  BY DEF ResetCall, Reset
<1>2. 0 \in Nat /\ <<>> \in Seq(Entry) /\ w'.inflightBytes = 0
  BY <1>1 DEF IInv, TypeOK, WindowWithBytes
<1>3. w' \in WindowWithBytes(w'.inflightBytes)
  BY <1>1, <1>2, Zenon DEF IInv, TypeOK, WindowWithBytes
<1>4. TypeOK'
  BY <1>3 DEF TypeOK, ResetCall, NoSends
<1>5. /\ ~w'.baselined /\ w'.delivered = 0 /\ w'.confirmed = 0 /\ w'.inflight = <<>>
      /\ w'.attempts = 0 /\ w'.attemptsOffset = 0 /\ base' = 0 /\ poisoned' = {}
  BY <1>1 DEF IInv, TypeOK, WindowWithBytes, ResetCall
<1> QED
  BY <1>4, <1>5 DEF IInv, Contiguous, CountRespected, UnpinnedIsEmpty,
     CursorBounds, ConfirmCoversSent, InflightSent, AttemptsPaid, PoisonedAfterBudget

\* Baseline pins an unpinned window and leaves any other alone
\* (window.go:136-147).
LEMMA BaselineIInv ==
  ASSUME IInv, NEW o \in 0..MaxOffset, NEW e \in Epochs, BaselineCall(o, e)
  PROVE  IInv'
<1> USE WindowAssumption, CallAssumption
<1>1. CASE w.baselined
  <2>1. UNCHANGED vars
    BY <1>1 DEF BaselineCall, Baseline, vars
  <2> QED BY <2>1, StutterIInv
<1>2. CASE ~w.baselined
  <2>1. w' = [w EXCEPT !.baselined = TRUE, !.epoch = e, !.delivered = o, !.confirmed = o]
    BY <1>2 DEF BaselineCall, Baseline
  <2>2. o \in Nat /\ e \in Nat /\ w'.inflightBytes = w.inflightBytes
    BY <2>1 DEF IInv, TypeOK, WindowWithBytes
  <2>3. w' \in WindowWithBytes(w'.inflightBytes)
    BY <2>1, <2>2, Zenon DEF IInv, TypeOK, WindowWithBytes
  <2>4. TypeOK'
    BY <1>2, <2>3 DEF TypeOK, BaselineCall, NoSends
  <2>5. /\ w'.baselined /\ w'.delivered = o /\ w'.confirmed = o
        /\ w'.inflight = <<>> /\ w'.attempts = 0 /\ w'.attemptsOffset = 0
        /\ base' = o /\ poisoned' = {}
    BY <1>2, <2>1 DEF IInv, TypeOK, WindowWithBytes, UnpinnedIsEmpty, BaselineCall
  <2> QED
    BY <2>2, <2>4, <2>5 DEF IInv, Contiguous, CountRespected, UnpinnedIsEmpty,
       CursorBounds, ConfirmCoversSent, InflightSent, AttemptsPaid, PoisonedAfterBudget
<1> QED BY <1>1, <1>2

\* The passing of time touches no cursor.
LEMMA TimeIInv == IInv /\ TimePasses => IInv'
<1> SUFFICES ASSUME IInv, TimePasses PROVE IInv'
  OBVIOUS
<1>1. w' = [w EXCEPT !.aged = TRUE] /\ UNCHANGED <<base, sends, poisoned>>
  BY DEF TimePasses, Aged
<1>2. w'.inflightBytes = w.inflightBytes
  BY <1>1 DEF IInv, TypeOK, WindowWithBytes
<1>3. w' \in WindowWithBytes(w'.inflightBytes)
  BY <1>1, <1>2, Zenon DEF IInv, TypeOK, WindowWithBytes
<1>4. /\ w'.baselined = w.baselined /\ w'.delivered = w.delivered
      /\ w'.confirmed = w.confirmed /\ w'.inflight = w.inflight
      /\ w'.attempts = w.attempts /\ w'.attemptsOffset = w.attemptsOffset
  BY <1>1 DEF IInv, TypeOK, WindowWithBytes
<1> QED
  BY <1>1, <1>3, <1>4 DEF IInv, TypeOK, Contiguous, CountRespected, UnpinnedIsEmpty,
     CursorBounds, ConfirmCoversSent, InflightSent, AttemptsPaid, PoisonedAfterBudget

\* CheckRedelivery rewinds to the confirmed offset, or one past it when the
\* head's budget is spent (window.go:199-232).
LEMMA RedeliveryIInv == IInv /\ RedeliveryCall => IInv'
<1> SUFFICES ASSUME IInv, RedeliveryCall PROVE IInv'
  OBVIOUS
<1> USE WindowAssumption, CallAssumption
<1>1. CASE ~RedeliveryDue(w)
  <2>1. UNCHANGED vars
    BY <1>1 DEF RedeliveryCall, CheckRedelivery, Poisoned, vars
  <2> QED BY <2>1, StutterIInv
<1>2. CASE RedeliveryDue(w)
  <2> DEFINE head == w.confirmed + 1
  <2>1. /\ w.confirmed \in Nat /\ w.delivered \in Nat /\ base \in Nat
        /\ w.attempts \in Nat /\ w.attemptsOffset \in Nat
        /\ w.inflight # <<>>
    BY <1>2, TypeFacts DEF RedeliveryDue
  <2>2. Len(w.inflight) \in Nat /\ Len(w.inflight) > 0
    BY <2>1, TypeFacts
  <2>3. /\ w.inflight[1].offset = head
        /\ w.confirmed < w.delivered
        /\ head \in Offsets
    BY <2>1, <2>2 DEF IInv, Contiguous, CursorBounds
  <2>4. w.baselined
    BY <2>1 DEF IInv, UnpinnedIsEmpty
  <2>5. sends[head] \in 0..Budget /\ sends[head] >= 1
    BY <2>1, <2>3, TypeFacts DEF IInv, InflightSent
  <2>6. /\ HeadAttempts(w) \in 0..MaxRedeliveries
        /\ sends[head] >= HeadAttempts(w) + 1
    <3>1. CASE w.attemptsOffset = head
      BY <2>1, <2>3, <2>5, <3>1 DEF HeadAttempts, IInv, AttemptsPaid
    <3>2. CASE w.attemptsOffset # head
      BY <2>3, <2>5, <3>2 DEF HeadAttempts
    <3> QED BY <3>1, <3>2
  <2>7. CASE HeadAttempts(w) >= MaxRedeliveries
    <3>1. Poisoned(w) = head /\ head # 0
      BY <1>2, <2>1, <2>3, <2>7 DEF Poisoned
    <3>2. /\ w' = [w EXCEPT !.attempts = 0, !.attemptsOffset = 0, !.confirmed = head,
                            !.delivered = head, !.inflight = <<>>,
                            !.inflightBytes = 0, !.aged = FALSE]
          /\ poisoned' = poisoned \union {head}
          /\ base' = base /\ sends' = sends
      BY <1>2, <2>3, <3>1 DEF RedeliveryCall, CheckRedelivery
    <3>3. sends[head] = Budget
      BY <2>5, <2>6, <2>7
    <3>4. /\ w'.confirmed = head /\ w'.delivered = head /\ w'.inflight = <<>>
          /\ w'.attempts = 0 /\ w'.attemptsOffset = 0 /\ w'.baselined
          /\ w'.inflightBytes = 0
      BY <2>4, <3>2 DEF IInv, TypeOK, WindowWithBytes
    <3>5. 0 \in Nat /\ <<>> \in Seq(Entry) /\ head \in Nat
      BY <2>1
    <3>6. w' \in WindowWithBytes(w'.inflightBytes)
      BY <3>2, <3>4, <3>5, Zenon DEF IInv, TypeOK, WindowWithBytes
    <3>7. TypeOK'
      BY <2>3, <3>2, <3>6 DEF IInv, TypeOK
    <3>8. Contiguous' /\ CountRespected' /\ UnpinnedIsEmpty' /\ CursorBounds'
          /\ InflightSent' /\ AttemptsPaid'
      BY <2>1, <2>3, <3>2, <3>4 DEF IInv, Contiguous, CountRespected, UnpinnedIsEmpty,
         CursorBounds, InflightSent, AttemptsPaid
    <3>9. ConfirmCoversSent'
      <4>1. ASSUME NEW o \in base + 1 .. head PROVE sends[o] >= 1
        <5>1. CASE o = head
          BY <2>5, <5>1
        <5>2. CASE o # head
          BY <2>1, <5>2 DEF IInv, ConfirmCoversSent
        <5> QED BY <5>1, <5>2
      <4> QED BY <3>2, <3>4, <4>1 DEF ConfirmCoversSent
    <3>10. PoisonedAfterBudget'
      BY <3>2, <3>3 DEF IInv, PoisonedAfterBudget
    <3> QED BY <3>7, <3>8, <3>9, <3>10 DEF IInv
  <2>8. CASE ~(HeadAttempts(w) >= MaxRedeliveries)
    <3>1. Poisoned(w) = 0
      BY <2>8 DEF Poisoned
    <3>2. /\ w' = [w EXCEPT !.attempts = HeadAttempts(w) + 1, !.attemptsOffset = head,
                            !.confirmed = w.confirmed, !.delivered = w.confirmed,
                            !.inflight = <<>>, !.inflightBytes = 0, !.aged = FALSE]
          /\ base' = base /\ sends' = sends /\ poisoned' = poisoned
      BY <1>2, <2>3, <3>1 DEF RedeliveryCall, CheckRedelivery
    <3>3. HeadAttempts(w) + 1 \in 0..MaxRedeliveries /\ HeadAttempts(w) + 1 \in Nat
      BY <2>6, <2>8
    <3>4. /\ w'.confirmed = w.confirmed /\ w'.delivered = w.confirmed
          /\ w'.inflight = <<>> /\ w'.inflightBytes = 0 /\ w'.baselined
          /\ w'.attempts = HeadAttempts(w) + 1 /\ w'.attemptsOffset = head
      BY <2>4, <3>2 DEF IInv, TypeOK, WindowWithBytes
    <3>5. 0 \in Nat /\ <<>> \in Seq(Entry) /\ head \in Nat
      BY <2>1
    <3>6. w' \in WindowWithBytes(w'.inflightBytes)
      BY <2>1, <3>2, <3>3, <3>4, <3>5, Zenon DEF IInv, TypeOK, WindowWithBytes
    <3>7. TypeOK'
      BY <3>2, <3>6 DEF IInv, TypeOK
    <3>8. Contiguous' /\ CountRespected' /\ UnpinnedIsEmpty' /\ CursorBounds'
          /\ InflightSent' /\ ConfirmCoversSent' /\ PoisonedAfterBudget'
      BY <2>1, <2>3, <3>2, <3>4 DEF IInv, Contiguous, CountRespected, UnpinnedIsEmpty,
         CursorBounds, InflightSent, ConfirmCoversSent, PoisonedAfterBudget
    <3>9. AttemptsPaid'
      BY <2>1, <2>3, <2>6, <3>2, <3>3, <3>4 DEF AttemptsPaid
    <3> QED BY <3>7, <3>8, <3>9 DEF IInv
  <2> QED BY <2>7, <2>8
<1> QED BY <1>1, <1>2

\* Confirm cuts a prefix off the window (window.go:181-189): exactly the
\* entries between the old and the new confirmed offset.
LEMMA TrimmedCount ==
  ASSUME IInv, NEW o \in Nat, w.confirmed < o, o <= w.delivered
  PROVE  Trimmed(w.inflight, o) = o - w.confirmed
<1> DEFINE n == o - w.confirmed
           P(k) == /\ \A i \in 1..k : w.inflight[i].offset <= o
                   /\ k < Len(w.inflight) => w.inflight[k + 1].offset > o
<1>1. /\ w.confirmed \in Nat /\ Len(w.inflight) \in Nat
      /\ w.delivered = w.confirmed + Len(w.inflight)
      /\ \A i \in 1..Len(w.inflight) : w.inflight[i].offset = w.confirmed + i
  BY TypeFacts DEF IInv, Contiguous
<1>2. n \in 0..Len(w.inflight) /\ P(n)
  <2>1. n \in 0..Len(w.inflight)
    BY <1>1
  <2>2. ASSUME NEW i \in 1..n PROVE w.inflight[i].offset <= o
    <3>1. i \in 1..Len(w.inflight)
      BY <1>1, <2>1
    <3>2. w.inflight[i].offset = w.confirmed + i
      BY <1>1, <3>1
    <3> QED BY <1>1, <3>2
  <2>3. ASSUME n < Len(w.inflight) PROVE w.inflight[n + 1].offset > o
    <3>1. n + 1 \in 1..Len(w.inflight)
      BY <1>1, <2>1, <2>3
    <3>2. w.inflight[n + 1].offset = w.confirmed + (n + 1)
      BY <1>1, <3>1
    <3> QED BY <1>1, <3>2
  <2> QED BY <2>1, <2>2, <2>3
<1>3. ASSUME NEW k \in 0..Len(w.inflight), P(k) PROVE k = n
  <2>1. CASE k < n
    <3>1. w.inflight[k + 1].offset = w.confirmed + (k + 1)
      BY <1>1, <1>2, <2>1
    <3> QED BY <1>1, <1>2, <1>3, <2>1, <3>1
  <2>2. CASE k > n
    <3>1. w.inflight[k].offset = w.confirmed + k /\ k \in 1..k
      BY <1>1, <1>2, <2>2
    <3> QED BY <1>1, <1>2, <1>3, <2>2, <3>1
  <2> QED BY <1>1, <1>2, <2>1, <2>2
<1> HIDE DEF n, P
<1>4. (CHOOSE k \in 0..Len(w.inflight) : P(k)) = n
  BY <1>2, <1>3
<1> QED BY <1>4 DEF Trimmed, n, P

\* A confirm, of whatever offset the client claims, preserves the invariant
\* (window.go:169-193).
LEMMA ConfirmIInv ==
  ASSUME IInv, NEW o \in Nat, ConfirmCall(o)
  PROVE  IInv'
<1> USE WindowAssumption, CallAssumption
<1> DEFINE upTo == IF o > w.delivered THEN w.delivered ELSE o
           n    == Trimmed(w.inflight, upTo)
<1>0. /\ w.confirmed \in Nat /\ w.delivered \in Nat /\ base \in Nat
      /\ w.attempts \in Nat /\ w.attemptsOffset \in Nat
      /\ w.inflight \in Seq(Entry) /\ Len(w.inflight) \in Nat
      /\ w.delivered = w.confirmed + Len(w.inflight)
      /\ upTo \in Nat /\ upTo <= w.delivered
  BY TypeFacts DEF IInv, Contiguous
<1>1. CASE upTo <= w.confirmed
  <2>1. UNCHANGED vars
    BY <1>1 DEF ConfirmCall, Confirm, vars
  <2> QED BY <2>1, StutterIInv
<1>2. CASE w.confirmed < upTo
  <2>1. n = upTo - w.confirmed
    BY <1>0, <1>2, TrimmedCount
  <2>2. n \in 1..Len(w.inflight) /\ w.inflight # <<>>
    BY <1>0, <1>2, <2>1
  <2>3. w.baselined
    BY <2>2 DEF IInv, UnpinnedIsEmpty
  <2> DEFINE rest  == SubSeq(w.inflight, n + 1, Len(w.inflight))
             bytes == w.inflightBytes - Bytes(w.inflight, 1..n)
  <2>4. /\ w' = [w EXCEPT !.confirmed = upTo, !.inflight = rest,
                          !.inflightBytes = bytes, !.aged = FALSE]
        /\ base' = base /\ sends' = sends /\ poisoned' = poisoned
    <3>1. n > 0 /\ ~(upTo <= w.confirmed)
      BY <1>0, <1>2, <2>2
    <3> QED BY <3>1, Zenon DEF ConfirmCall, Confirm
  <2> HIDE DEF upTo, n, bytes
  <2>5. /\ rest \in Seq(Entry)
        /\ Len(rest) = Len(w.inflight) - n
        /\ \A i \in 1..Len(rest) : rest[i] = w.inflight[n + i]
    <3>1. \A i \in n + 1 .. Len(w.inflight) : w.inflight[i] \in Entry
      BY <1>0, <2>2, ElementOfSeq
    <3>2. n + 1 \in Int /\ Len(w.inflight) \in Int
      BY <1>0, <2>2
    <3>3. /\ rest \in Seq(Entry)
          /\ Len(rest) = IF n + 1 <= Len(w.inflight) THEN Len(w.inflight) - (n + 1) + 1 ELSE 0
          /\ \A i \in 1 .. Len(w.inflight) - (n + 1) + 1 : rest[i] = w.inflight[(n + 1) + i - 1]
      BY <3>1, <3>2, SubSeqProperties
    <3>4. Len(rest) = Len(w.inflight) - n
      BY <1>0, <2>2, <3>3
    <3>5. ASSUME NEW i \in 1..Len(rest) PROVE rest[i] = w.inflight[n + i]
      <4>1. (n + 1) + i - 1 = n + i /\ i \in 1 .. Len(w.inflight) - (n + 1) + 1
        BY <1>0, <2>2, <3>4
      <4> QED BY <3>3, <4>1
    <3> QED BY <3>3, <3>4, <3>5
  <2> HIDE DEF rest
  <2>7. /\ w'.confirmed = upTo /\ w'.delivered = w.delivered /\ w'.inflight = rest
        /\ w'.inflightBytes = bytes
        /\ w'.baselined = w.baselined /\ w'.attempts = w.attempts
        /\ w'.attemptsOffset = w.attemptsOffset
    BY <2>4 DEF IInv, TypeOK, WindowWithBytes
  <2>8. w' \in WindowWithBytes(w'.inflightBytes)
    BY <1>0, <2>4, <2>5, <2>7, Zenon DEF IInv, TypeOK, WindowWithBytes
  <2>9. TypeOK'
    BY <2>4, <2>8 DEF IInv, TypeOK
  <2>10. Contiguous'
    <3>1. w.delivered = upTo + Len(rest)
      BY <1>0, <2>1, <2>2, <2>5
    <3>2. ASSUME NEW i \in 1..Len(rest) PROVE rest[i].offset = upTo + i
      <4>1. n + i \in 1..Len(w.inflight)
        BY <1>0, <2>2, <2>5
      <4>2. w.inflight[n + i].offset = w.confirmed + (n + i)
        BY <4>1 DEF IInv, Contiguous
      <4>3. rest[i].offset = w.confirmed + (n + i)
        BY <2>5, <4>2
      <4>4. w.confirmed + (n + i) = upTo + i
        BY <1>0, <2>1, <2>2, <2>5
      <4> QED BY <4>3, <4>4
    <3> QED BY <2>7, <3>1, <3>2, Zenon DEF Contiguous
  <2>11. CountRespected'
    <3>1. Len(rest) <= Len(w.inflight)
      BY <1>0, <2>2, <2>5
    <3>2. MaxCount > 0 => Len(rest) <= MaxCount
      BY <1>0, <2>2, <2>5, <3>1 DEF IInv, CountRespected
    <3> QED BY <2>7, <3>2, Zenon DEF CountRespected
  <2>12. UnpinnedIsEmpty' /\ PoisonedAfterBudget'
    BY <2>3, <2>4, <2>7, Zenon DEF IInv, UnpinnedIsEmpty, PoisonedAfterBudget
  <2>13. CursorBounds'
    <3>1. base <= upTo /\ w.delivered <= MaxOffset
      BY <1>0, <1>2 DEF IInv, CursorBounds
    <3> QED BY <2>4, <2>7, <3>1, Zenon DEF CursorBounds
  <2>14. ConfirmCoversSent' /\ InflightSent'
    <3>1. \A k \in base + 1 .. upTo : sends[k] >= 1
      BY <1>0, <1>2 DEF IInv, ConfirmCoversSent, InflightSent, CursorBounds
    <3>2. \A k \in upTo + 1 .. w.delivered : sends[k] >= 1
      BY <1>0, <1>2 DEF IInv, InflightSent
    <3> QED BY <2>4, <2>7, <3>1, <3>2, Zenon DEF ConfirmCoversSent, InflightSent
  <2>15. AttemptsPaid'
    <3>1. /\ w.attempts <= MaxRedeliveries
          /\ w.attemptsOffset <= upTo + 1 /\ w.attemptsOffset <= MaxOffset
          /\ w.attemptsOffset # upTo + 1
      BY <1>0, <1>2 DEF IInv, AttemptsPaid
    <3> QED BY <2>7, <3>1, Zenon DEF AttemptsPaid
  <2> QED BY <2>9, <2>10, <2>11, <2>12, <2>13, <2>14, <2>15 DEF IInv
<1> QED BY <1>0, <1>1, <1>2

\* Only the next offset is admitted, and only within the credit
\* (window.go:107-122).
LEMMA AdmittedIsNext ==
  ASSUME NEW v, v.delivered \in Nat, NEW o \in Nat, NEW s, NEW ok \in BOOLEAN,
         Verdict(v, o, s, ok) = "Admitted"
  PROVE  o = v.delivered + 1 /\ HasCredit(v, s)
<1>1. CASE o <= v.delivered
  BY <1>1 DEF Verdict
<1>2. CASE o > v.delivered + 1
  BY <1>2 DEF Verdict
<1>3. CASE o = v.delivered + 1 /\ ~HasCredit(v, s)
  BY <1>3 DEF Verdict
<1> QED BY <1>1, <1>2, <1>3

\* An admit on a pinned window of the same epoch appends the next offset to
\* the window or changes nothing (window.go:107-130).
LEMMA AdmitSameEpochIInv ==
  ASSUME IInv, NEW o \in Offsets, NEW e \in Epochs, NEW s \in Sizes, NEW ok \in BOOLEAN,
         AdmitCall(o, e, s, ok), ~Rebaselines(o, e)
  PROVE  IInv'
<1> USE WindowAssumption, CallAssumption
<1>0. o \in Nat /\ o # 0 /\ w.baselined /\ Rebase(w, o, e) = w
  BY DEF Rebaselines, Rebase
<1>1. /\ w.confirmed \in Nat /\ w.delivered \in Nat /\ base \in Nat
      /\ w.attempts \in Nat /\ w.attemptsOffset \in Nat
      /\ w.inflight \in Seq(Entry) /\ Len(w.inflight) \in Nat
      /\ w.delivered = w.confirmed + Len(w.inflight)
      /\ sends[o] \in 0..Budget
  BY TypeFacts DEF IInv, Contiguous
<1> DEFINE v == Verdict(w, o, s, ok)
<1>2. CASE v # "Admitted"
  <2>1. UNCHANGED vars
    BY <1>0, <1>2 DEF AdmitCall, Admit, vars
  <2> QED BY <2>1, StutterIInv
<1>3. CASE v = "Admitted"
  <2>1. o = w.delivered + 1 /\ HasCredit(w, s)
    BY <1>0, <1>1, <1>3, AdmittedIsNext
  <2> HIDE DEF v
  <2> DEFINE entry == [offset |-> o, size |-> s]
             grown == Append(w.inflight, entry)
             bytes == w.inflightBytes + s
             aged  == IF w.inflight = <<>> THEN FALSE ELSE w.aged
  <2>2. /\ w' = [w EXCEPT !.inflight = grown, !.inflightBytes = bytes,
                          !.delivered = o, !.aged = aged]
        /\ base' = base /\ poisoned' = poisoned
        /\ sends' = IF sends[o] < Budget THEN [sends EXCEPT ![o] = @ + 1] ELSE sends
    BY <1>0, <1>3 DEF AdmitCall, Admit, Commit, v
  <2>3. /\ entry \in Entry /\ entry.offset = o
        /\ aged \in BOOLEAN
    BY <1>0 DEF Entry, IInv, TypeOK, WindowWithBytes
  <2> HIDE DEF entry, bytes, aged
  <2>4. /\ grown \in Seq(Entry) /\ grown # <<>>
        /\ Len(grown) = Len(w.inflight) + 1
        /\ \A i \in 1..Len(w.inflight) : grown[i] = w.inflight[i]
        /\ grown[Len(w.inflight) + 1] = entry
    BY <1>1, <2>3, AppendProperties
  <2> HIDE DEF grown
  <2>5. /\ w'.confirmed = w.confirmed /\ w'.delivered = o /\ w'.inflight = grown
        /\ w'.inflightBytes = bytes /\ w'.baselined = w.baselined
        /\ w'.attempts = w.attempts /\ w'.attemptsOffset = w.attemptsOffset
    BY <2>2 DEF IInv, TypeOK, WindowWithBytes
  <2>6. w' \in WindowWithBytes(w'.inflightBytes)
    BY <1>0, <2>2, <2>3, <2>4, <2>5, Zenon DEF IInv, TypeOK, WindowWithBytes
  <2>7. /\ sends' \in [Offsets -> 0..Budget]
        /\ sends'[o] >= 1
        /\ sends'[o] = IF sends[o] < Budget THEN sends[o] + 1 ELSE Budget
        /\ \A k \in Offsets : k # o => sends'[k] = sends[k]
    <3>1. sends \in [Offsets -> 0..Budget]
      BY DEF IInv, TypeOK
    <3>2. CASE sends[o] < Budget
      <4>1. sends' = [sends EXCEPT ![o] = sends[o] + 1]
        BY <2>2, <3>2, Zenon
      <4>2. sends[o] \in Nat /\ Budget \in Nat /\ sends[o] + 1 \in 0..Budget
        BY <1>1, <3>1, <3>2
      <4> QED BY <1>1, <3>1, <3>2, <4>1, <4>2
    <3>3. CASE ~(sends[o] < Budget)
      <4>1. sends' = sends /\ sends[o] = Budget
        BY <1>1, <2>2, <3>3
      <4> QED BY <1>1, <3>1, <3>3, <4>1
    <3> QED BY <3>2, <3>3
  <2>8. TypeOK'
    BY <2>2, <2>6, <2>7 DEF IInv, TypeOK
  <2>9. Contiguous'
    <3>1. o = w.confirmed + Len(grown)
      <4>1. /\ w.confirmed \in Nat /\ Len(w.inflight) \in Nat
            /\ w.delivered = w.confirmed + Len(w.inflight)
        BY <1>1, Zenon
      <4>2. o = w.delivered + 1
        BY <2>1, Zenon
      <4>3. Len(grown) = Len(w.inflight) + 1
        BY <2>4, Zenon
      <4> QED BY ONLY <4>1, <4>2, <4>3
    <3>2. ASSUME NEW i \in 1..Len(grown) PROVE grown[i].offset = w.confirmed + i
      <4>1. CASE i \in 1..Len(w.inflight)
        <5>1. w.inflight[i].offset = w.confirmed + i
          BY <4>1 DEF IInv, Contiguous
        <5> QED BY <2>4, <4>1, <5>1
      <4>2. CASE i = Len(w.inflight) + 1
        BY <2>3, <2>4, <3>1, <4>2
      <4> QED BY <1>1, <2>4, <4>1, <4>2
    <3> QED BY <2>5, <3>1, <3>2, Zenon DEF Contiguous
  <2>10. CountRespected'
    <3>1. MaxCount > 0 => Len(grown) <= MaxCount
      BY <1>1, <2>1, <2>4 DEF HasCredit
    <3> QED BY <2>5, <3>1, Zenon DEF CountRespected
  <2>11. UnpinnedIsEmpty'
    BY <1>0, <2>5, Zenon DEF UnpinnedIsEmpty
  <2>12. CursorBounds'
    <3>1. base <= w.confirmed /\ o <= MaxOffset
      BY DEF IInv, CursorBounds
    <3> QED BY <2>2, <2>5, <3>1, Zenon DEF CursorBounds
  <2>13. \A k \in Offsets : sends'[k] >= sends[k]
    <3>1. ASSUME NEW k \in Offsets PROVE sends'[k] >= sends[k]
      <4>1. sends[k] \in 0..Budget
        BY TypeFacts
      <4>2. CASE k = o
        BY <1>1, <2>7, <4>1, <4>2
      <4>3. CASE k # o
        BY <2>7, <4>1, <4>3
      <4> QED BY <4>2, <4>3
    <3> QED BY <3>1
  <2>14. ConfirmCoversSent'
    <3>1. ASSUME NEW k \in base + 1 .. w.confirmed PROVE sends'[k] >= 1
      <4>1. k \in Offsets /\ sends[k] >= 1
        BY <1>1 DEF IInv, ConfirmCoversSent, CursorBounds
      <4>2. sends[k] \in Nat /\ sends'[k] \in Nat
        BY <2>7, <4>1, TypeFacts
      <4> QED BY <2>13, <4>1, <4>2
    <3> QED BY <2>2, <2>5, <3>1, Zenon DEF ConfirmCoversSent
  <2>15. InflightSent'
    <3>1. ASSUME NEW k \in w.confirmed + 1 .. o PROVE sends'[k] >= 1
      <4>1. CASE k = o
        BY <2>7, <4>1
      <4>2. CASE k # o
        <5>1. k \in w.confirmed + 1 .. w.delivered /\ k \in Offsets
          BY <1>1, <2>1, <4>2 DEF IInv, CursorBounds
        <5>2. sends[k] >= 1 /\ sends'[k] = sends[k]
          BY <2>7, <4>2, <5>1 DEF IInv, InflightSent
        <5> QED BY <5>2
      <4> QED BY <4>1, <4>2
    <3> QED BY <2>5, <3>1, Zenon DEF InflightSent
  <2>16. AttemptsPaid'
    <3> DEFINE t == w.attemptsOffset
    <3>1. w.attempts <= MaxRedeliveries /\ t <= w.confirmed + 1 /\ t <= MaxOffset
      BY DEF IInv, AttemptsPaid
    <3>2. ASSUME t = w.confirmed + 1 PROVE sends'[t] >= w.attempts + 1
      <4>0. t \in Offsets
        BY <1>1, <3>1, <3>2
      <4>1. sends[t] \in 0..Budget /\ sends'[t] \in 0..Budget
        BY <2>7, <4>0, TypeFacts
      <4>2. CASE w.inflight = <<>>
        <5>1. t = o
          BY <1>1, <2>1, <3>2, <4>2
        <5>2. sends[t] >= w.attempts
          BY <3>2, <4>1, <4>2, <1>1 DEF IInv, AttemptsPaid
        <5> QED BY <1>1, <2>7, <3>1, <5>1, <5>2
      <4>3. CASE w.inflight # <<>>
        <5>1. sends[t] >= w.attempts + 1
          BY <3>2, <4>1, <4>3, <1>1 DEF IInv, AttemptsPaid
        <5>2. sends'[t] >= sends[t]
          BY <2>13, <4>0
        <5> QED BY <1>1, <4>1, <5>1, <5>2
      <4> QED BY <4>2, <4>3
    <3> HIDE DEF t
    <3>3. w'.attemptsOffset = t /\ w'.inflight # <<>>
      BY <2>4, <2>5 DEF t
    <3> QED BY <2>5, <3>1, <3>2, <3>3 DEF AttemptsPaid
  <2>17. PoisonedAfterBudget'
    <3>1. ASSUME NEW k \in poisoned PROVE sends'[k] = Budget
      <4>1. k \in Offsets /\ sends[k] = Budget
        BY DEF IInv, TypeOK, PoisonedAfterBudget
      <4> QED BY <1>1, <2>7, <4>1
    <3> QED BY <2>2, <3>1, Zenon DEF PoisonedAfterBudget
  <2> QED
    BY <2>8, <2>9, <2>10, <2>11, <2>12, <2>14, <2>15, <2>16, <2>17 DEF IInv
<1> QED BY <1>2, <1>3

\* An admit that pins the window, or moves it to another epoch, starts from
\* an empty window just below the offset (window.go:92-105); the delivery
\* then fits, and enters if the transport takes it.
LEMMA AdmitRebaseIInv ==
  ASSUME IInv, NEW o \in Offsets, NEW e \in Epochs, NEW s \in Sizes, NEW ok \in BOOLEAN,
         AdmitCall(o, e, s, ok), Rebaselines(o, e)
  PROVE  IInv'
<1> USE WindowAssumption, CallAssumption
<1> DEFINE b == Rebase(w, o, e)
           floor == o - 1
<1>0. o \in Nat /\ o # 0 /\ e \in Nat /\ s \in Nat /\ floor \in Nat /\ floor + 1 = o
  OBVIOUS
<1>1. /\ b.baselined /\ b.delivered = floor /\ b.confirmed = floor
      /\ b.inflight = <<>> /\ b.attempts = 0 /\ b.attemptsOffset = 0
      /\ b \in WindowWithBytes(b.inflightBytes)
  <2>0. 0 \in Nat /\ <<>> \in Seq(Entry)
    OBVIOUS
  <2>1. CASE ~w.baselined
    <3>1. b = [w EXCEPT !.baselined = TRUE, !.epoch = e,
                        !.delivered = floor, !.confirmed = floor]
      BY <2>1 DEF Rebase
    <3>2. w.inflight = <<>> /\ w.attempts = 0 /\ w.attemptsOffset = 0
      BY <2>1 DEF IInv, UnpinnedIsEmpty
    <3> HIDE DEF b, floor
    <3>3. /\ b.baselined /\ b.delivered = floor /\ b.confirmed = floor
          /\ b.inflight = <<>> /\ b.attempts = 0 /\ b.attemptsOffset = 0
          /\ b.inflightBytes = w.inflightBytes
      BY <3>1, <3>2 DEF IInv, TypeOK, WindowWithBytes
    <3>4. b \in WindowWithBytes(b.inflightBytes)
      BY <1>0, <3>1, <3>3, Zenon DEF IInv, TypeOK, WindowWithBytes
    <3> QED BY <3>3, <3>4
  <2>2. CASE w.baselined
    <3>1. b = [w EXCEPT !.epoch = e, !.delivered = floor, !.confirmed = floor,
                        !.inflight = <<>>, !.inflightBytes = 0,
                        !.attempts = 0, !.attemptsOffset = 0]
      BY <2>2 DEF Rebase, Rebaselines
    <3> HIDE DEF b, floor
    <3>2. /\ b.baselined /\ b.delivered = floor /\ b.confirmed = floor
          /\ b.inflight = <<>> /\ b.attempts = 0 /\ b.attemptsOffset = 0
          /\ b.inflightBytes = 0
      BY <2>2, <3>1 DEF IInv, TypeOK, WindowWithBytes
    <3>3. b \in WindowWithBytes(b.inflightBytes)
      BY <1>0, <2>0, <3>1, <3>2, Zenon DEF IInv, TypeOK, WindowWithBytes
    <3> QED BY <3>2, <3>3
  <2> QED BY <2>1, <2>2
<1> DEFINE v == Verdict(b, o, s, ok)
<1>2. /\ w' = IF v = "Admitted" THEN Commit(b, o, s) ELSE b
      /\ sends' = IF v = "Admitted" /\ NoSends[o] < Budget
                  THEN [NoSends EXCEPT ![o] = NoSends[o] + 1] ELSE NoSends
      /\ base' = floor /\ poisoned' = {}
  BY <1>0 DEF AdmitCall, Admit
<1> HIDE DEF b, floor, v
<1>3. CASE v # "Admitted"
  <2>1. w' = b /\ sends' = NoSends
    BY <1>2, <1>3
  <2>2. TypeOK'
    BY <1>0, <1>1, <1>2, <2>1 DEF TypeOK, NoSends
  <2>3. floor <= MaxOffset
    BY <1>0
  <2> QED
    BY <1>0, <1>1, <1>2, <2>1, <2>2, <2>3 DEF IInv, Contiguous, CountRespected,
       UnpinnedIsEmpty, CursorBounds, ConfirmCoversSent, InflightSent,
       AttemptsPaid, PoisonedAfterBudget
<1>4. CASE v = "Admitted"
  <2> DEFINE entry == [offset |-> o, size |-> s]
             grown == Append(<<>>, entry)
             bytes == b.inflightBytes + s
  <2>1. w' = [b EXCEPT !.inflight = grown, !.inflightBytes = bytes,
                       !.delivered = o, !.aged = FALSE]
    BY <1>1, <1>2, <1>4 DEF Commit
  <2>2. /\ sends' \in [Offsets -> 0..Budget] /\ sends'[o] = 1
    BY <1>0, <1>2, <1>4 DEF NoSends
  <2>3. entry \in Entry /\ entry.offset = o
    BY <1>0 DEF Entry
  <2> HIDE DEF entry, bytes
  <2>4. /\ grown \in Seq(Entry) /\ grown # <<>> /\ Len(grown) = 1 /\ grown[1] = entry
    BY <2>3, EmptySeq, AppendProperties
  <2> HIDE DEF grown
  <2>5. /\ w'.confirmed = floor /\ w'.delivered = o /\ w'.inflight = grown
        /\ w'.inflightBytes = bytes /\ w'.baselined
        /\ w'.attempts = 0 /\ w'.attemptsOffset = 0
    BY <1>1, <2>1 DEF WindowWithBytes
  <2>6. w' \in WindowWithBytes(w'.inflightBytes)
    BY <1>0, <1>1, <2>1, <2>4, <2>5, Zenon DEF WindowWithBytes
  <2>7. TypeOK'
    BY <1>0, <1>2, <2>2, <2>6 DEF TypeOK
  <2>8. Contiguous' /\ CountRespected'
    <3>1. o = floor + Len(grown) /\ \A i \in 1..Len(grown) : grown[i].offset = floor + i
      BY <1>0, <2>3, <2>4
    <3>2. MaxCount > 0 => Len(grown) <= MaxCount
      BY <2>4
    <3> QED BY <2>5, <3>1, <3>2, Zenon DEF Contiguous, CountRespected
  <2>9. UnpinnedIsEmpty' /\ CursorBounds' /\ AttemptsPaid' /\ PoisonedAfterBudget'
    BY <1>0, <1>2, <2>5 DEF UnpinnedIsEmpty, CursorBounds, AttemptsPaid, PoisonedAfterBudget
  <2>10. ConfirmCoversSent' /\ InflightSent'
    <3>1. \A k \in floor + 1 .. floor : sends'[k] >= 1
      BY <1>0
    <3>2. \A k \in floor + 1 .. o : sends'[k] >= 1
      BY <1>0, <2>2
    <3> QED BY <1>2, <2>5, <3>1, <3>2, Zenon DEF ConfirmCoversSent, InflightSent
  <2> QED BY <2>7, <2>8, <2>9, <2>10 DEF IInv
<1> QED BY <1>3, <1>4

\* Admit preserves the invariant, whoever calls it with whatever offset,
\* epoch and size, and whatever the transport answers (window.go:84-131).
LEMMA AdmitIInv ==
  ASSUME IInv, NEW o \in 0..MaxOffset, NEW e \in Epochs, NEW s \in Sizes,
         NEW ok \in BOOLEAN, AdmitCall(o, e, s, ok)
  PROVE  IInv'
<1>1. CASE o = 0
  <2>1. UNCHANGED vars
    BY <1>1 DEF AdmitCall, Admit, Rebaselines, vars
  <2> QED BY <2>1, StutterIInv
<1>2. CASE o # 0
  <2>1. o \in Offsets
    BY <1>2, CallAssumption
  <2> QED BY <2>1, AdmitSameEpochIInv, AdmitRebaseIInv
<1> QED BY <1>1, <1>2

\* Every step of the window preserves the invariant.
LEMMA NextIInv == IInv /\ [Next]_vars => IInv'
<1> SUFFICES ASSUME IInv, [Next]_vars PROVE IInv'
  OBVIOUS
<1>1. CASE \E o \in 0..MaxOffset, e \in Epochs, s \in Sizes, ok \in BOOLEAN :
             AdmitCall(o, e, s, ok)
  BY <1>1, AdmitIInv
<1>2. CASE \E o \in 0..MaxOffset, e \in Epochs : BaselineCall(o, e)
  BY <1>2, BaselineIInv
<1>3. CASE ResetCall
  BY <1>3, ResetIInv
<1>4. CASE \E o \in 0..(MaxOffset + 1) : ConfirmCall(o)
  <2>1. PICK o \in 0..(MaxOffset + 1) : ConfirmCall(o)
    BY <1>4
  <2>2. o \in Nat
    BY CallAssumption
  <2> QED BY <2>1, <2>2, ConfirmIInv
<1>5. CASE RedeliveryCall
  BY <1>5, RedeliveryIInv
<1>6. CASE TimePasses
  BY <1>6, TimeIInv
<1>7. CASE UNCHANGED vars
  BY <1>7, StutterIInv
<1> QED BY <1>1, <1>2, <1>3, <1>4, <1>5, <1>6, <1>7 DEF Next

\* The inductive invariant holds in every reachable state of the window
\* (window.go), for all limits, offsets, epochs and sizes.
THEOREM WindowInvariant == Spec => []IInv
<1>1. Init => IInv
  BY InitIInv
<1>2. IInv /\ [Next]_vars => IInv'
  BY NextIInv
<1> QED BY <1>1, <1>2, PTL DEF Spec

\* The window keeps its type (window.go:40-64).
THEOREM WindowTypeCorrect == Spec => []TypeOK
<1>1. IInv => TypeOK
  BY DEF IInv
<1> QED BY <1>1, WindowInvariant, PTL

\* The window is the contiguous range between its two cursors and respects
\* the credit count (window.go:107-129, 181-189).
THEOREM WindowIsContiguous == Spec => [](Contiguous /\ CountRespected)
<1>1. IInv => Contiguous /\ CountRespected
  BY DEF IInv
<1> QED BY <1>1, WindowInvariant, PTL

\* A cumulative confirm never covers an offset that did not reach the
\* transport (window.go:75-78).
THEOREM ConfirmNeverOvertakesSend == Spec => []ConfirmCoversSent
<1>1. IInv => ConfirmCoversSent
  BY DEF IInv
<1> QED BY <1>1, WindowInvariant, PTL

\* A delivery is dropped as poison only after its whole redelivery budget
\* went to the transport (window.go:210-224).
THEOREM PoisonNeedsBudget == Spec => []PoisonedAfterBudget
<1>1. IInv => PoisonedAfterBudget
  BY DEF IInv
<1> QED BY <1>1, WindowInvariant, PTL

\* Within one baseline no step moves the confirmed offset back
\* (window.go:136-147, 176-179, 216-228).
LEMMA StepKeepsConfirmed ==
  ASSUME IInv, [Next]_vars, w.baselined, w'.baselined, w'.epoch = w.epoch
  PROVE  w'.confirmed >= w.confirmed
<1> USE WindowAssumption, CallAssumption
<1>0. w.confirmed \in Nat /\ w.delivered \in Nat
  BY TypeFacts
<1>1. ASSUME NEW o \in 0..MaxOffset, NEW e \in Epochs, NEW s \in Sizes,
             NEW ok \in BOOLEAN, AdmitCall(o, e, s, ok)
      PROVE  w'.confirmed >= w.confirmed
  <2>1. CASE o = 0
    BY <1>0, <1>1, <2>1 DEF AdmitCall, Admit
  <2>2. CASE o # 0 /\ e = w.epoch
    <3>1. Rebase(w, o, e) = w
      BY <2>2 DEF Rebase
    <3>2. w' = w \/ w' = Commit(w, o, s)
      BY <1>1, <2>2, <3>1 DEF AdmitCall, Admit
    <3>3. Commit(w, o, s).confirmed = w.confirmed
      BY DEF Commit, IInv, TypeOK, WindowWithBytes
    <3> QED BY <1>0, <3>2, <3>3
  <2>3. CASE o # 0 /\ e # w.epoch
    <3> DEFINE b == Rebase(w, o, e)
    <3>1. b \in WindowWithBytes(0) /\ b.epoch = e
      <4>1. b = [w EXCEPT !.epoch = e, !.delivered = o - 1, !.confirmed = o - 1,
                          !.inflight = <<>>, !.inflightBytes = 0,
                          !.attempts = 0, !.attemptsOffset = 0]
        BY <2>3 DEF Rebase
      <4>2. 0 \in Nat /\ <<>> \in Seq(Entry) /\ o - 1 \in Nat /\ e \in Nat
        BY <2>3
      <4> HIDE DEF b
      <4> QED BY <4>1, <4>2, Zenon DEF IInv, TypeOK, WindowWithBytes
    <3> HIDE DEF b
    <3>2. w' = b \/ w' = Commit(b, o, s)
      BY <1>1, <2>3 DEF AdmitCall, Admit, b
    <3>3. Commit(b, o, s).epoch = e
      BY <3>1 DEF Commit, WindowWithBytes
    <3> QED BY <2>3, <3>1, <3>2, <3>3
  <2> QED BY <2>1, <2>2, <2>3
<1>2. ASSUME NEW o \in 0..MaxOffset, NEW e \in Epochs, BaselineCall(o, e)
      PROVE  w'.confirmed >= w.confirmed
  BY <1>0, <1>2 DEF BaselineCall, Baseline
<1>3. CASE ResetCall
  <2>1. ~w'.baselined
    BY <1>3 DEF ResetCall, Reset, IInv, TypeOK, WindowWithBytes
  <2> QED BY <2>1
<1>4. ASSUME NEW o \in 0..(MaxOffset + 1), ConfirmCall(o)
      PROVE  w'.confirmed >= w.confirmed
  <2> DEFINE upTo == IF o > w.delivered THEN w.delivered ELSE o
  <2>1. CASE upTo <= w.confirmed
    BY <1>0, <1>4, <2>1 DEF ConfirmCall, Confirm
  <2>2. CASE ~(upTo <= w.confirmed)
    <3>1. Confirm(w, o).confirmed = upTo
      BY <2>2 DEF Confirm, IInv, TypeOK, WindowWithBytes
    <3> QED BY <1>0, <1>4, <2>2, <3>1 DEF ConfirmCall
  <2> QED BY <2>1, <2>2
<1>5. CASE RedeliveryCall
  <2>1. CASE ~RedeliveryDue(w)
    BY <1>0, <1>5, <2>1 DEF RedeliveryCall, CheckRedelivery
  <2>2. CASE RedeliveryDue(w)
    <3>1. w.inflight[1].offset = w.confirmed + 1
      <4>1. Len(w.inflight) \in Nat /\ Len(w.inflight) > 0
        BY <2>2, TypeFacts DEF RedeliveryDue
      <4> QED BY <1>0, <4>1 DEF IInv, Contiguous
    <3>2. w'.confirmed = IF Poisoned(w) # 0 THEN w.inflight[1].offset ELSE w.confirmed
      BY <1>5, <2>2 DEF RedeliveryCall, CheckRedelivery, IInv, TypeOK, WindowWithBytes
    <3> QED BY <1>0, <3>1, <3>2
  <2> QED BY <2>1, <2>2
<1>6. CASE TimePasses
  BY <1>0, <1>6 DEF TimePasses, Aged, IInv, TypeOK, WindowWithBytes
<1>7. CASE UNCHANGED vars
  BY <1>0, <1>7 DEF vars
<1> QED BY <1>1, <1>2, <1>3, <1>4, <1>5, <1>6, <1>7 DEF Next

\* Within one baseline the confirmed offset never moves back, so what was
\* acknowledged is never resent (window.go:176-179, 219, 228).
THEOREM ConfirmedIsMonotonic == Spec => ConfirmedNeverRegresses
<1>1. IInv /\ [Next]_vars
      => [(w.baselined /\ w'.baselined /\ w'.epoch = w.epoch)
            => w'.confirmed >= w.confirmed]_vars
  BY StepKeepsConfirmed
<1> QED BY <1>1, WindowInvariant, PTL DEF Spec, ConfirmedNeverRegresses
=============================================================================
