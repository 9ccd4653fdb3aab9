------------------------------- MODULE Window -------------------------------
(***************************************************************************)
(* The credit window of one at-least-once subscription                     *)
(* (src/internal/qos/window.go).  Every method of Window runs under w.mu,  *)
(* so a method is one operator from a window to a window.  The clock is    *)
(* abstracted to the one question CheckRedelivery asks of it: "aged" says  *)
(* that the head has been waiting past the timeout, and every store        *)
(* "oldestAt = now" of the code makes it FALSE.                            *)
(***************************************************************************)
EXTENDS Integers, Sequences, FiniteSets, Functions

CONSTANTS
  MaxCount,         \* maxCount: unconfirmed deliveries admitted, 0 = no limit
  MaxBytes,         \* maxBytes: unconfirmed bytes admitted, 0 = no limit
  MaxRedeliveries,  \* maxRedeliveries: resends of a head before it is dropped
  Redelivery        \* TRUE when timeout > 0

ASSUME WindowAssumption ==
  /\ MaxCount \in Nat
  /\ MaxBytes \in Nat
  /\ MaxRedeliveries \in Nat
  /\ Redelivery \in BOOLEAN

\* A window as NewWindow returns it: no baseline, nothing in flight.
NewWindow ==
  [ epoch |-> 0, baselined |-> FALSE, delivered |-> 0, confirmed |-> 0,
    inflight |-> <<>>, inflightBytes |-> 0,
    attempts |-> 0, attemptsOffset |-> 0, aged |-> FALSE ]

\* A new epoch keeps the entries in flight.
RebaseKeepsTail(w, offset, epoch) ==
  IF ~w.baselined \/ epoch # w.epoch
  THEN [w EXCEPT !.baselined = TRUE, !.epoch = epoch,
                 !.delivered = offset - 1, !.confirmed = offset - 1]
  ELSE w

\* The first half of Admit: an unpinned window takes the delivery as its
\* baseline, a delivery of another epoch re-baselines it and drops the tail.
Rebase(w, offset, epoch) ==
  IF ~w.baselined
  THEN [w EXCEPT !.baselined = TRUE, !.epoch = epoch,
                 !.delivered = offset - 1, !.confirmed = offset - 1]
  ELSE IF epoch # w.epoch
  THEN [w EXCEPT !.epoch = epoch,
                 !.delivered = offset - 1, !.confirmed = offset - 1,
                 !.inflight = <<>>, !.inflightBytes = 0,
                 !.attempts = 0, !.attemptsOffset = 0]
  ELSE w

\* The limits are noticed one delivery late.
HasCreditLate(w, size) ==
  /\ MaxCount > 0 => Len(w.inflight) <= MaxCount
  /\ (MaxBytes > 0 /\ Len(w.inflight) > 0) => w.inflightBytes <= MaxBytes

\* Is there credit for one more delivery of this size?  The byte limit never
\* refuses the only delivery in flight, so an oversized message still flows.
HasCredit(w, size) ==
  /\ MaxCount > 0 => Len(w.inflight) < MaxCount
  /\ (MaxBytes > 0 /\ Len(w.inflight) > 0) => w.inflightBytes + size <= MaxBytes

\* A delivery beyond the next one is admitted as if it were the next.
VerdictJumps(w, offset, size, accepts) ==
  CASE offset <= w.delivered -> "Dup"
    [] offset > w.delivered /\ ~HasCredit(w, size) -> "Full"
    [] offset > w.delivered /\ HasCredit(w, size)
         -> IF accepts THEN "Admitted" ELSE "Refused"

\* The verdict of the second half of Admit on an already rebased window.
\* "accepts" is what the transport's send would answer.
Verdict(w, offset, size, accepts) ==
  CASE offset <= w.delivered       -> "Dup"
    [] offset > w.delivered + 1    -> "Full"
    [] offset = w.delivered + 1 /\ ~HasCredit(w, size) -> "Full"
    [] offset = w.delivered + 1 /\ HasCredit(w, size)
         -> IF accepts THEN "Admitted" ELSE "Refused"

\* A delivery the transport took enters the window.
Commit(w, offset, size) ==
  [w EXCEPT !.inflight = Append(@, [offset |-> offset, size |-> size]),
            !.inflightBytes = @ + size,
            !.delivered = offset,
            !.aged = IF w.inflight = <<>> THEN FALSE ELSE @]

\* The window advances before the transport answers.
AdmitEarly(w, offset, epoch, size, accepts) ==
  IF offset = 0
  THEN [verdict |-> "Dup", window |-> w]
  ELSE LET b == Rebase(w, offset, epoch)
           v == Verdict(b, offset, size, accepts)
       IN  [ verdict |-> v,
             window  |-> IF v \in {"Admitted", "Refused"}
                         THEN Commit(b, offset, size) ELSE b ]

\* Admit: the verdict, and the window it leaves behind.
Admit(w, offset, epoch, size, accepts) ==
  IF offset = 0
  THEN [verdict |-> "Dup", window |-> w]
  ELSE LET b == Rebase(w, offset, epoch)
           v == Verdict(b, offset, size, accepts)
       IN  [ verdict |-> v,
             window  |-> IF v = "Admitted" THEN Commit(b, offset, size) ELSE b ]

Baseline(w, offset, epoch) ==
  IF w.baselined
  THEN w
  ELSE [w EXCEPT !.baselined = TRUE, !.epoch = epoch,
                 !.delivered = offset, !.confirmed = offset]

\* Reset leaves oldestAt alone: the next Admit finds the window empty and
\* restamps it.
Reset(w) ==
  [w EXCEPT !.baselined = FALSE, !.epoch = 0,
            !.delivered = 0, !.confirmed = 0,
            !.inflight = <<>>, !.inflightBytes = 0,
            !.attempts = 0, !.attemptsOffset = 0]

\* How many entries the loop of Confirm removes: the longest prefix of the
\* window at or below the confirmed offset.
Trimmed(inflight, offset) ==
  CHOOSE n \in 0..Len(inflight) :
    /\ \A i \in 1..n : inflight[i].offset <= offset
    /\ n < Len(inflight) => inflight[n + 1].offset > offset

Bytes(inflight, indices) ==
  SumFunctionOnSet([i \in DOMAIN inflight |-> inflight[i].size], indices)

\* A confirm is taken at its word.
ConfirmUnclamped(w, offset) ==
  LET n == Trimmed(w.inflight, offset)
  IN  IF offset <= w.confirmed
      THEN w
      ELSE [w EXCEPT !.confirmed = offset,
                     !.inflight = SubSeq(@, n + 1, Len(@)),
                     !.inflightBytes = @ - Bytes(w.inflight, 1..n),
                     !.aged = IF n > 0 THEN FALSE ELSE @]

\* An old confirm moves the cursor back.
ConfirmBackwards(w, offset) ==
  LET upTo == IF offset > w.delivered THEN w.delivered ELSE offset
      n    == Trimmed(w.inflight, upTo)
  IN  IF upTo = w.confirmed
      THEN w
      ELSE [w EXCEPT !.confirmed = upTo,
                     !.inflight = SubSeq(@, n + 1, Len(@)),
                     !.inflightBytes = @ - Bytes(w.inflight, 1..n),
                     !.aged = IF n > 0 THEN FALSE ELSE @]

\* Confirm: cumulative, clamped to what was delivered.
Confirm(w, offset) ==
  LET upTo == IF offset > w.delivered THEN w.delivered ELSE offset
      n    == Trimmed(w.inflight, upTo)
  IN  IF upTo <= w.confirmed
      THEN w
      ELSE [w EXCEPT !.confirmed = upTo,
                     !.inflight = SubSeq(@, n + 1, Len(@)),
                     !.inflightBytes = @ - Bytes(w.inflight, 1..n),
                     !.aged = IF n > 0 THEN FALSE ELSE @]

\* Does CheckRedelivery act, rather than return early?
RedeliveryDue(w) == Redelivery /\ w.inflight # <<>> /\ w.aged

\* Attempts are charged to whichever head there is.
HeadAttemptsShared(w) == w.attempts

\* The redelivery attempts of the current head; another head starts afresh.
HeadAttempts(w) ==
  IF w.attemptsOffset = w.inflight[1].offset THEN w.attempts ELSE 0

\* The offset CheckRedelivery gives up on, 0 when none.
Poisoned(w) ==
  IF RedeliveryDue(w) /\ HeadAttempts(w) >= MaxRedeliveries
  THEN w.inflight[1].offset
  ELSE 0

\* CheckRedelivery: rewind to the confirmed offset so that the pump resends
\* the whole unconfirmed range; a head out of budget is confirmed instead.
CheckRedelivery(w) ==
  LET oldest == w.inflight[1].offset
      floor  == IF Poisoned(w) # 0 THEN oldest ELSE w.confirmed
  IN  IF ~RedeliveryDue(w)
      THEN w
      ELSE [w EXCEPT !.attempts = IF Poisoned(w) # 0 THEN 0 ELSE HeadAttempts(w) + 1,
                     !.attemptsOffset = IF Poisoned(w) # 0 THEN 0 ELSE oldest,
                     !.confirmed = floor,
                     !.delivered = floor,
                     !.inflight = <<>>,
                     !.inflightBytes = 0,
                     !.aged = FALSE]

\* Time passes: the head of a non-empty window outlives the timeout.
Aged(w) == [w EXCEPT !.aged = TRUE]

\* PumpPoint when maxCount is 0: room for 1 << 20 deliveries.
Unlimited == 2^20

\* PumpPoint: where catch-up delivery resumes and how much the window admits.
PumpPoint(w) ==
  IF ~w.baselined
  THEN [from |-> 0, epoch |-> 0, room |-> 0]
  ELSE [ from |-> w.delivered, epoch |-> w.epoch,
         room |-> IF MaxCount = 0 THEN Unlimited ELSE MaxCount - Len(w.inflight) ]
=============================================================================
