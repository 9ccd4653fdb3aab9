---------------------------- MODULE CreditWindow ----------------------------
(***************************************************************************)
(* One credit window under every order of calls its users can make: live   *)
(* publishers and the two pumps call Admit, a subscribe with a recover     *)
(* point calls Baseline, the client confirms, the sweeper checks for       *)
(* redelivery and a pump that finds an unrecoverable gap resets.           *)
(*                                                                         *)
(* Two ghosts watch it since its last baseline: base is the offset the     *)
(* window was pinned to, sends counts how often each offset went to the    *)
(* transport (saturating where the properties stop counting) and poisoned  *)
(* holds the offsets given up.                                             *)
(***************************************************************************)
EXTENDS Window

CONSTANTS
  MaxOffset,  \* largest offset a call may carry
  Epochs,     \* epochs of the channel incarnations, none of them 0
  Sizes       \* payload sizes

ASSUME CallAssumption ==
  /\ MaxOffset \in Nat \ {0}
  /\ Epochs \subseteq Nat \ {0}
  /\ Sizes \subseteq Nat

VARIABLES w, base, sends, poisoned

vars == <<w, base, sends, poisoned>>

Offsets == 1..MaxOffset

\* The count at which a head has used its first delivery and every resend.
Budget == MaxRedeliveries + 1

NoSends == [o \in Offsets |-> 0]

Init ==
  /\ w = NewWindow
  /\ base = 0
  /\ sends = NoSends
  /\ poisoned = {}

\* Does a delivery move the baseline?
Rebaselines(offset, epoch) ==
  offset # 0 /\ (~w.baselined \/ epoch # w.epoch)

\* Window.Admit, called by Consumer.Deliver and Consumer.pump.
AdmitCall(offset, epoch, size, accepts) ==
  LET r      == Admit(w, offset, epoch, size, accepts)
      before == IF Rebaselines(offset, epoch) THEN NoSends ELSE sends
  IN  /\ w' = r.window
      /\ base' = IF Rebaselines(offset, epoch) THEN offset - 1 ELSE base
      /\ sends' = IF r.verdict = "Admitted" /\ before[offset] < Budget
                  THEN [before EXCEPT ![offset] = @ + 1]
                  ELSE before
      /\ poisoned' = IF Rebaselines(offset, epoch) THEN {} ELSE poisoned

\* Window.Baseline, called by a subscribe that carries a recover point.
BaselineCall(offset, epoch) ==
  /\ w' = Baseline(w, offset, epoch)
  /\ base' = IF w.baselined THEN base ELSE offset
  /\ sends' = IF w.baselined THEN sends ELSE NoSends
  /\ poisoned' = IF w.baselined THEN poisoned ELSE {}

\* Window.Reset, called by a pump whose range left the history.
ResetCall ==
  /\ w' = Reset(w)
  /\ base' = 0
  /\ sends' = NoSends
  /\ poisoned' = {}

\* Window.Confirm; the offset is whatever the client claims.
ConfirmCall(offset) ==
  /\ w' = Confirm(w, offset)
  /\ UNCHANGED <<base, sends, poisoned>>

\* Window.CheckRedelivery, called by Consumer.Tick.
RedeliveryCall ==
  /\ w' = CheckRedelivery(w)
  /\ poisoned' = IF Poisoned(w) # 0 THEN poisoned \union {Poisoned(w)} ELSE poisoned
  /\ UNCHANGED <<base, sends>>

\* The timeout of the head passes.
TimePasses ==
  /\ w.inflight # <<>>
  /\ ~w.aged
  /\ w' = Aged(w)
  /\ UNCHANGED <<base, sends, poisoned>>

Next ==
  \/ \E o \in 0..MaxOffset, e \in Epochs, s \in Sizes, ok \in BOOLEAN :
       AdmitCall(o, e, s, ok)
  \/ \E o \in 0..MaxOffset, e \in Epochs : BaselineCall(o, e)
  \/ ResetCall
  \/ \E o \in 0..(MaxOffset + 1) : ConfirmCall(o)
  \/ RedeliveryCall
  \/ TimePasses

Spec == Init /\ [][Next]_vars

-----------------------------------------------------------------------------
Entry == [offset : Nat, size : Nat]

\* The windows whose byte counter is b.
WindowWithBytes(b) ==
  [ epoch : Nat, baselined : BOOLEAN, delivered : Nat, confirmed : Nat,
    inflight : Seq(Entry), inflightBytes : {b},
    attempts : Nat, attemptsOffset : Nat, aged : BOOLEAN ]

\* The window and the ghosts have their types (the byte counter is the
\* subject of BytesExact).
TypeOK ==
  /\ w \in WindowWithBytes(w.inflightBytes)
  /\ base \in Nat
  /\ sends \in [Offsets -> 0..Budget]
  /\ poisoned \subseteq Offsets

\* The window is exactly the range above the confirmed offset up to the
\* delivered one, in offset order and without a hole, whatever mixture of
\* admits, confirms, rewinds and re-baselines produced it (window.go:84-131,
\* 169-193): a cumulative confirm that cuts it therefore never skips a
\* delivery.
Contiguous ==
  /\ w.delivered = w.confirmed + Len(w.inflight)
  /\ \A i \in 1..Len(w.inflight) : w.inflight[i].offset = w.confirmed + i

\* The byte counter that gates admission never drifts from the entries it
\* stands for through partial confirms, rewinds and re-baselines
\* (window.go:102, 128, 160, 186, 227).
BytesExact == w.inflightBytes = Bytes(w.inflight, DOMAIN w.inflight)

\* Never more unconfirmed deliveries than the subscription's count credit
\* (window.go:113-115).
CountRespected == MaxCount > 0 => Len(w.inflight) <= MaxCount

\* Never more unconfirmed deliveries or bytes than the subscription's credit,
\* through every interleaving of live admits, pumps, confirms and rewinds; a
\* single oversized delivery may be the whole window (window.go:113-118).  The
\* byte counter that admission goes by has not drifted from its entries.
CreditRespected ==
  /\ BytesExact
  /\ CountRespected
  /\ MaxBytes > 0 => (w.inflightBytes <= MaxBytes \/ Len(w.inflight) <= 1)

\* "A cumulative confirm can never cover an offset that did not reach the
\* transport" (window.go:77-78): everything between the baseline and the
\* confirmed offset was handed to the transport since the baseline, even
\* when the client confirms ahead of its deliveries, the transport refuses
\* or the head is dropped as poison.
ConfirmCoversSent == \A o \in base + 1 .. w.confirmed : sends[o] >= 1

\* An offset is given up only after its first delivery and maxRedeliveries
\* resends all went to the transport (window.go:210-224): attempts spent on
\* an earlier head, or before a re-baseline, are never charged to it.
PoisonedAfterBudget == \A o \in poisoned : sends[o] = Budget

\* Within one baseline the confirmed offset never moves back, so an
\* acknowledged delivery is never resent (window.go:176-179, 219, 228).
ConfirmedNeverRegresses ==
  [][ (w.baselined /\ w'.baselined /\ w'.epoch = w.epoch)
        => w'.confirmed >= w.confirmed ]_vars

-----------------------------------------------------------------------------
(***************************************************************************)
(* The inductive invariant.  ConfirmCoversSent alone is not inductive: a   *)
(* confirm moves the confirmed offset over entries in flight, so those     *)
(* must have been sent as well (InflightSent), and that says what is meant *)
(* only because the entries are contiguous.  PoisonedAfterBudget needs the *)
(* attempts counter to be paid for by sends of the offset it is kept for.  *)
(***************************************************************************)

\* A window without a baseline is empty and charges nobody.
UnpinnedIsEmpty ==
  ~w.baselined => /\ w.inflight = <<>>
                  /\ w.delivered = 0
                  /\ w.attempts = 0
                  /\ w.attemptsOffset = 0

\* The cursors stay within the offsets offered.
CursorBounds == base <= w.confirmed /\ w.delivered <= MaxOffset

\* Everything in flight went to the transport since the baseline.
InflightSent == \A o \in w.confirmed + 1 .. w.delivered : sends[o] >= 1

\* Each attempt charged to the head, and its presence in the window, was a
\* send of that offset.
AttemptsPaid ==
  /\ w.attempts <= MaxRedeliveries
  /\ w.attemptsOffset <= w.confirmed + 1
  /\ w.attemptsOffset <= MaxOffset
  /\ w.attemptsOffset = w.confirmed + 1
       => sends[w.attemptsOffset] >= w.attempts + (IF w.inflight = <<>> THEN 0 ELSE 1)

IInv ==
  /\ TypeOK
  /\ Contiguous
  /\ CountRespected
  /\ UnpinnedIsEmpty
  /\ CursorBounds
  /\ ConfirmCoversSent
  /\ InflightSent
  /\ AttemptsPaid
  /\ PoisonedAfterBudget
=============================================================================
