----------------------------- MODULE HistoryLog -----------------------------
(***************************************************************************)
(* What a channel's history promises: a log of everything published whose  *)
(* oldest part may be forgotten, at the latest when more than Cap          *)
(* publications are retained.  Offset o is the o-th publication.           *)
(***************************************************************************)
EXTENDS Integers, Sequences

CONSTANTS
  Cap,       \* retained publications, at most
  Payloads   \* what is published

VARIABLES
  log,       \* every publication so far
  low        \* how many of them are forgotten

Init == log = <<>> /\ low = 0

Publish(d) ==
  /\ log' = Append(log, d)
  /\ low' \in {low, low + 1}
  /\ Len(log') - low' <= Cap

Forget ==
  /\ low' \in low + 1 .. Len(log)
  /\ UNCHANGED log

Next == (\E d \in Payloads : Publish(d)) \/ Forget

Spec == Init /\ [][Next]_<<log, low>>

\* A recovery is served when everything above "from" is still retained.
Served(from) == from <= Len(log) /\ (from = Len(log) \/ from >= low)

\* The publications it returns, at most max of them unless max is 0.
Answer(from, max) ==
  [i \in 1 .. (IF max > 0 /\ max < Len(log) - from THEN max ELSE Len(log) - from)
     |-> [offset |-> from + i, data |-> log[from + i]]]
=============================================================================
