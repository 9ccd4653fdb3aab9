---------------------------- MODULE BoundedFifo ----------------------------
(***************************************************************************)
(* What the send ring promises its users: a bounded queue in which each    *)
(* accepted message takes its place at once and leaves in that order.      *)
(***************************************************************************)
EXTENDS Integers, Sequences

CONSTANTS Cap, Messages
VARIABLE queue

Init == queue = <<>>

Accept(m) == Len(queue) < Cap /\ queue' = Append(queue, m)

Remove == queue # <<>> /\ queue' = Tail(queue)

Next == (\E m \in Messages : Accept(m)) \/ Remove

Spec == Init /\ [][Next]_queue
=============================================================================
