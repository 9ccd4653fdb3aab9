------------------------------- MODULE History -------------------------------
(***************************************************************************)
(* The bounded ring that retains a channel's publications                  *)
(* (src/internal/engine/history.go).  Every method runs under h.mu, so a   *)
(* method is one action.  Publishers and the sweeper read the clock before *)
(* they queue for the lock: the times they bring along arrive in any order.*)
(***************************************************************************)
EXTENDS Integers, Sequences, FiniteSets

CONSTANTS
  Cap,         \* len(entries)
  Ttl,         \* ttl, 0 = entries never expire
  Payloads,
  MaxPublish,  \* bound: publications
  MaxTime      \* bound: clock readings

ASSUME HistoryAssumption ==
  /\ Cap \in Nat \ {0} /\ Ttl \in Nat
  /\ MaxPublish \in Nat /\ MaxTime \in Nat

VARIABLES
  entries,     \* the ring
  head,        \* index of the next write
  count,
  lastOffset,  \* also ch.offset: only appendNext advances either
  log          \* ghost: payloads in the order of their offsets

vars == <<entries, head, count, lastOffset, log>>

Zero == [offset |-> 0, data |-> 0, storedAt |-> 0]

Init ==
  /\ entries = [i \in 0 .. Cap - 1 |-> Zero]
  /\ head = 0
  /\ count = 0
  /\ lastOffset = 0
  /\ log = <<>>

\* The count outgrows the ring.
AppendNextUncapped(data, now) ==
  /\ entries' = [entries EXCEPT ![head] = [offset |-> lastOffset + 1, data |-> data, storedAt |-> now]]
  /\ head' = (head + 1) % Cap
  /\ count' = count + 1
  /\ lastOffset' = lastOffset + 1
  /\ log' = Append(log, data)

\* appendNext: the offset is assigned and the entry stored under one lock.
AppendNext(data, now) ==
  /\ entries' = [entries EXCEPT ![head] = [offset |-> lastOffset + 1, data |-> data, storedAt |-> now]]
  /\ head' = (head + 1) % Cap
  /\ count' = IF count < Cap THEN count + 1 ELSE count
  /\ lastOffset' = lastOffset + 1
  /\ log' = Append(log, data)

\* The index of the oldest of n retained entries.
Oldest(n) == (head - n + Cap) % Cap

\* How many entries are left when the loop of sweep stops: at the first one
\* stored after the cutoff.
Swept(cutoff) ==
  { n \in 0 .. count :
      /\ n > 0 => entries[Oldest(n)].storedAt > cutoff
      /\ \A k \in n + 1 .. count : entries[Oldest(k)].storedAt <= cutoff }

\* sweep: expired entries leave from the tail and are zeroed.
Sweep(now) ==
  /\ Ttl > 0
  /\ \E n \in Swept(now - Ttl) :
       /\ count' = n
       /\ entries' = [i \in 0 .. Cap - 1 |->
            IF i \in { Oldest(k) : k \in n + 1 .. count } THEN Zero ELSE entries[i]]
  /\ UNCHANGED <<head, lastOffset, log>>

Next ==
  \/ \E d \in Payloads, now \in 0 .. MaxTime : lastOffset < MaxPublish /\ AppendNext(d, now)
  \/ \E now \in 0 .. MaxTime : Sweep(now)

Spec == Init /\ [][Next]_vars

-----------------------------------------------------------------------------
\* replayN: can the range above "from" be served?
ReplayOk(from) ==
  \/ from = lastOffset
  \/ /\ from < lastOffset
     /\ count > 0
     /\ from + 1 >= entries[Oldest(count)].offset

\* The first wanted item is skipped.
ReplayItemsLate(from, max) ==
  LET skip == from + 1 - entries[Oldest(count)].offset
      want == IF max > 0 /\ max < count - skip THEN max ELSE count - skip
  IN  IF from = lastOffset THEN <<>>
      ELSE [i \in 1 .. want |-> entries[(Oldest(count) + skip + i) % Cap]]

\* replayN: the items, by arithmetic distance from the tail and around the
\* end of the ring.
ReplayItems(from, max) ==
  LET skip == from + 1 - entries[Oldest(count)].offset
      want == IF max > 0 /\ max < count - skip THEN max ELSE count - skip
  IN  IF from = lastOffset THEN <<>>
      ELSE [i \in 1 .. want |-> entries[(Oldest(count) + skip + i - 1) % Cap]]

-----------------------------------------------------------------------------
Log == INSTANCE HistoryLog WITH low <- lastOffset - count

Item == [offset : 0 .. MaxPublish, data : Payloads \union {0}, storedAt : 0 .. MaxTime]

\* The ring, its cursors and the log have their types.
TypeOK ==
  /\ entries \in [0 .. Cap - 1 -> Item]
  /\ head \in 0 .. Cap - 1
  /\ count \in 0 .. Cap
  /\ lastOffset \in 0 .. MaxPublish
  /\ log \in Seq(Payloads)

\* The ring, as publishers and the TTL sweeper change it, is the log that
\* forgets its oldest publications and never one in the middle
\* (history.go:14-15).
ImplementsLog == Log!Spec

\* Whatever was evicted, expired or wrapped, a recovery is served exactly
\* when the whole gap is retained, and then returns the publications of the
\* gap with their own payloads, in offset order and without a hole
\* (history.go:55-93).
ReplayIsExact ==
  \A from \in 0 .. MaxPublish + 1, max \in 0 .. MaxPublish :
    /\ ReplayOk(from) <=> Log!Served(from)
    /\ ReplayOk(from) =>
         [i \in DOMAIN ReplayItems(from, max) |->
            [offset |-> ReplayItems(from, max)[i].offset,
             data   |-> ReplayItems(from, max)[i].data]] = Log!Answer(from, max)

-----------------------------------------------------------------------------
(***************************************************************************)
(* The inductive invariant: offset o lives in slot (o - 1) modulo Cap for  *)
(* as long as it is retained, and head is the slot of the next offset.     *)
(***************************************************************************)
RingHolds ==
  /\ lastOffset = Len(log)
  /\ count <= lastOffset
  /\ head = lastOffset % Cap
  /\ \A o \in lastOffset - count + 1 .. lastOffset :
       /\ entries[(o - 1) % Cap].offset = o
       /\ entries[(o - 1) % Cap].data = log[o]

IInv == TypeOK /\ RingHolds
=============================================================================
