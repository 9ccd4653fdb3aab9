--------------------------- MODULE HistoryProofs ---------------------------
(***************************************************************************)
(* For every capacity, TTL and set of payloads: the ring is the forgetful  *)
(* log, and a recovery from it is exact.                                   *)
(***************************************************************************)
EXTENDS History, SequenceTheorems, TLAPS

-----------------------------------------------------------------------------
\* Arithmetic modulo the capacity.

\* Division with remainder.
LEMMA DivMod == ASSUME NEW n \in Nat \ {0}, NEW a \in Int
  PROVE /\ a \div n \in Int /\ a % n \in 0 .. n - 1
        /\ a = n * (a \div n) + (a % n)
OBVIOUS

\* Multiples of n are n apart.
LEMMA TimesMono == ASSUME NEW n \in Nat \ {0}, NEW p \in Int, NEW q \in Int, p < q
  PROVE n * p + n <= n * q
<1>1. q - p >= 1
  OBVIOUS
<1>2. n * (q - p) >= n * 1
  BY <1>1
<1>3. n * (q - p) = n * q - n * p
  OBVIOUS
<1> QED BY <1>2, <1>3

\* Quotient and remainder are unique.
LEMMA Unique == ASSUME NEW n \in Nat \ {0}, NEW q \in Int, NEW r \in 0 .. n - 1
  PROVE (n * q + r) % n = r
<1>1. \A a \in Int, d \in Int, m \in 0 .. n - 1 :
        (a = n * d + m /\ a = n * q + r) => m = r
  <2> TAKE a \in Int, d \in Int, m \in 0 .. n - 1
  <2> HAVE a = n * d + m /\ a = n * q + r
  <2>1. ~(q < d)
    BY TimesMono
  <2>2. ~(d < q)
    BY TimesMono
  <2>3. d = q
    BY <2>1, <2>2
  <2> QED BY <2>3
<1>2. n * q + r \in Int
  OBVIOUS
<1>3. /\ (n * q + r) \div n \in Int /\ (n * q + r) % n \in 0 .. n - 1
      /\ n * q + r = n * ((n * q + r) \div n) + ((n * q + r) % n)
  BY <1>2, DivMod
<1> QED BY <1>1, <1>2, <1>3

\* Adding to a remainder.
LEMMA ModPlus == ASSUME NEW n \in Nat \ {0}, NEW a \in Int, NEW b \in Int
  PROVE ((a % n) + b) % n = (a + b) % n
<1>1. /\ a \div n \in Int /\ a % n \in 0 .. n - 1
      /\ a = n * (a \div n) + (a % n)
  BY DivMod
<1>2. PICK d \in Int, m \in 0 .. n - 1 : (a % n) + b = n * d + m
  <2>1. (a % n) + b \in Int
    BY <1>1
  <2> QED BY <2>1, DivMod
<1>3. ((a % n) + b) % n = m
  BY <1>2, Unique
<1>4. a + b = n * (a \div n + d) + m
  <2>1. n * (a \div n + d) = n * (a \div n) + n * d
    BY <1>1
  <2> QED BY <1>1, <1>2, <2>1
<1>5. (a + b) % n = m
  <2>1. a \div n + d \in Int
    BY <1>1
  <2>2. (n * (a \div n + d) + m) % n = m
    BY <2>1, Unique
  <2> QED BY <1>4, <2>2
<1> QED BY <1>3, <1>5

\* A lap does not change the slot.
LEMMA ModWrap == ASSUME NEW n \in Nat \ {0}, NEW a \in Int
  PROVE (a + n) % n = a % n
<1>1. /\ a \div n \in Int /\ a % n \in 0 .. n - 1
      /\ a = n * (a \div n) + (a % n)
  BY DivMod
<1>2. a + n = n * (a \div n + 1) + (a % n)
  <2>1. n * (a \div n + 1) = n * (a \div n) + n
    BY <1>1
  <2> QED BY <1>1, <2>1
<1>3. a \div n + 1 \in Int
  BY <1>1
<1>4. (n * (a \div n + 1) + (a % n)) % n = a % n
  BY <1>1, <1>3, Unique
<1> QED BY <1>2, <1>4

\* Two positions less than a lap apart have different slots.
LEMMA ModInjective == ASSUME NEW n \in Nat \ {0}, NEW a \in Int, NEW b \in Int,
                             a < b, b < a + n
  PROVE a % n # b % n
<1>1. /\ a \div n \in Int /\ a % n \in 0 .. n - 1
      /\ a = n * (a \div n) + (a % n)
  BY DivMod
<1>2. /\ b \div n \in Int /\ b % n \in 0 .. n - 1
      /\ b = n * (b \div n) + (b % n)
  BY DivMod
<1>3. \A d \in Int, e \in Int, m \in 0 .. n - 1 :
        ~(a = n * d + m /\ b = n * e + m)
  <2> SUFFICES ASSUME NEW d \in Int, NEW e \in Int, NEW m \in 0 .. n - 1,
                      a = n * d + m, b = n * e + m
               PROVE FALSE
    OBVIOUS
  <2>1. ~(d < e)
    BY TimesMono
  <2>2. ~(e < d)
    BY TimesMono
  <2>3. d = e
    BY <2>1, <2>2
  <2> QED BY <2>3
<1> QED BY <1>1, <1>2, <1>3
-----------------------------------------------------------------------------
\* The slot sweep and replayN compute for the k-th newest entry is the slot
\* of its offset.
LEMMA OldestIs ==
  ASSUME IInv, NEW k \in 0 .. count
  PROVE Oldest(k) = (lastOffset - k) % Cap
<1>1. Cap \in Nat \ {0} /\ lastOffset \in Nat /\ k \in Nat /\ head = lastOffset % Cap
  BY HistoryAssumption DEF IInv, TypeOK, RingHolds
<1>2. head \in Int /\ head - k + Cap = head + (Cap - k)
  BY <1>1 DEF IInv, TypeOK
<1>a. lastOffset \in Int /\ Cap - k \in Int /\ lastOffset - k \in Int
  BY <1>1
<1>3. ((lastOffset % Cap) + (Cap - k)) % Cap = (lastOffset + (Cap - k)) % Cap
  BY <1>1, <1>a, ModPlus, Zenon
<1>4. ((lastOffset - k) + Cap) % Cap = (lastOffset - k) % Cap
  BY <1>1, <1>a, ModWrap, Zenon
<1>5. lastOffset + (Cap - k) = (lastOffset - k) + Cap
  BY <1>1
<1> QED BY <1>1, <1>2, <1>3, <1>4, <1>5 DEF Oldest

\* The initial ring is empty.
LEMMA InitInv == Init => IInv
<1> SUFFICES ASSUME Init PROVE IInv
  OBVIOUS
<1>1. Cap \in Nat \ {0} /\ MaxPublish \in Nat /\ MaxTime \in Nat
  BY HistoryAssumption
<1>2. Zero \in Item
  BY <1>1 DEF Zero, Item
<1>3. TypeOK
  BY <1>1, <1>2, EmptySeq DEF Init, TypeOK
<1>4. 0 % Cap = 0
  BY <1>1
<1>5. RingHolds
  BY <1>1, <1>4, EmptySeq DEF Init, RingHolds
<1> QED BY <1>3, <1>5 DEF IInv

\* A publication takes the slot of its offset and overwrites no other
\* retained one.
LEMMA AppendInv ==
  ASSUME IInv, NEW d \in Payloads, NEW now \in 0 .. MaxTime,
         lastOffset < MaxPublish, AppendNext(d, now)
  PROVE IInv'
<1> DEFINE it == [offset |-> lastOffset + 1, data |-> d, storedAt |-> now]
<1>1. /\ Cap \in Nat \ {0} /\ MaxPublish \in Nat /\ lastOffset \in Nat
      /\ count \in 0 .. Cap /\ head \in 0 .. Cap - 1 /\ log \in Seq(Payloads)
      /\ entries \in [0 .. Cap - 1 -> Item]
      /\ lastOffset = Len(log) /\ count <= lastOffset /\ head = lastOffset % Cap
  BY HistoryAssumption DEF IInv, TypeOK, RingHolds
<1>2. it \in Item /\ it.offset = lastOffset + 1 /\ it.data = d
  BY <1>1 DEF Item
<1> HIDE DEF it
<1>3. /\ entries' = [entries EXCEPT ![head] = it]
      /\ head' = (head + 1) % Cap
      /\ count' = IF count < Cap THEN count + 1 ELSE count
      /\ lastOffset' = lastOffset + 1
      /\ log' = Append(log, d)
  BY DEF AppendNext, it
<1>4. /\ log' \in Seq(Payloads) /\ Len(log') = Len(log) + 1
      /\ log'[Len(log) + 1] = d
      /\ \A o \in 1 .. Len(log) : log'[o] = log[o]
  BY <1>1, <1>3, AppendProperties
<1>5. head' \in 0 .. Cap - 1
  <2>1. head + 1 \in Int
    BY <1>1
  <2>2. (head + 1) % Cap \in 0 .. Cap - 1
    BY <1>1, <2>1, DivMod, Zenon
  <2> QED BY <1>3, <2>2
<1>6. TypeOK'
  BY <1>1, <1>2, <1>3, <1>4, <1>5 DEF TypeOK
<1>7. head' = lastOffset' % Cap
  <2>1. lastOffset \in Int /\ 1 \in Int
    BY <1>1
  <2>2. ((lastOffset % Cap) + 1) % Cap = (lastOffset + 1) % Cap
    BY <1>1, <2>1, ModPlus, Zenon
  <2> QED BY <1>1, <1>3, <2>2
<1>8. ASSUME NEW o \in lastOffset' - count' + 1 .. lastOffset'
      PROVE entries'[(o - 1) % Cap].offset = o /\ entries'[(o - 1) % Cap].data = log'[o]
  <2>1. CASE o = lastOffset + 1
    <3>1. o - 1 = lastOffset
      BY <1>1, <2>1
    <3>2. entries'[(o - 1) % Cap] = it
      BY <1>1, <1>3, <3>1
    <3> QED BY <1>1, <1>2, <1>4, <2>1, <3>2
  <2>2. CASE o # lastOffset + 1
    <3>1. /\ o \in lastOffset - count + 1 .. lastOffset
          /\ o - 1 \in Int /\ o - 1 < lastOffset /\ lastOffset < (o - 1) + Cap
          /\ o \in 1 .. Len(log)
      <4>1. /\ Cap \in Nat \ {0} /\ lastOffset \in Nat /\ count \in 0 .. Cap
            /\ lastOffset = Len(log) /\ count <= lastOffset
        BY <1>1
      <4>2. lastOffset' = lastOffset + 1 /\ count' = IF count < Cap THEN count + 1 ELSE count
        BY <1>3
      <4>3. o \in lastOffset + 1 - count' + 1 .. lastOffset + 1
        BY <4>1, <4>2
      <4> QED BY <2>2, <4>1, <4>2, <4>3
    <3>a. lastOffset \in Int
      BY <1>1
    <3>2. (o - 1) % Cap # lastOffset % Cap
      BY <1>1, <3>1, <3>a, ModInjective, Zenon
    <3>3. (o - 1) % Cap \in 0 .. Cap - 1
      BY <1>1, <3>1, DivMod, Zenon
    <3>4. entries'[(o - 1) % Cap] = entries[(o - 1) % Cap]
      BY <1>1, <1>3, <3>2, <3>3
    <3>5. entries[(o - 1) % Cap].offset = o /\ entries[(o - 1) % Cap].data = log[o]
      BY <3>1 DEF IInv, RingHolds
    <3> QED BY <1>4, <3>1, <3>4, <3>5
  <2> QED BY <2>1, <2>2
<1>9. lastOffset' = Len(log') /\ count' <= lastOffset'
  BY <1>1, <1>3, <1>4
<1> QED BY <1>6, <1>7, <1>8, <1>9 DEF IInv, RingHolds

\* A sweep zeroes only slots of offsets it drops.
LEMMA SweepInv ==
  ASSUME IInv, NEW now \in 0 .. MaxTime, Sweep(now)
  PROVE IInv'
<1>1. /\ Cap \in Nat \ {0} /\ lastOffset \in Nat
      /\ MaxPublish \in Nat /\ MaxTime \in Nat
      /\ count \in 0 .. Cap /\ head \in 0 .. Cap - 1 /\ log \in Seq(Payloads)
      /\ entries \in [0 .. Cap - 1 -> Item]
      /\ lastOffset = Len(log) /\ count <= lastOffset /\ head = lastOffset % Cap
  BY HistoryAssumption DEF IInv, TypeOK, RingHolds
<1>2. PICK n \in 0 .. count :
        /\ count' = n
        /\ entries' = [i \in 0 .. Cap - 1 |->
             IF i \in { Oldest(k) : k \in n + 1 .. count } THEN Zero ELSE entries[i]]
  BY DEF Sweep, Swept
<1>3. head' = head /\ lastOffset' = lastOffset /\ log' = log
  BY DEF Sweep
<1>4. Zero \in Item
  BY <1>1 DEF Zero, Item
<1>5. entries' \in [0 .. Cap - 1 -> Item]
  BY <1>1, <1>2, <1>4
<1>6. TypeOK'
  BY <1>1, <1>2, <1>3, <1>5 DEF IInv, TypeOK
<1>7. ASSUME NEW o \in lastOffset' - count' + 1 .. lastOffset'
      PROVE entries'[(o - 1) % Cap].offset = o /\ entries'[(o - 1) % Cap].data = log'[o]
  <2>1. /\ o \in lastOffset - n + 1 .. lastOffset
        /\ o \in lastOffset - count + 1 .. lastOffset
        /\ o - 1 \in Int
    BY <1>1, <1>2, <1>3
  <2>2. ASSUME NEW k \in n + 1 .. count PROVE (o - 1) % Cap # Oldest(k)
    <3>1. Oldest(k) = (lastOffset - k) % Cap
      BY <1>1, <1>2, OldestIs
    <3>2. /\ lastOffset - k \in Int
          /\ lastOffset - k < o - 1
          /\ o - 1 < (lastOffset - k) + Cap
      BY <1>1, <1>2, <2>1
    <3>3. (lastOffset - k) % Cap # (o - 1) % Cap
      BY <1>1, <2>1, <3>2, ModInjective, Zenon
    <3> QED BY <3>1, <3>3
  <2>3. (o - 1) % Cap \in 0 .. Cap - 1
    BY <1>1, <2>1, DivMod, Zenon
  <2>4. entries'[(o - 1) % Cap] = entries[(o - 1) % Cap]
    BY <1>2, <2>2, <2>3
  <2>5. entries[(o - 1) % Cap].offset = o /\ entries[(o - 1) % Cap].data = log[o]
    BY <2>1 DEF IInv, RingHolds
  <2> QED BY <1>3, <2>4, <2>5
<1>8. lastOffset' = Len(log') /\ count' <= lastOffset' /\ head' = lastOffset' % Cap
  BY <1>1, <1>2, <1>3
<1> QED BY <1>6, <1>7, <1>8 DEF IInv, RingHolds

\* Every step keeps the invariant.
LEMMA NextInv == IInv /\ [Next]_vars => IInv'
<1> SUFFICES ASSUME IInv, [Next]_vars PROVE IInv'
  OBVIOUS
<1>1. CASE \E d \in Payloads, now \in 0 .. MaxTime : lastOffset < MaxPublish /\ AppendNext(d, now)
  BY <1>1, AppendInv
<1>2. CASE \E now \in 0 .. MaxTime : Sweep(now)
  BY <1>2, SweepInv
<1>3. CASE UNCHANGED vars
  BY <1>3 DEF vars, IInv, TypeOK, RingHolds, Item
<1> QED BY <1>1, <1>2, <1>3 DEF Next

\* In every reachable state of the history each retained offset is in its
\* own slot, with its own payload (history.go:41-53, 96-113).
THEOREM HistoryInvariant == Spec => []IInv
BY InitInv, NextInv, PTL DEF Spec

\* The history keeps its types.
THEOREM HistoryTypeCorrect == Spec => []TypeOK
<1>1. IInv => TypeOK
  BY DEF IInv
<1> QED BY <1>1, HistoryInvariant, PTL

-----------------------------------------------------------------------------
\* The entry at the tail is the oldest retained publication.
LEMMA OldestOffset ==
  ASSUME IInv, count > 0
  PROVE entries[Oldest(count)].offset = lastOffset - count + 1
<1>1. Cap \in Nat \ {0} /\ lastOffset \in Nat /\ count \in 0 .. Cap
  BY HistoryAssumption DEF IInv, TypeOK
<1>2. Oldest(count) = (lastOffset - count) % Cap
  BY <1>1, OldestIs
<1>3. PICK o \in Int : o = lastOffset - count + 1
  BY <1>1
<1>4. o \in lastOffset - count + 1 .. lastOffset /\ o - 1 = lastOffset - count
  BY <1>1, <1>3
<1>5. entries[(o - 1) % Cap].offset = o
  BY <1>4, Zenon DEF IInv, RingHolds
<1> QED BY <1>2, <1>3, <1>4, <1>5

\* replayN serves a recovery exactly when the log retains the gap.
LEMMA OkIsServed ==
  ASSUME IInv, NEW from \in 0 .. MaxPublish + 1
  PROVE ReplayOk(from) <=> Log!Served(from)
<1>1. /\ Cap \in Nat \ {0} /\ MaxPublish \in Nat /\ from \in Nat /\ lastOffset \in Nat
      /\ count \in 0 .. Cap /\ lastOffset = Len(log) /\ count <= lastOffset
  BY HistoryAssumption DEF IInv, TypeOK, RingHolds
<1>2. count > 0 => entries[Oldest(count)].offset = lastOffset - count + 1
  BY OldestOffset
<1> QED BY <1>1, <1>2 DEF ReplayOk, Log!Served

\* The i-th item of a replay is the publication that follows "from" by i.
LEMMA ItemIs ==
  ASSUME IInv, NEW from \in 0 .. MaxPublish + 1, from < lastOffset, from >= lastOffset - count,
         NEW i \in 1 .. lastOffset - from
  PROVE LET e == entries[(Oldest(count) + (from + 1 - entries[Oldest(count)].offset) + i - 1) % Cap]
        IN  e.offset = from + i /\ e.data = log[from + i]
<1>1. /\ Cap \in Nat \ {0} /\ MaxPublish \in Nat /\ from \in Nat /\ lastOffset \in Nat
      /\ count \in 0 .. Cap /\ count > 0 /\ count <= lastOffset /\ i \in Nat
  BY HistoryAssumption DEF IInv, TypeOK, RingHolds
<1> DEFINE low == lastOffset - count
<1>2. low \in Int /\ low = lastOffset - count
  BY <1>1
<1>3. Oldest(count) = low % Cap
  BY <1>1, OldestIs
<1> HIDE DEF low
<1>4. entries[Oldest(count)].offset = low + 1
  BY <1>1, <1>2, OldestOffset
<1>5. low % Cap \in Int
  BY <1>1, <1>2, DivMod
<1>6. Oldest(count) + (from + 1 - entries[Oldest(count)].offset) + i - 1
        = (low % Cap) + (from - low + i - 1)
  BY <1>1, <1>2, <1>3, <1>4, <1>5
<1>7. from - low + i - 1 \in Int
  BY <1>1, <1>2
<1>8. ((low % Cap) + (from - low + i - 1)) % Cap = (low + (from - low + i - 1)) % Cap
  BY <1>1, <1>2, <1>7, ModPlus, Zenon
<1>9. low + (from - low + i - 1) = from + i - 1
  BY <1>1, <1>2
<1>10. from + i \in lastOffset - count + 1 .. lastOffset
  BY <1>1, <1>2
<1>11. entries[(from + i - 1) % Cap].offset = from + i /\ entries[(from + i - 1) % Cap].data = log[from + i]
  BY <1>10 DEF IInv, RingHolds
<1> QED BY <1>6, <1>8, <1>9, <1>11

\* In a state of the invariant every recovery is exact.
LEMMA InvReplay == IInv => ReplayIsExact
<1> SUFFICES ASSUME IInv, NEW from \in 0 .. MaxPublish + 1, NEW max \in 0 .. MaxPublish,
                    ReplayOk(from)
             PROVE [i \in DOMAIN ReplayItems(from, max) |->
                      [offset |-> ReplayItems(from, max)[i].offset,
                       data   |-> ReplayItems(from, max)[i].data]] = Log!Answer(from, max)
  BY OkIsServed DEF ReplayIsExact
<1>1. /\ MaxPublish \in Nat /\ from \in Nat /\ max \in Nat /\ lastOffset \in Nat
      /\ count \in Nat /\ lastOffset = Len(log) /\ count <= lastOffset
  BY HistoryAssumption DEF IInv, TypeOK, RingHolds
<1>2. from <= lastOffset /\ (from = lastOffset \/ from >= lastOffset - count)
  BY <1>1, OkIsServed DEF Log!Served
<1> DEFINE want == IF max > 0 /\ max < Len(log) - from THEN max ELSE Len(log) - from
           R == ReplayItems(from, max)
<1>3. want \in Nat /\ want <= lastOffset - from
  BY <1>1, <1>2
<1>4. CASE from = lastOffset
  <2>1. R = <<>> /\ want = 0
    BY <1>1, <1>4 DEF ReplayItems
  <2>2. DOMAIN R = 1 .. want
    BY <2>1
  <2>3. \A i \in 1 .. want : FALSE
    BY <2>1
  <2> HIDE DEF R, want
  <2>4. [i \in DOMAIN R |-> [offset |-> R[i].offset, data |-> R[i].data]]
          = [i \in 1 .. want |-> [offset |-> from + i, data |-> log[from + i]]]
    BY <2>2, <2>3
  <2> QED BY <2>4 DEF R, want, Log!Answer
<1>5. CASE from # lastOffset
  <2> DEFINE skip == from + 1 - entries[Oldest(count)].offset
             e(i) == entries[(Oldest(count) + skip + i - 1) % Cap]
  <2>1. from < lastOffset /\ from >= lastOffset - count
    BY <1>1, <1>2, <1>5
  <2>2. \A i \in 1 .. lastOffset - from : e(i).offset = from + i /\ e(i).data = log[from + i]
    BY <2>1, ItemIs
  <2>3. count - skip = lastOffset - from
    <3>1. count > 0
      BY <1>1, <2>1
    <3>5. entries[Oldest(count)].offset = lastOffset - count + 1
      BY <3>1, OldestOffset
    <3> QED BY <1>1, <3>5
  <2>4. R = [i \in 1 .. want |-> e(i)]
    BY <1>1, <1>5, <2>3 DEF ReplayItems
  <2> HIDE DEF skip, e, R, want
  <2>5. DOMAIN R = 1 .. want /\ \A i \in 1 .. want : R[i] = e(i)
    BY <2>4
  <2>6. \A i \in 1 .. want : i \in 1 .. lastOffset - from
    BY <1>1, <1>3
  <2>7. \A i \in 1 .. want : R[i].offset = from + i /\ R[i].data = log[from + i]
    BY <2>2, <2>5, <2>6
  <2>8. [i \in DOMAIN R |-> [offset |-> R[i].offset, data |-> R[i].data]]
          = [i \in 1 .. want |-> [offset |-> from + i, data |-> log[from + i]]]
    BY <2>5, <2>7
  <2> QED BY <2>8 DEF R, want, Log!Answer
<1> QED BY <1>4, <1>5

\* Whatever was evicted, expired or wrapped, a recovery is served exactly
\* when the whole gap is retained, and returns exactly the gap
\* (history.go:55-93).
THEOREM ReplayCorrect == Spec => []ReplayIsExact
BY HistoryInvariant, InvReplay, PTL

-----------------------------------------------------------------------------
\* A step of the ring is a step of the log.
LEMMA StepSimulates ==
  IInv /\ IInv' /\ [Next]_vars => [Log!Next]_<<log, lastOffset - count>>
<1> SUFFICES ASSUME IInv, IInv', [Next]_vars PROVE [Log!Next]_<<log, lastOffset - count>>
  OBVIOUS
<1>1. /\ Cap \in Nat \ {0} /\ lastOffset \in Nat /\ count \in 0 .. Cap
      /\ lastOffset = Len(log) /\ count <= lastOffset
  BY HistoryAssumption DEF IInv, TypeOK, RingHolds
<1>2. CASE \E d \in Payloads, now \in 0 .. MaxTime : lastOffset < MaxPublish /\ AppendNext(d, now)
  <2>1. PICK d \in Payloads : /\ count' = IF count < Cap THEN count + 1 ELSE count
                              /\ lastOffset' = lastOffset + 1
                              /\ log' = Append(log, d)
    BY <1>2 DEF AppendNext
  <2>2. Len(log') = lastOffset + 1
    BY <2>1 DEF IInv, RingHolds
  <2>3. /\ lastOffset' - count' \in {lastOffset - count, lastOffset - count + 1}
        /\ Len(log') - (lastOffset' - count') <= Cap
    BY <1>1, <2>1, <2>2
  <2>4. Log!Publish(d)
    BY <2>1, <2>3 DEF Log!Publish
  <2> QED BY <2>4 DEF Log!Next
<1>3. CASE \E now \in 0 .. MaxTime : Sweep(now)
  <2>1. count' \in 0 .. count /\ lastOffset' = lastOffset /\ log' = log
    BY <1>3 DEF Sweep, Swept
  <2>2. CASE count' = count
    BY <2>1, <2>2
  <2>3. CASE count' # count
    <3>1. lastOffset' - count' \in lastOffset - count + 1 .. Len(log)
      BY <1>1, <2>1, <2>3
    <3>2. Log!Forget
      BY <2>1, <3>1 DEF Log!Forget
    <3> QED BY <3>2 DEF Log!Next
  <2> QED BY <2>2, <2>3
<1>4. CASE UNCHANGED vars
  BY <1>4 DEF vars
<1> QED BY <1>2, <1>3, <1>4 DEF Next

\* The ring, as publishers and the TTL sweeper change it, implements the
\* forgetful log (history.go:14-15).
THEOREM RingImplementsLog == Spec => ImplementsLog
<1>1. Init => Log!Init
  BY DEF Init, Log!Init
<1> QED BY <1>1, StepSimulates, HistoryInvariant, PTL DEF Spec, ImplementsLog, Log!Spec
=============================================================================
