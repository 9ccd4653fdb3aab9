-------------------------- MODULE RelayDataProofs --------------------------
(***************************************************************************)
(* For every number of workers, buffer size, history capacity, outage and  *)
(* lapse: the deduplicator lets an identity through once per TTL, never    *)
(* suppresses what nobody publishes, and a stopped relay has published     *)
(* all it buffered.                                                        *)
(***************************************************************************)
EXTENDS RelayData, SequenceTheorems, FiniteSetTheorems, TLAPS

-----------------------------------------------------------------------------
\* The inductive invariant.

Busy == {"look", "insert", "publish"}

\* What the variables hold: the upstream and its stream,
UpTypes ==
  /\ up \in [epoch : 1 .. MaxEpoch, offset : 0 .. MaxPublish]
  /\ budget \in Nat /\ up.offset + budget <= MaxPublish
  /\ resume \in [point : Ids, held : Ids, met : Nat]
  /\ serial \in BOOLEAN /\ link \in {"up", "down", "replay"}
  /\ fanning \subseteq Numbered

\* ... the receiver and the buffer,
FlowTypes ==
  /\ lastSeen \in Ids /\ wire \in Seq(Ids)
  /\ rcv.pc \in {"recv", "hand", "exited"}
  /\ rcv.pc = "hand" => rcv.msg \in Ids
  /\ incoming \in Seq(Ids) /\ Len(incoming) <= IncomingCap
  /\ accepted \in [Ids -> Nat]
  /\ stop \in {"run", "cancelled", "upstream", "drain", "returned"}

\* ... the workers, who deduplicate only numbered messages, and the entries.
WorkTypes ==
  /\ wk \in [Workers -> [pc : Busy \union {"take", "exited"}, msg : Ids \union {NoMsg}]]
  /\ \A w \in Workers :
       /\ wk[w].pc \in Busy => wk[w].msg \in Ids
       /\ wk[w].pc \in {"look", "insert"} => wk[w].msg \in Numbered
  /\ entry \in [Numbered -> {"none", "fresh", "stale"}]
  /\ copies \in [Ids -> Nat]
  /\ lapsed \subseteq Numbered /\ muted \subseteq Numbered

Types == UpTypes /\ FlowTypes /\ WorkTypes

Publishing(i) == \E w \in Workers : wk[w].pc = "publish" /\ wk[w].msg = i

\* An entry that is not fresh was never written or has lapsed, a written one
\* has its publication, and without a lapse there is exactly one.
SeenOnce(i) ==
  /\ entry[i] # "fresh" => i \in lapsed \/ (copies[i] = 0 /\ ~Publishing(i))
  /\ entry[i] # "none" => copies[i] > 0 \/ Publishing(i)
  /\ i \notin lapsed =>
       /\ copies[i] <= 1
       /\ copies[i] = 1 => ~Publishing(i)
       /\ \A v, w \in Workers :
            (/\ wk[v].pc = "publish" /\ wk[v].msg = i
             /\ wk[w].pc = "publish" /\ wk[w].msg = i) => v = w

Deduplicated == \A i \in Numbered : SeenOnce(i)

\* The channel closes after the receiver is gone, a worker leaves the closed
\* channel empty, and Stop returns after the workers.
ShutDown ==
  /\ closed <=> stop \in {"drain", "returned"}
  /\ closed => rcv.pc = "exited"
  /\ ~panicked
  /\ \A w \in Workers : wk[w].pc = "exited" => closed /\ incoming = <<>>
  /\ stop = "returned" => \A w \in Workers : wk[w].pc = "exited"

\* What entered the buffer is published, still buffered or with a worker.
Kept(i) ==
  \/ copies[i] > 0
  \/ \E k \in 1 .. Len(incoming) : incoming[k] = i
  \/ \E w \in Workers : wk[w].pc \in Busy /\ wk[w].msg = i

Conserved == \A i \in Numbered : accepted[i] > 0 => Kept(i)

\* The publications without an offset are counted.
PlainAt(s)   == { k \in 1 .. Len(s) : s[k] = Plain }
PlainWorkers == { w \in Workers : wk[w].pc = "publish" /\ wk[w].msg = Plain }
PlainCounted ==
  accepted[Plain] = copies[Plain] + Cardinality(PlainAt(incoming)) + Cardinality(PlainWorkers)

IInv ==
  /\ Types /\ Deduplicated /\ SuppressedWasPublished
  /\ ShutDown /\ Conserved /\ PlainCounted

-----------------------------------------------------------------------------
\* Identities and their offsets.

LEMMA IdFacts ==
  /\ Plain \in Ids /\ Numbered \subseteq Ids /\ Plain \notin Numbered
  /\ NoPoint = Plain /\ NoMsg \notin Ids
  /\ \A i \in Ids : (i.offset = 0) <=> (i = Plain)
  /\ \A i \in Ids : i \notin Numbered => i = Plain
<1>1. \A i \in Numbered : i.offset \in 1 .. MaxPublish /\ i.epoch \in 1 .. MaxEpoch
  BY DEF Numbered
<1>2. Plain.offset = 0 /\ Plain.epoch = 0 /\ NoMsg.offset = -1
  BY DEF Plain, NoMsg, Id
<1>3. \A n \in 1 .. MaxPublish : n # 0 /\ n # -1
  BY RelayAssumption
<1>4. NoPoint = Plain
  BY DEF NoPoint, Plain
<1>5. Plain \notin Numbered
  BY <1>1, <1>2, <1>3
<1>6. NoMsg \notin Ids
  BY <1>1, <1>2, <1>3 DEF Ids
<1>7. \A i \in Ids : (i.offset = 0) <=> (i = Plain)
  BY <1>1, <1>2, <1>3 DEF Ids
<1> QED BY <1>4, <1>5, <1>6, <1>7 DEF Ids

\* What a replay may serve has a number.
LEMMA AfterNumbered ==
  ASSUME UpTypes, NEW p \in Ids
  PROVE  After(p) \subseteq Numbered
<1>1. p.offset \in Nat
  <2>1. CASE p = Plain
    BY <2>1 DEF Plain, Id
  <2>2. CASE p \in Numbered
    BY <2>2, RelayAssumption DEF Numbered
  <2> QED BY <2>1, <2>2 DEF Ids
<1>2. up.epoch \in 1 .. MaxEpoch /\ up.offset \in 0 .. MaxPublish
  BY DEF UpTypes
<1>3. ASSUME NEW o \in (p.offset + 1) .. up.offset
      PROVE  Id(up.epoch, o) \in Numbered
  BY <1>1, <1>2, RelayAssumption DEF Id, Numbered
<1> QED BY <1>3 DEF After

-----------------------------------------------------------------------------
\* Types.

LEMMA InitTypes == Init => Types
<1> SUFFICES ASSUME Init PROVE Types
  OBVIOUS
<1>1. UpTypes
  BY RelayAssumption, IdFacts DEF Init, Id, UpTypes
<1>2. FlowTypes
  BY RelayAssumption, IdFacts, EmptySeq DEF Init, FlowTypes
<1>3. WorkTypes
  BY DEF Init, Busy, WorkTypes
<1> QED BY <1>1, <1>2, <1>3 DEF Types

\* Only the upstream's steps touch what it keeps.
LEMMA NextUpTypes == Types /\ [Next]_vars => UpTypes'
<1> SUFFICES ASSUME UpTypes, FlowTypes, [Next]_vars PROVE UpTypes'
  BY DEF Types
<1>1. CASE UpPublish
  <2>1. up.offset \in 0 .. MaxPublish /\ up.epoch \in 1 .. MaxEpoch
        /\ budget \in Nat /\ up.offset + budget <= MaxPublish
    BY DEF UpTypes
  <2>2. /\ up.offset + 1 \in 1 .. MaxPublish
        /\ budget - 1 \in Nat /\ (up.offset + 1) + (budget - 1) <= MaxPublish
    BY <1>1, <2>1, RelayAssumption DEF UpPublish
  <2>3. up' = [epoch |-> up.epoch, offset |-> up.offset + 1]
    BY <1>1 DEF UpPublish, UpTypes
  <2>4. up' \in Numbered
    BY <2>1, <2>2, <2>3 DEF Numbered
  <2>5. up' \in [epoch : 1 .. MaxEpoch, offset : 0 .. MaxPublish]
    BY <2>1, <2>2, <2>3, RelayAssumption
  <2> QED BY <1>1, <2>2, <2>3, <2>4, <2>5 DEF UpPublish, UpTypes
<1>2. CASE UpPublishPlain
  BY <1>2, RelayAssumption DEF UpPublishPlain, UpTypes
<1>3. CASE UpDeliver
  BY <1>3 DEF UpDeliver, UpTypes
<1>4. CASE StreamDies
  BY <1>4, RelayAssumption DEF StreamDies, UpTypes, Id
<1>5. CASE Resubscribe
  BY <1>5, RelayAssumption, IdFacts DEF Resubscribe, UpTypes, FlowTypes
<1>6. CASE UpReplay
  BY <1>6 DEF UpReplay, UpTypes
<1>7. CASE StopUpstream
  BY <1>7 DEF StopUpstream, UpTypes
<1>8. CASE UNCHANGED upVars
  BY <1>8 DEF upVars, UpTypes
<1>9. \/ UpPublish \/ UpPublishPlain \/ UpDeliver \/ StreamDies \/ Resubscribe
      \/ UpReplay \/ StopUpstream \/ UNCHANGED upVars
  BY DEF Next, ReceiveStep, Receive, Hand, HandGivesUp, ReceiverExits, WorkerStep, Take,
         WorkerExits, Look, Insert, Publish, EntryLapses, Cleanup, StopCancel, StopStep,
         StopClose, StopWait, StopTo, Stopped, vars, upVars
<1> QED BY <1>1, <1>2, <1>3, <1>4, <1>5, <1>6, <1>7, <1>8, <1>9

LEMMA NextFlowTypes == Types /\ [Next]_vars => FlowTypes'
<1> SUFFICES ASSUME UpTypes, FlowTypes, WorkTypes, [Next]_vars PROVE FlowTypes'
  BY DEF Types
<1>1. CASE UpPublish
  BY <1>1 DEF UpPublish, FlowTypes, stopVars, ghostVars
<1>2. CASE UpPublishPlain
  <2>1. wire' \in Seq(Ids)
    BY <1>2, AppendProperties, IdFacts DEF UpPublishPlain, FlowTypes
  <2> QED BY <1>2, <2>1 DEF UpPublishPlain, FlowTypes, stopVars, ghostVars
<1>3. CASE UpDeliver
  <2>1. PICK i \in fanning : UpDeliver!(i)
    BY <1>3 DEF UpDeliver
  <2>2. i \in Ids /\ wire \in Seq(Ids)
    BY IdFacts DEF FlowTypes, UpTypes
  <2>3. wire' = Append(wire, i) \/ wire' = wire
    BY <2>1
  <2>4. wire' \in Seq(Ids)
    BY <2>2, <2>3, AppendProperties
  <2> QED BY <2>1, <2>4 DEF FlowTypes, stopVars
<1>4. CASE StreamDies
  <2>1. PICK n \in 0 .. Len(wire) : wire' = SubSeq(wire, 1, n)
    BY <1>4 DEF StreamDies
  <2>2. wire \in Seq(Ids) /\ Len(wire) \in Nat
    BY LenProperties DEF FlowTypes
  <2>3. wire' \in Seq(Ids)
    <3>1. n \in Int /\ \A k \in 1 .. n : wire[k] \in Ids
      BY <2>2, ElementOfSeq
    <3> QED BY <2>1, <3>1, SubSeqProperties
  <2> QED BY <1>4, <2>3 DEF StreamDies, FlowTypes, stopVars
<1>5. CASE Resubscribe
  BY <1>5 DEF Resubscribe, FlowTypes, stopVars, ghostVars
<1>6. CASE UpReplay
  <2>1. CASE Recoverable(resume.point)
    <3>1. PICK n \in 0 .. HistCap : \E kept \in [1 .. n -> After(resume.point)] :
            wire' = wire \o kept
      BY <1>6, <2>1 DEF UpReplay
    <3>2. PICK kept \in [1 .. n -> After(resume.point)] : wire' = wire \o kept
      BY <3>1
    <3>3. After(resume.point) \subseteq Ids
      BY AfterNumbered, IdFacts DEF UpTypes
    <3>4. kept \in Seq(After(resume.point))
      BY <3>2
    <3>5. kept \in Seq(Ids)
      BY <3>3, <3>4, SeqMonotonic
    <3>6. wire' \in Seq(Ids)
      BY <3>2, <3>5, ConcatProperties DEF FlowTypes
    <3> QED BY <1>6, <3>6 DEF UpReplay, FlowTypes, stopVars
  <2>2. CASE ~Recoverable(resume.point)
    BY <1>6, <2>2 DEF UpReplay, FlowTypes, stopVars
  <2> QED BY <2>1, <2>2
<1>7. CASE Receive
  <2>1. Head(wire) \in Ids /\ wire' \in Seq(Ids)
    BY <1>7, HeadTailProperties DEF Receive, FlowTypes
  <2> QED BY <1>7, <2>1 DEF Receive, FlowTypes, stopVars, ghostVars
<1>8. CASE Hand
  <2>1. incoming' \in Seq(Ids) /\ Len(incoming') <= IncomingCap
    <3>1. CASE closed
      BY <1>8, <3>1 DEF Hand, FlowTypes
    <3>2. CASE ~closed
      <4>1. /\ incoming \in Seq(Ids) /\ Len(incoming) \in Nat /\ rcv.msg \in Ids
            /\ Len(incoming) < IncomingCap
        BY <1>8, <3>2, LenProperties DEF Hand, FlowTypes
      <4>2. incoming' = Append(incoming, rcv.msg)
        BY <1>8, <3>2 DEF Hand
      <4> QED BY <4>1, <4>2, AppendProperties, RelayAssumption
    <3> QED BY <3>1, <3>2
  <2>2. accepted' \in [Ids -> Nat]
    BY <1>8 DEF Hand, FlowTypes
  <2> QED BY <1>8, <2>1, <2>2 DEF Hand, FlowTypes, stopVars
<1>9. CASE HandGivesUp \/ ReceiverExits
  BY <1>9 DEF HandGivesUp, ReceiverExits, FlowTypes, stopVars, ghostVars
<1>10. ASSUME NEW w \in Workers, Take(w) PROVE FlowTypes'
  <2>1. incoming' \in Seq(Ids) /\ Len(incoming') <= IncomingCap
    BY <1>10, HeadTailProperties, LenProperties, RelayAssumption DEF Take, FlowTypes
  <2> QED BY <1>10, <2>1 DEF Take, FlowTypes, stopVars, ghostVars
<1>11. CASE StopStep \/ StopCancel
  <2>1. CASE StopUpstream
    BY <2>1, EmptySeq DEF StopUpstream, FlowTypes, ghostVars
  <2> QED BY <1>11, <2>1 DEF StopStep, StopClose, StopWait, StopCancel, StopTo, FlowTypes,
                             ghostVars
<1>12. CASE UNCHANGED <<lastSeen, wire, rcv, incoming, accepted, stop>>
  BY <1>12 DEF FlowTypes
<1>13. ASSUME NEW w \in Workers, WorkerStep(w), ~Take(w)
       PROVE  UNCHANGED <<lastSeen, wire, rcv, incoming, accepted, stop>>
  BY <1>13 DEF WorkerStep, WorkerExits, Look, Insert, Publish, stopVars, ghostVars
<1>14. ASSUME EntryLapses \/ Cleanup \/ UNCHANGED vars
       PROVE  UNCHANGED <<lastSeen, wire, rcv, incoming, accepted, stop>>
  BY <1>14 DEF EntryLapses, Cleanup, vars, stopVars, ghostVars
<1> QED BY <1>1, <1>2, <1>3, <1>4, <1>5, <1>6, <1>7, <1>8, <1>9, <1>10, <1>11, <1>12,
           <1>13, <1>14 DEF Next, ReceiveStep, Stopped

LEMMA NextWorkTypes == Types /\ [Next]_vars => WorkTypes'
<1> SUFFICES ASSUME FlowTypes, WorkTypes, [Next]_vars PROVE WorkTypes'
  BY DEF Types
<1>1. ASSUME NEW w \in Workers, Take(w) PROVE WorkTypes'
  <2>1. Head(incoming) \in Ids
    BY <1>1, HeadTailProperties DEF Take, FlowTypes
  <2>2. Head(incoming).offset # 0 => Head(incoming) \in Numbered
    BY <2>1, IdFacts
  <2> QED BY <1>1, <2>1, <2>2 DEF Take, WorkTypes, Busy, ghostVars
<1>2. ASSUME NEW w \in Workers, WorkerExits(w) PROVE WorkTypes'
  BY <1>2 DEF WorkerExits, WorkTypes, Busy, ghostVars
<1>3. ASSUME NEW w \in Workers, Look(w) PROVE WorkTypes'
  BY <1>3, IdFacts DEF Look, Suppress, Proceed, WorkTypes, Busy
<1>4. ASSUME NEW w \in Workers, Insert(w) PROVE WorkTypes'
  <2>1. wk[w].msg \in Numbered /\ wk[w].msg \in Ids
    BY <1>4, IdFacts DEF Insert, WorkTypes
  <2>2. entry' \in [Numbered -> {"none", "fresh", "stale"}] /\ UNCHANGED <<copies, lapsed>>
    BY <1>4, <2>1 DEF Insert, Key, WorkTypes
  <2>3. CASE Suppress(w)
    BY <2>1, <2>2, <2>3 DEF Suppress, WorkTypes, Busy
  <2>4. CASE Proceed(w, "publish")
    BY <2>1, <2>2, <2>4 DEF Proceed, WorkTypes, Busy
  <2> QED BY <1>4, <2>3, <2>4 DEF Insert
<1>5. ASSUME NEW w \in Workers, Publish(w) PROVE WorkTypes'
  BY <1>5 DEF Publish, WorkTypes, Busy
<1>6. CASE EntryLapses
  BY <1>6 DEF EntryLapses, WorkTypes
<1>7. CASE Cleanup
  BY <1>7 DEF Cleanup, WorkTypes, ghostVars
<1>8. CASE UNCHANGED <<wk, entry, copies, lapsed, muted>>
  BY <1>8 DEF WorkTypes
<1>9. \/ \E w \in Workers : WorkerStep(w)
      \/ EntryLapses \/ Cleanup \/ UNCHANGED <<wk, entry, copies, lapsed, muted>>
  BY DEF Next, ReceiveStep, UpPublish, UpPublishPlain, UpDeliver, StreamDies, Resubscribe,
         UpReplay, Receive, Hand, HandGivesUp, ReceiverExits, StopCancel, StopStep,
         StopUpstream, StopClose, StopWait, StopTo, Stopped, vars, ghostVars
<1> QED BY <1>1, <1>2, <1>3, <1>4, <1>5, <1>6, <1>7, <1>8, <1>9 DEF WorkerStep

\* The invariant's types imply the module's type invariant.
LEMMA TypesSuffice == Types => TypeOK
<1> SUFFICES ASSUME UpTypes, FlowTypes, WorkTypes PROVE TypeOK
  BY DEF Types
<1>1. ToSet(wire) \subseteq Ids /\ ToSet(incoming) \subseteq Ids
  BY LenProperties DEF FlowTypes, ToSet
<1> QED BY <1>1 DEF TypeOK, UpTypes, FlowTypes, WorkTypes, Busy

\* Every variable keeps its type and incomingCh its bound, whatever the
\* number of workers, the buffer and the outages.
THEOREM TypeCorrect == Spec => []TypeOK
<1>1. Types /\ [Next]_vars => Types'
  BY NextUpTypes, NextFlowTypes, NextWorkTypes DEF Types
<1> QED BY InitTypes, <1>1, TypesSuffice, PTL DEF Spec

-----------------------------------------------------------------------------
\* The deduplicator.

LEMMA NextDeduplicated ==
  ASSUME WorkTypes, WorkTypes', Deduplicated, SuppressedWasPublished, [Next]_vars
  PROVE  Deduplicated' /\ SuppressedWasPublished'
<1>1. ASSUME NEW w \in Workers, Take(w) \/ WorkerExits(w)
      PROVE  Deduplicated' /\ SuppressedWasPublished'
  <2>1. \A v \in Workers, i \in Numbered :
          (wk'[v].pc = "publish" /\ wk'[v].msg = i) <=> (wk[v].pc = "publish" /\ wk[v].msg = i)
    <3>1. CASE Take(w)
      <4>1. wk'[w].msg \in Ids /\ (wk'[w].pc = "publish" => wk'[w].msg.offset = 0)
        BY <3>1 DEF Take, WorkTypes, Busy
      <4>2. wk'[w].pc = "publish" => wk'[w].msg \notin Numbered
        BY <4>1, IdFacts
      <4>3. wk[w].pc # "publish" /\ \A v \in Workers : v # w => wk'[v] = wk[v]
        BY <3>1 DEF Take, WorkTypes
      <4> QED BY <4>2, <4>3
    <3>2. CASE WorkerExits(w)
      BY <3>2 DEF WorkerExits, WorkTypes
    <3> QED BY <1>1, <3>1, <3>2
  <2>2. UNCHANGED <<entry, copies, lapsed, muted>> /\ muted \subseteq Numbered
    BY <1>1 DEF Take, WorkerExits, ghostVars, WorkTypes
  <2> QED BY <2>1, <2>2 DEF Deduplicated, SeenOnce, Publishing, SuppressedWasPublished
<1>2. ASSUME NEW w \in Workers, Look(w)
      PROVE  Deduplicated' /\ SuppressedWasPublished'
  <2>1. \A v \in Workers, i \in Numbered :
          (wk'[v].pc = "publish" /\ wk'[v].msg = i) <=> (wk[v].pc = "publish" /\ wk[v].msg = i)
    BY <1>2 DEF Look, Suppress, Proceed, WorkTypes
  <2>2. UNCHANGED <<entry, copies, lapsed>> /\ muted' \subseteq Numbered
    BY <1>2 DEF Look, WorkTypes
  <2>3. \A i \in muted' : i \in muted \/ entry[i] # "none"
    BY <1>2 DEF Look, Suppress, Proceed, Key
  <2> QED BY <2>1, <2>2, <2>3 DEF Deduplicated, SeenOnce, Publishing, SuppressedWasPublished
<1>3. ASSUME NEW w \in Workers, Insert(w)
      PROVE  Deduplicated' /\ SuppressedWasPublished'
  <2>1. PICK m \in Numbered : m = wk[w].msg
    BY <1>3 DEF Insert, WorkTypes
  <2>2. UNCHANGED <<copies, lapsed>> /\ entry' = [entry EXCEPT ![m] = "fresh"]
    BY <1>3, <2>1 DEF Insert, Key
  <2>3. CASE entry[m] = "fresh"
    <3>1. \A v \in Workers, i \in Numbered :
            (wk'[v].pc = "publish" /\ wk'[v].msg = i) <=> (wk[v].pc = "publish" /\ wk[v].msg = i)
      BY <1>3, <2>1, <2>3 DEF Insert, Suppress, Key, WorkTypes
    <3>2. muted' = muted \union {m} /\ muted' \subseteq Numbered
      BY <1>3, <2>1, <2>3 DEF Insert, Suppress, Key, WorkTypes
    <3>3. entry' = entry
      BY <2>1, <2>2, <2>3 DEF WorkTypes
    <3> QED BY <2>1, <2>2, <2>3, <3>1, <3>2, <3>3
            DEF Deduplicated, SeenOnce, Publishing, SuppressedWasPublished
  <2>4. CASE entry[m] # "fresh"
    <3>1. \A v \in Workers, i \in Numbered :
            (wk'[v].pc = "publish" /\ wk'[v].msg = i)
              <=> ((wk[v].pc = "publish" /\ wk[v].msg = i) \/ (v = w /\ i = m))
      BY <1>3, <2>1, <2>4 DEF Insert, Proceed, Key, WorkTypes
    <3>2. UNCHANGED muted /\ muted \subseteq Numbered
      BY <1>3, <2>1, <2>4 DEF Insert, Proceed, Key, WorkTypes
    <3>3. entry'[m] = "fresh" /\ \A i \in Numbered : i # m => entry'[i] = entry[i]
      BY <2>1, <2>2 DEF WorkTypes
    <3>4. m \in lapsed \/ (copies[m] = 0 /\ ~Publishing(m))
      BY <2>1, <2>4 DEF Deduplicated, SeenOnce
    <3>5. SuppressedWasPublished'
      BY <2>2, <3>1, <3>2 DEF SuppressedWasPublished
    <3>6. ASSUME NEW i \in Numbered, i # m
          PROVE  SeenOnce(i)'
      BY <2>2, <3>1, <3>3, <3>6 DEF Deduplicated, SeenOnce, Publishing
    <3>7. SeenOnce(m)'
      BY <2>1, <2>2, <3>1, <3>3, <3>4 DEF SeenOnce, Publishing
    <3> QED BY <2>1, <3>5, <3>6, <3>7 DEF Deduplicated
  <2> QED BY <2>3, <2>4
<1>4. ASSUME NEW w \in Workers, Publish(w)
      PROVE  Deduplicated' /\ SuppressedWasPublished'
  <2>0. PICK m \in Ids : m = wk[w].msg
    BY <1>4 DEF Publish, WorkTypes, Busy
  <2>1. copies' = [copies EXCEPT ![m] = @ + 1]
    BY <1>4, <2>0 DEF Publish
  <2>2. UNCHANGED <<entry, lapsed, muted>> /\ muted \subseteq Numbered
    BY <1>4 DEF Publish, WorkTypes
  <2>3. \A v \in Workers, i \in Numbered :
          (wk'[v].pc = "publish" /\ wk'[v].msg = i)
            <=> (v # w /\ wk[v].pc = "publish" /\ wk[v].msg = i)
    BY <1>4 DEF Publish, WorkTypes
  <2>4. wk[w].pc = "publish"
    BY <1>4 DEF Publish
  <2>5. copies'[m] = copies[m] + 1 /\ \A i \in Numbered : i # m => copies'[i] = copies[i]
    BY <2>1, IdFacts DEF WorkTypes
  <2>6. copies[m] \in Nat
    BY <2>1 DEF WorkTypes
  <2>7. SuppressedWasPublished'
    BY <2>0, <2>2, <2>3, <2>5, <2>6 DEF SuppressedWasPublished
  <2>8. ASSUME NEW i \in Numbered, i # m
        PROVE  SeenOnce(i)'
    BY <2>0, <2>2, <2>3, <2>5, <2>8 DEF Deduplicated, SeenOnce, Publishing
  <2>9. ASSUME m \in Numbered
        PROVE  SeenOnce(m)'
    <3>1. Publishing(m) /\ SeenOnce(m)
      BY <2>0, <2>4, <2>9 DEF Deduplicated, Publishing
    <3>2. entry[m] = "fresh" \/ m \in lapsed
      BY <3>1 DEF SeenOnce
    <3>3. m \notin lapsed => copies[m] = 0 /\ ~Publishing(m)'
      BY <2>0, <2>3, <2>4, <2>6, <2>9, <3>1 DEF SeenOnce, Publishing
    <3> QED BY <2>2, <2>3, <2>5, <2>6, <2>9, <3>2, <3>3 DEF SeenOnce, Publishing
  <2> QED BY <2>7, <2>8, <2>9 DEF Deduplicated
<1>5. CASE EntryLapses
  BY <1>5 DEF EntryLapses, Deduplicated, SeenOnce, Publishing, SuppressedWasPublished, WorkTypes
<1>6. CASE Cleanup
  BY <1>6 DEF Cleanup, ghostVars, Deduplicated, SeenOnce, Publishing, SuppressedWasPublished, WorkTypes
<1>7. CASE UNCHANGED <<wk, entry, copies, lapsed, muted>>
  BY <1>7 DEF Deduplicated, SeenOnce, Publishing, SuppressedWasPublished
<1>8. \/ \E w \in Workers : WorkerStep(w)
      \/ EntryLapses \/ Cleanup \/ UNCHANGED <<wk, entry, copies, lapsed, muted>>
  BY DEF Next, ReceiveStep, UpPublish, UpPublishPlain, UpDeliver, StreamDies, Resubscribe,
         UpReplay, Receive, Hand, HandGivesUp, ReceiverExits, StopCancel, StopStep,
         StopUpstream, StopClose, StopWait, StopTo, Stopped, vars, ghostVars
<1> QED BY <1>1, <1>2, <1>3, <1>4, <1>5, <1>6, <1>7, <1>8 DEF WorkerStep

-----------------------------------------------------------------------------
\* Counting the publications without an offset.

LEMMA PlainAtFinite ==
  ASSUME NEW s \in Seq(Ids)
  PROVE  IsFiniteSet(PlainAt(s)) /\ Cardinality(PlainAt(s)) \in Nat
<1>1. Len(s) \in Nat
  BY LenProperties
<1>2. IsFiniteSet(1 .. Len(s))
  BY <1>1, FS_Interval
<1>3. PlainAt(s) \in SUBSET (1 .. Len(s))
  BY DEF PlainAt
<1> QED BY <1>2, <1>3, FS_Subset, FS_CardinalityType

LEMMA PlainAtAppend ==
  ASSUME NEW s \in Seq(Ids), NEW i \in Ids
  PROVE  Cardinality(PlainAt(Append(s, i))) =
           Cardinality(PlainAt(s)) + IF i = Plain THEN 1 ELSE 0
<1>1. Len(s) \in Nat
  BY LenProperties
<1>2. /\ Len(Append(s, i)) = Len(s) + 1 /\ Append(s, i)[Len(s) + 1] = i
      /\ \A k \in 1 .. Len(s) : Append(s, i)[k] = s[k]
  BY AppendProperties
<1>3. CASE i = Plain
  <2>1. PlainAt(Append(s, i)) = PlainAt(s) \union {Len(s) + 1}
    BY <1>1, <1>2, <1>3 DEF PlainAt
  <2>2. Len(s) + 1 \notin PlainAt(s)
    BY <1>1 DEF PlainAt
  <2> QED BY <1>3, <2>1, <2>2, PlainAtFinite, FS_AddElement
<1>4. CASE i # Plain
  <2>1. PlainAt(Append(s, i)) = PlainAt(s)
    BY <1>1, <1>2, <1>4 DEF PlainAt
  <2> QED BY <1>4, <2>1, PlainAtFinite
<1> QED BY <1>3, <1>4

LEMMA PlainAtTail ==
  ASSUME NEW s \in Seq(Ids), s # <<>>
  PROVE  Cardinality(PlainAt(s)) =
           Cardinality(PlainAt(Tail(s))) + IF Head(s) = Plain THEN 1 ELSE 0
<1>1. /\ Len(s) \in Nat \ {0} /\ Tail(s) \in Seq(Ids) /\ Len(Tail(s)) = Len(s) - 1
      /\ \A k \in 1 .. Len(s) - 1 : Tail(s)[k] = s[k + 1]
      /\ Head(s) = s[1]
  BY HeadTailProperties, EmptySeq, LenProperties
<1> DEFINE T == PlainAt(Tail(s))
           R == PlainAt(s) \ {1}
           f == [k \in T |-> k + 1]
<1>2. \A k \in T : k \in Nat /\ k + 1 \in R
  BY <1>1 DEF PlainAt
<1>3. \A k \in R : k - 1 \in T /\ k = (k - 1) + 1
  BY <1>1 DEF PlainAt
<1>4. f \in Bijection(T, R)
  <2>1. f \in [T -> R]
    BY <1>2
  <2>2. \A a, b \in T : f[a] = f[b] => a = b
    BY <1>2
  <2>3. \A r \in R : \E a \in T : f[a] = r
    <3> TAKE r \in R
    <3>1. r - 1 \in T /\ r = (r - 1) + 1
      BY <1>3
    <3>2. f[r - 1] = r
      BY <3>1
    <3> QED BY <3>1, <3>2
  <2>4. DOMAIN f = T
    OBVIOUS
  <2> HIDE DEF f, T, R
  <2>5. IsInjective(f)
    BY <2>2, <2>4 DEF IsInjective
  <2>6. f \in Injection(T, R)
    BY <2>1, <2>5 DEF Injection
  <2>7. f \in Surjection(T, R)
    BY <2>1, <2>3 DEF Surjection
  <2> QED BY <2>6, <2>7 DEF Bijection
<1>5. IsFiniteSet(T) /\ Cardinality(R) = Cardinality(T)
  BY <1>1, <1>4, PlainAtFinite, FS_Bijection DEF ExistsBijection
<1>6. Cardinality(R) = IF 1 \in PlainAt(s) THEN Cardinality(PlainAt(s)) - 1
                       ELSE Cardinality(PlainAt(s))
  BY PlainAtFinite, FS_RemoveElement
<1>7. 1 \in PlainAt(s) <=> Head(s) = Plain
  BY <1>1 DEF PlainAt
<1>8. Cardinality(PlainAt(s)) \in Nat
  BY PlainAtFinite
<1>9. Cardinality(R) \in Nat
  <2> HIDE DEF T, R
  <2> QED BY <1>5, FS_CardinalityType
<1> HIDE DEF R
<1> QED BY <1>5, <1>6, <1>7, <1>8, <1>9

-----------------------------------------------------------------------------
\* Shutting down.

LEMMA NextShutDown ==
  ASSUME FlowTypes, WorkTypes, ShutDown, [Next]_vars
  PROVE  ShutDown'
<1>1. CASE Receive \/ HandGivesUp \/ ReceiverExits
  BY <1>1 DEF Receive, HandGivesUp, ReceiverExits, ShutDown, stopVars, ghostVars
<1>2. CASE Hand
  BY <1>2 DEF Hand, ShutDown, stopVars
<1>3. ASSUME NEW w \in Workers, Take(w) PROVE ShutDown'
  <2>1. incoming # <<>> /\ \A v \in Workers : wk[v].pc # "exited"
    BY <1>3 DEF Take, ShutDown
  <2>2. stop # "returned"
    BY <2>1 DEF ShutDown
  <2>3. \A v \in Workers : wk'[v].pc # "exited"
    BY <1>3, <2>1 DEF Take, WorkTypes
  <2> QED BY <1>3, <2>2, <2>3 DEF Take, ShutDown, stopVars, ghostVars
<1>4. ASSUME NEW w \in Workers, WorkerExits(w) PROVE ShutDown'
  BY <1>4 DEF WorkerExits, ShutDown, WorkTypes, stopVars, ghostVars
<1>5. ASSUME NEW w \in Workers, Look(w) \/ Insert(w) \/ Publish(w) PROVE ShutDown'
  <2>1. \A v \in Workers : wk'[v].pc = "exited" <=> wk[v].pc = "exited"
    BY <1>5 DEF Look, Insert, Publish, Suppress, Proceed, WorkTypes
  <2>2. UNCHANGED <<closed, stop, rcv, incoming, panicked>>
    BY <1>5 DEF Look, Insert, Publish, stopVars
  <2> QED BY <2>1, <2>2 DEF ShutDown
<1>6. CASE StopCancel
  BY <1>6 DEF StopCancel, StopTo, ShutDown, ghostVars
<1>7. CASE StopUpstream
  BY <1>7 DEF StopUpstream, ShutDown, ghostVars
<1>8. CASE StopClose
  BY <1>8 DEF StopClose, StopTo, ShutDown, ghostVars
<1>9. CASE StopWait
  BY <1>9 DEF StopWait, StopTo, ShutDown, ghostVars
<1>10. CASE UNCHANGED <<closed, stop, rcv, incoming, wk, panicked>>
  BY <1>10 DEF ShutDown
<1>11. ASSUME \/ UpPublish \/ UpPublishPlain \/ UpDeliver \/ StreamDies \/ Resubscribe
              \/ UpReplay \/ EntryLapses \/ Cleanup \/ UNCHANGED vars
       PROVE  UNCHANGED <<closed, stop, rcv, incoming, wk, panicked>>
  BY <1>11 DEF UpPublish, UpPublishPlain, UpDeliver, StreamDies, Resubscribe, UpReplay,
               EntryLapses, Cleanup, vars, stopVars, ghostVars
<1> QED BY <1>1, <1>2, <1>3, <1>4, <1>5, <1>6, <1>7, <1>8, <1>9, <1>10, <1>11
        DEF Next, ReceiveStep, WorkerStep, StopStep, Stopped

-----------------------------------------------------------------------------
\* Nothing accepted is lost.

LEMMA NextConserved ==
  ASSUME FlowTypes, WorkTypes, Deduplicated, ShutDown, Conserved, [Next]_vars
  PROVE  Conserved'
<1>1. CASE Hand
  <2>1. /\ incoming' = Append(incoming, rcv.msg) /\ rcv.msg \in Ids
        /\ accepted' = [accepted EXCEPT ![rcv.msg] = @ + 1]
        /\ UNCHANGED <<wk, copies>> /\ incoming \in Seq(Ids) /\ accepted \in [Ids -> Nat]
    BY <1>1 DEF Hand, ShutDown, FlowTypes
  <2>2. /\ Len(incoming) \in Nat /\ Len(incoming') = Len(incoming) + 1
        /\ \A k \in 1 .. Len(incoming) : incoming'[k] = incoming[k]
        /\ incoming'[Len(incoming) + 1] = rcv.msg
    BY <2>1, AppendProperties, LenProperties
  <2> SUFFICES ASSUME NEW i \in Numbered, accepted'[i] > 0
               PROVE  Kept(i)'
    BY DEF Conserved
  <2>3. CASE i = rcv.msg
    BY <2>2, <2>3 DEF Kept
  <2>4. CASE i # rcv.msg
    BY <2>1, <2>2, <2>4, IdFacts DEF Conserved, Kept
  <2> QED BY <2>3, <2>4

<1>2. ASSUME NEW w \in Workers, Take(w) PROVE Conserved'
  <2>1. /\ incoming \in Seq(Ids) /\ incoming # <<>> /\ incoming' = Tail(incoming)
        /\ UNCHANGED <<accepted, copies>>
    BY <1>2 DEF Take, FlowTypes, ghostVars
  <2>2. /\ Len(incoming) \in Nat \ {0} /\ Len(incoming') = Len(incoming) - 1
        /\ \A k \in 1 .. Len(incoming) - 1 : incoming'[k] = incoming[k + 1]
        /\ Head(incoming) = incoming[1]
    BY <2>1, HeadTailProperties, EmptySeq, LenProperties
  <2>3. /\ wk'[w].pc \in Busy /\ wk'[w].msg = Head(incoming) /\ wk[w].pc \notin Busy
        /\ \A v \in Workers : v # w => wk'[v] = wk[v]
    BY <1>2 DEF Take, WorkTypes, Busy
  <2> SUFFICES ASSUME NEW i \in Numbered, accepted'[i] > 0
               PROVE  Kept(i)'
    BY DEF Conserved
  <2>4. Kept(i)
    BY <2>1 DEF Conserved
  <2>5. CASE \E k \in 1 .. Len(incoming) : incoming[k] = i
    <3>1. PICK k \in 1 .. Len(incoming) : incoming[k] = i
      BY <2>5
    <3>2. CASE k = 1
      BY <2>2, <2>3, <3>1, <3>2 DEF Kept
    <3>3. CASE k # 1
      <4>1. k - 1 \in 1 .. Len(incoming') /\ incoming'[k - 1] = i
        BY <2>2, <3>1, <3>3
      <4> QED BY <4>1 DEF Kept
    <3> QED BY <3>2, <3>3
  <2> QED BY <2>1, <2>3, <2>4, <2>5 DEF Kept
<1>3. ASSUME NEW w \in Workers, WorkerExits(w) PROVE Conserved'
  <2>1. \A v \in Workers : wk[v].pc \in Busy => wk'[v] = wk[v]
    BY <1>3 DEF WorkerExits, WorkTypes, Busy
  <2>2. UNCHANGED <<incoming, accepted, copies>>
    BY <1>3 DEF WorkerExits, ghostVars
  <2> QED BY <2>1, <2>2 DEF Conserved, Kept
<1>4. ASSUME NEW w \in Workers, Look(w) \/ Insert(w) PROVE Conserved'
  <2>1. UNCHANGED <<incoming, accepted, copies>> /\ wk[w].msg \in Numbered
    BY <1>4 DEF Look, Insert, WorkTypes
  <2>2. \A v \in Workers : v # w => wk'[v] = wk[v]
    BY <1>4 DEF Look, Insert, Suppress, Proceed, WorkTypes
  <2>3. CASE wk'[w].pc \in Busy /\ wk'[w].msg = wk[w].msg
    BY <2>1, <2>2, <2>3 DEF Conserved, Kept
  <2>4. CASE entry[wk[w].msg] = "fresh"
    <3>1. copies[wk[w].msg] > 0 \/ Publishing(wk[w].msg)
      BY <2>1, <2>4 DEF Deduplicated, SeenOnce
    <3>2. wk[w].pc # "publish"
      BY <1>4 DEF Look, Insert
    <3> QED BY <2>1, <2>2, <3>1, <3>2 DEF Conserved, Kept, Publishing, Busy
  <2>5. \/ wk'[w].pc \in Busy /\ wk'[w].msg = wk[w].msg
        \/ entry[wk[w].msg] = "fresh"
    BY <1>4 DEF Look, Insert, Proceed, Key, WorkTypes, Busy
  <2> QED BY <2>3, <2>4, <2>5
<1>5. ASSUME NEW w \in Workers, Publish(w) PROVE Conserved'
  <2>1. /\ copies' = [copies EXCEPT ![wk[w].msg] = @ + 1] /\ wk[w].msg \in Ids
        /\ UNCHANGED <<incoming, accepted>> /\ copies \in [Ids -> Nat]
    BY <1>5 DEF Publish, WorkTypes, Busy
  <2>2. \A v \in Workers : v # w => wk'[v] = wk[v]
    BY <1>5 DEF Publish, WorkTypes
  <2>3. \A i \in Numbered : copies'[i] >= copies[i] /\ (i = wk[w].msg => copies'[i] > 0)
    BY <2>1, IdFacts
  <2>4. \A i \in Numbered : copies[i] \in Nat /\ copies'[i] \in Nat
    BY <2>1, IdFacts
  <2> QED BY <2>1, <2>2, <2>3, <2>4 DEF Conserved, Kept
<1>6. CASE UNCHANGED <<incoming, wk, copies, accepted>>
  BY <1>6 DEF Conserved, Kept
<1>7. ASSUME ~Hand, \A w \in Workers : ~WorkerStep(w)
      PROVE  UNCHANGED <<incoming, wk, copies, accepted>>
  BY <1>7 DEF Next, ReceiveStep, UpPublish, UpPublishPlain, UpDeliver, StreamDies,
              Resubscribe, UpReplay, Receive, HandGivesUp, ReceiverExits, EntryLapses,
              Cleanup, StopCancel, StopStep, StopUpstream, StopClose, StopWait, StopTo,
              Stopped, vars, ghostVars
<1> QED BY <1>1, <1>2, <1>3, <1>4, <1>5, <1>6, <1>7 DEF WorkerStep

LEMMA NextPlainCounted ==
  ASSUME FlowTypes, WorkTypes, WorkTypes', ShutDown, PlainCounted, [Next]_vars
  PROVE  PlainCounted'
<1>0. /\ IsFiniteSet(PlainWorkers) /\ Cardinality(PlainWorkers) \in Nat
      /\ Cardinality(PlainAt(incoming)) \in Nat
      /\ copies[Plain] \in Nat /\ accepted[Plain] \in Nat
  <2>1. PlainWorkers \in SUBSET Workers
    BY DEF PlainWorkers
  <2>2. IsFiniteSet(PlainWorkers) /\ Cardinality(PlainWorkers) \in Nat
    BY <2>1, RelayAssumption, FS_Subset, FS_CardinalityType
  <2>3. incoming \in Seq(Ids) /\ copies \in [Ids -> Nat] /\ accepted \in [Ids -> Nat]
    BY DEF FlowTypes, WorkTypes
  <2> QED BY <2>2, <2>3, IdFacts, PlainAtFinite
<1>1. CASE Hand
  <2>1. /\ incoming' = Append(incoming, rcv.msg) /\ rcv.msg \in Ids
        /\ accepted' = [accepted EXCEPT ![rcv.msg] = @ + 1]
        /\ UNCHANGED <<wk, copies>> /\ incoming \in Seq(Ids) /\ accepted \in [Ids -> Nat]
    BY <1>1 DEF Hand, ShutDown, FlowTypes
  <2>2. PlainWorkers' = PlainWorkers
    BY <2>1 DEF PlainWorkers
  <2>3. Cardinality(PlainAt(incoming')) =
          Cardinality(PlainAt(incoming)) + IF rcv.msg = Plain THEN 1 ELSE 0
    BY <2>1, PlainAtAppend
  <2>4. accepted'[Plain] = accepted[Plain] + IF rcv.msg = Plain THEN 1 ELSE 0
    BY <1>0, <2>1, IdFacts
  <2>5. Cardinality(PlainAt(incoming')) \in Nat
    BY <2>1, AppendProperties, PlainAtFinite
  <2>6. CASE rcv.msg = Plain
    BY <1>0, <2>1, <2>2, <2>3, <2>4, <2>5, <2>6 DEF PlainCounted
  <2>7. CASE rcv.msg # Plain
    BY <1>0, <2>1, <2>2, <2>3, <2>4, <2>5, <2>7 DEF PlainCounted
  <2> QED BY <2>6, <2>7
<1>2. ASSUME NEW w \in Workers, Take(w) PROVE PlainCounted'
  <2>1. /\ incoming \in Seq(Ids) /\ incoming # <<>> /\ incoming' = Tail(incoming)
        /\ UNCHANGED <<accepted, copies>>
    BY <1>2 DEF Take, FlowTypes, ghostVars
  <2>2. /\ Cardinality(PlainAt(incoming)) =
             Cardinality(PlainAt(incoming')) + IF Head(incoming) = Plain THEN 1 ELSE 0
        /\ Head(incoming) \in Ids
    BY <2>1, PlainAtTail, HeadTailProperties
  <2>3. Cardinality(PlainAt(incoming')) \in Nat
    BY <2>1, HeadTailProperties, PlainAtFinite
  <2>4. /\ wk[w].pc = "take" /\ wk'[w].msg = Head(incoming)
        /\ wk'[w].pc = IF Head(incoming).offset = 0 THEN "publish" ELSE "look"
        /\ \A v \in Workers : v # w => wk'[v] = wk[v]
    BY <1>2 DEF Take, WorkTypes
  <2>5. w \notin PlainWorkers
    BY <2>4 DEF PlainWorkers
  <2>6. CASE Head(incoming) = Plain
    <3>1. PlainWorkers' = PlainWorkers \union {w}
      BY <2>4, <2>6, IdFacts DEF PlainWorkers
    <3>2. Cardinality(PlainWorkers') = Cardinality(PlainWorkers) + 1
      BY <1>0, <2>5, <3>1, FS_AddElement
    <3>3. Cardinality(PlainAt(incoming)) = Cardinality(PlainAt(incoming')) + 1
      BY <2>2, <2>6
    <3>4. accepted' = accepted /\ copies' = copies
      BY <2>1
    <3>5. accepted[Plain] = copies[Plain] + (Cardinality(PlainAt(incoming')) + 1)
                            + (Cardinality(PlainWorkers') - 1)
      BY <1>0, <3>2, <3>3 DEF PlainCounted
    <3>6. Cardinality(PlainWorkers') \in Nat
      BY <1>0, <3>2
    <3> QED BY <1>0, <2>3, <3>4, <3>5, <3>6 DEF PlainCounted
  <2>7. CASE Head(incoming) # Plain
    <3>1. PlainWorkers' = PlainWorkers
      BY <2>2, <2>4, <2>7, IdFacts DEF PlainWorkers
    <3> QED BY <1>0, <2>1, <2>2, <2>3, <2>7, <3>1 DEF PlainCounted
  <2> QED BY <2>6, <2>7
<1>3. ASSUME NEW w \in Workers, WorkerExits(w) \/ Look(w) \/ Insert(w) PROVE PlainCounted'
  <2>1. PlainWorkers' = PlainWorkers
    <3>1. wk[w].pc # "publish" /\ \A v \in Workers : v # w => wk'[v] = wk[v]
      BY <1>3 DEF WorkerExits, Look, Insert, Suppress, Proceed, WorkTypes
    <3>2. wk'[w].pc = "publish" => wk'[w].msg \in Numbered
      BY <1>3 DEF WorkerExits, Look, Insert, Suppress, Proceed, WorkTypes
    <3> QED BY <3>1, <3>2, IdFacts DEF PlainWorkers
  <2> QED BY <1>3, <2>1 DEF WorkerExits, Look, Insert, ghostVars, PlainCounted
<1>4. ASSUME NEW w \in Workers, Publish(w) PROVE PlainCounted'
  <2>1. /\ copies' = [copies EXCEPT ![wk[w].msg] = @ + 1] /\ wk[w].msg \in Ids
        /\ UNCHANGED <<incoming, accepted>> /\ copies \in [Ids -> Nat]
    BY <1>4 DEF Publish, WorkTypes, Busy
  <2>2. /\ wk[w].pc = "publish" /\ wk'[w].pc = "take"
        /\ \A v \in Workers : v # w => wk'[v] = wk[v]
    BY <1>4 DEF Publish, WorkTypes
  <2>3. PlainWorkers' = PlainWorkers \ {w}
    BY <2>2 DEF PlainWorkers
  <2>4. w \in PlainWorkers <=> wk[w].msg = Plain
    BY <2>2 DEF PlainWorkers
  <2>5. CASE wk[w].msg = Plain
    <3>1. Cardinality(PlainWorkers') = Cardinality(PlainWorkers) - 1
      BY <1>0, <2>3, <2>4, <2>5, FS_RemoveElement
    <3>2. copies'[Plain] = copies[Plain] + 1
      BY <2>1, <2>5
    <3> QED BY <1>0, <2>1, <3>1, <3>2 DEF PlainCounted
  <2>6. CASE wk[w].msg # Plain
    <3>1. PlainWorkers' = PlainWorkers
      BY <2>3, <2>4, <2>6
    <3>2. copies'[Plain] = copies[Plain]
      BY <2>1, <2>6
    <3> QED BY <2>1, <3>1, <3>2 DEF PlainCounted
  <2> QED BY <2>5, <2>6
<1>5. CASE UNCHANGED <<incoming, wk, copies, accepted>>
  BY <1>5 DEF PlainCounted, PlainWorkers
<1>6. ASSUME ~Hand, \A w \in Workers : ~WorkerStep(w)
      PROVE  UNCHANGED <<incoming, wk, copies, accepted>>
  BY <1>6 DEF Next, ReceiveStep, UpPublish, UpPublishPlain, UpDeliver, StreamDies,
              Resubscribe, UpReplay, Receive, HandGivesUp, ReceiverExits, EntryLapses,
              Cleanup, StopCancel, StopStep, StopUpstream, StopClose, StopWait, StopTo,
              Stopped, vars, ghostVars
<1> QED BY <1>1, <1>2, <1>3, <1>4, <1>5, <1>6 DEF WorkerStep

-----------------------------------------------------------------------------
\* The whole invariant.

LEMMA InitIInv == Init => IInv
<1> SUFFICES ASSUME Init PROVE IInv
  OBVIOUS
<1>1. Types
  BY InitTypes
<1>2. Deduplicated /\ SuppressedWasPublished
  BY IdFacts DEF Init, Deduplicated, SeenOnce, Publishing, SuppressedWasPublished
<1>3. ShutDown
  BY DEF Init, ShutDown
<1>4. Conserved
  BY IdFacts DEF Init, Conserved
<1>5. PlainCounted
  <2>1. PlainWorkers = {} /\ incoming = <<>> /\ accepted[Plain] = 0 /\ copies[Plain] = 0
    BY IdFacts DEF Init, PlainWorkers
  <2>2. PlainAt(<<>>) = {}
    BY DEF PlainAt
  <2>3. Cardinality(PlainAt(incoming)) = 0 /\ Cardinality(PlainWorkers) = 0
    BY <2>1, <2>2, FS_EmptySet
  <2> QED BY <2>1, <2>3 DEF PlainCounted
<1> QED BY <1>1, <1>2, <1>3, <1>4, <1>5 DEF IInv

LEMMA NextIInv == IInv /\ [Next]_vars => IInv'
<1> SUFFICES ASSUME IInv, [Next]_vars PROVE IInv'
  OBVIOUS
<1>1. Types'
  BY NextUpTypes, NextFlowTypes, NextWorkTypes DEF IInv, Types
<1>2. Deduplicated' /\ SuppressedWasPublished'
  BY <1>1, NextDeduplicated DEF IInv, Types
<1>3. ShutDown'
  BY NextShutDown DEF IInv, Types
<1>4. Conserved'
  BY NextConserved DEF IInv, Types
<1>5. PlainCounted'
  BY <1>1, NextPlainCounted DEF IInv, Types
<1> QED BY <1>1, <1>2, <1>3, <1>4, <1>5 DEF IInv

LEMMA Invariance == Spec => []IInv
BY InitIInv, NextIInv, PTL DEF Spec

\* dedup.go:17-19: however many workers check the copies of a replay at once,
\* an identity is published a second time only after its entry lapsed.
THEOREM OncePerTtlHolds == Spec => []OncePerTtl
<1>1. IInv => OncePerTtl
  <2> SUFFICES ASSUME IInv, NEW i \in Numbered, copies[i] > 1 PROVE i \in lapsed
    BY DEF OncePerTtl
  <2>1. copies[i] \in Nat
    BY IdFacts DEF IInv, Types, WorkTypes
  <2> QED BY <2>1 DEF IInv, Deduplicated, SeenOnce
<1> QED BY <1>1, Invariance, PTL

\* dedup.go:17: a suppressed delivery has its publication, made or under way.
THEOREM SuppressedWasPublishedHolds == Spec => []SuppressedWasPublished
<1>1. IInv => SuppressedWasPublished
  BY DEF IInv
<1> QED BY <1>1, Invariance, PTL

\* relay.go:284-296: Stop sends nothing on the closed channel, and when it
\* returns everything the receiver buffered was published, the messages
\* without an offset as often as they came.
THEOREM StopDrainsHolds == Spec => []StopDrains
<1>1. IInv => StopDrains
  <2> SUFFICES ASSUME IInv, stop = "returned"
               PROVE  /\ \A i \in Numbered : accepted[i] > 0 => copies[i] > 0
                      /\ copies[Plain] = accepted[Plain]
    BY DEF StopDrains, IInv, ShutDown
  <2>1. \A w \in Workers : wk[w].pc = "exited"
    BY DEF IInv, ShutDown
  <2>2. incoming = <<>>
    BY <2>1, RelayAssumption DEF IInv, ShutDown
  <2>3. Len(incoming) = 0 /\ PlainAt(incoming) = {}
    BY <2>2 DEF PlainAt
  <2>4. \A i \in Numbered : accepted[i] > 0 => copies[i] > 0
    BY <2>1, <2>3 DEF IInv, Conserved, Kept, Busy
  <2>5. PlainWorkers = {}
    BY <2>1 DEF PlainWorkers
  <2>6. copies[Plain] \in Nat
    BY IdFacts DEF IInv, Types, WorkTypes
  <2> QED BY <2>3, <2>4, <2>5, <2>6, FS_EmptySet DEF IInv, PlainCounted
<1> QED BY <1>1, Invariance, PTL
=============================================================================
