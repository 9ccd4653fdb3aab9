------------------------------ MODULE RelayData ------------------------------
(***************************************************************************)
(* The data plane of a relay (src/internal/relay): the upstream's          *)
(* deliveries of one channel travel over a stream that fails and is        *)
(* replaced, are received by receiveLoop, buffered in incomingCh, taken by *)
(* the fan-out workers, suppressed by the Deduplicator when a replay       *)
(* repeats them, and published to the local engine; and Server.Stop takes  *)
(* all of this down.                                                       *)
(*                                                                         *)
(* A publication is named by its epoch and offset, Plain stands for every  *)
(* publication of a channel without history (offset 0).  An epoch is one   *)
(* life of the upstream.  The module keeps the channel subscribed and      *)
(* leaves the handshake of a new stream to module Upstream.  The upstream  *)
(* end is a gentis server: a subscribe takes effect before its replay is   *)
(* read, so live deliveries may overtake the replay and repeat it, and a   *)
(* full send buffer drops a delivery.                                      *)
(***************************************************************************)
EXTENDS Integers, Sequences, FiniteSets, SequencesExt

CONSTANTS
  Workers,      \* FanoutWorkers
  IncomingCap,  \* IncomingBufferSize
  HistCap,      \* the upstream's history capacity
  MaxEpoch,     \* bound: lives of the upstream
  MaxPublish,   \* bound: publications
  MaxOutages,   \* bound: streams that fail
  MaxLapses     \* bound: entries that outlive the TTL

ASSUME RelayAssumption ==
  /\ IsFiniteSet(Workers) /\ Workers # {}
  /\ IncomingCap \in Nat \ {0} /\ HistCap \in Nat \ {0} /\ MaxEpoch \in Nat \ {0}
  /\ MaxPublish \in Nat /\ MaxOutages \in Nat /\ MaxLapses \in Nat

Id(e, o)  == [epoch |-> e, offset |-> o]
Plain     == Id(0, 0)
Numbered  == [epoch : 1 .. MaxEpoch, offset : 1 .. MaxPublish]
Ids       == Numbered \union {Plain}
NoMsg     == Id(0, -1)
NoPoint   == Id(0, 0)

VARIABLES
  serial,    \* does the upstream's publisher wait for each of its publishes?
  up,        \* the upstream's life and the last offset of the channel in it
  budget,    \* publications to come
  fanning,   \* publications on their way to the relay's session there
  link,      \* "up", "down", or "replay": subscribed, replay not read yet
  resume,    \* the last subscribe: its recover point, the one held, the offset met
  wire,      \* what the stream still delivers
  outages,
  lastSeen,  \* u.lastSeen of the channel
  rcv,       \* receiveLoop
  incoming,  \* incomingCh, and whether it is closed
  closed,
  wk,        \* the fan-out workers
  entry,     \* the Deduplicator's entries: "none", "fresh", "stale"
  stop,      \* how far Server.Stop got
  copies,    \* ghost: local publications of each identity
  accepted,  \* ghost: how often each identity entered incomingCh
  dropped,   \* ghost: identities the upstream's full buffer dropped
  excused,   \* ghost: identities no replay could serve
  lapsed,    \* ghost: identities whose entry expired
  muted,     \* ghost: identities suppressed as duplicates
  panicked   \* ghost: was a message sent on the closed channel?

upVars    == <<serial, up, budget, fanning, link, resume, outages>>
stopVars  == <<closed, stop>>
ghostVars == <<copies, accepted, dropped, excused, lapsed, muted, panicked>>
vars == <<serial, up, budget, fanning, link, resume, wire, outages, lastSeen, rcv,
          incoming, closed, wk, entry, stop, copies, accepted, dropped, excused,
          lapsed, muted, panicked>>

\* Server.Start: the first stream is up, the channel subscribed, the workers
\* run.
Init ==
  /\ serial \in BOOLEAN
  /\ up = Id(1, 0) /\ budget = MaxPublish /\ fanning = {} /\ link = "up"
  /\ resume = [point |-> NoPoint, held |-> NoPoint, met |-> 0]
  /\ wire = <<>> /\ outages = 0
  /\ lastSeen = NoPoint
  /\ rcv = [pc |-> "recv", msg |-> NoMsg]
  /\ incoming = <<>> /\ closed = FALSE
  /\ wk = [w \in Workers |-> [pc |-> "take", msg |-> NoMsg]]
  /\ entry = [i \in Numbered |-> "none"]
  /\ stop = "run"
  /\ copies = [i \in Ids |-> 0] /\ accepted = [i \in Ids |-> 0]
  /\ dropped = {} /\ excused = {} /\ lapsed = {} /\ muted = {}
  /\ panicked = FALSE

-----------------------------------------------------------------------------
\* The upstream and the stream.

\* Until upstream.Stop closes the connection.
ConnOpen == stop \in {"run", "cancelled"}

\* A publish takes its offset and finds the relay subscribed or not.
UpPublish ==
  /\ ConnOpen
  /\ budget > 0
  /\ budget' = budget - 1
  /\ serial => fanning = {}
  /\ up' = [up EXCEPT !.offset = @ + 1]
  /\ fanning' = IF link = "down" THEN fanning ELSE fanning \union {up'}
  /\ UNCHANGED <<serial, link, resume, wire, outages, lastSeen, rcv,
                 incoming, stopVars, wk, entry, ghostVars>>

UpPublishPlain ==
  /\ budget > 0
  /\ link # "down"
  /\ budget' = budget - 1
  /\ wire' = Append(wire, Plain)
  /\ UNCHANGED <<serial, up, fanning, link, resume, outages, lastSeen, rcv,
                 incoming, stopVars, wk, entry, ghostVars>>

\* The fan-out reaches the relay's session, whose buffer may be full.
UpDeliver ==
  \E i \in fanning :
    /\ fanning' = fanning \ {i}
    /\ \/ wire' = Append(wire, i) /\ UNCHANGED dropped
       \/ dropped' = dropped \union {i} /\ UNCHANGED wire
    /\ UNCHANGED <<serial, up, budget, link, resume, outages, lastSeen, rcv, incoming,
                   stopVars, wk, entry, copies, accepted, excused, lapsed, muted, panicked>>

\* The stream fails: a part of what it carried still arrives.  The upstream
\* may have restarted, which begins a new epoch without history.
StreamDies ==
  /\ link # "down"
  /\ outages < MaxOutages
  /\ outages' = outages + 1
  /\ link' = "down"
  /\ fanning' = {}
  /\ \E n \in 0 .. Len(wire) : wire' = SubSeq(wire, 1, n)
  /\ \/ UNCHANGED <<up, excused>>
     \/ /\ up.epoch < MaxEpoch
        /\ up' = Id(up.epoch + 1, 0)
        /\ excused' = excused \union { i \in Numbered : i.epoch = up.epoch }
  /\ UNCHANGED <<serial, budget, resume, lastSeen, rcv, incoming, stopVars, wk,
                 entry, copies, accepted, dropped, lapsed, muted, panicked>>

\* A sweep that subscribes without the recover point.
ResubscribePlain ==
  /\ link = "down" /\ ConnOpen
  /\ link' = "replay"
  /\ resume' = [point |-> NoPoint, held |-> lastSeen, met |-> up.offset]
  /\ UNCHANGED <<serial, up, budget, fanning, wire, outages, lastSeen, rcv,
                 incoming, stopVars, wk, entry, ghostVars>>

\* establishStream: a new stream, and the channel subscribed again from its
\* recover point.
Resubscribe ==
  /\ link = "down" /\ ConnOpen
  /\ link' = "replay"
  /\ resume' = [point |-> lastSeen, held |-> lastSeen, met |-> up.offset]
  /\ UNCHANGED <<serial, up, budget, fanning, wire, outages, lastSeen, rcv,
                 incoming, stopVars, wk, entry, ghostVars>>

\* The publications between a recover point and now, and whether history
\* still has them.
After(point) == { Id(up.epoch, o) : o \in (point.offset + 1) .. up.offset }
Recoverable(point) ==
  /\ point.epoch = up.epoch
  /\ point.offset + 1 > up.offset - HistCap

\* The replay is read and sent in order, each delivery into a buffer that may
\* be full.
\* Without one, what was published before the subscribe does not come.
UpReplay ==
  /\ link = "replay"
  /\ link' = "up"
  /\ IF Recoverable(resume.point)
     THEN \E n \in 0 .. HistCap : \E kept \in [1 .. n -> After(resume.point)] :
            /\ \A j, k \in 1 .. n : j < k => kept[j].offset < kept[k].offset
            /\ wire' = wire \o kept
            /\ dropped' = dropped \union (After(resume.point) \ ToSet(kept))
     ELSE UNCHANGED <<wire, dropped>>
  /\ excused' = IF Recoverable(resume.held) THEN excused
                ELSE excused \union { Id(up.epoch, o) : o \in 1 .. resume.met }
  /\ UNCHANGED <<serial, up, budget, fanning, resume, outages, lastSeen, rcv, incoming,
                 stopVars, wk, entry, copies, accepted, lapsed, muted, panicked>>

-----------------------------------------------------------------------------
\* receiveLoop, handleMessage and enqueueUpstreamMessage.

\* stream.Recv and the recover point: the last delivery that arrived.
Receive ==
  /\ rcv.pc = "recv"
  /\ wire # <<>>
  /\ wire' = Tail(wire)
  /\ lastSeen' = IF Head(wire).offset # 0 THEN Head(wire) ELSE lastSeen
  /\ rcv' = [pc |-> "hand", msg |-> Head(wire)]
  /\ UNCHANGED <<upVars, incoming, stopVars, wk, entry, ghostVars>>

\* The handler's select: room in incomingCh, which is a panic once closed,
Hand ==
  /\ rcv.pc = "hand"
  /\ closed \/ Len(incoming) < IncomingCap
  /\ rcv' = [pc |-> "recv", msg |-> NoMsg]
  /\ IF closed
     THEN panicked' = TRUE /\ UNCHANGED <<incoming, accepted>>
     ELSE /\ incoming' = Append(incoming, rcv.msg)
          /\ accepted' = [accepted EXCEPT ![rcv.msg] = @ + 1]
          /\ UNCHANGED panicked
  /\ UNCHANGED <<upVars, wire, lastSeen, stopVars, wk, entry,
                 copies, dropped, excused, lapsed, muted>>

\* ... or a cancelled server.
HandGivesUp ==
  /\ rcv.pc = "hand"
  /\ stop # "run"
  /\ rcv' = [pc |-> "recv", msg |-> NoMsg]
  /\ UNCHANGED <<upVars, wire, lastSeen, incoming, stopVars, wk, entry, ghostVars>>

\* A cancelled upstream ends the loop between two messages.
ReceiverExits ==
  /\ rcv.pc = "recv"
  /\ stop = "upstream"
  /\ rcv' = [pc |-> "exited", msg |-> NoMsg]
  /\ UNCHANGED <<upVars, wire, lastSeen, incoming, stopVars, wk, entry, ghostVars>>

-----------------------------------------------------------------------------
\* fanoutWorker and onUpstreamMessage.

\* A publication without an offset is not deduplicated.
Take(w) ==
  /\ wk[w].pc = "take"
  /\ incoming # <<>>
  /\ incoming' = Tail(incoming)
  /\ wk' = [wk EXCEPT ![w] = [pc |-> IF Head(incoming).offset = 0 THEN "publish" ELSE "look",
                              msg |-> Head(incoming)]]
  /\ UNCHANGED <<upVars, wire, lastSeen, rcv, stopVars, entry, ghostVars>>

\* The range over incomingCh ends when it is closed and drained.
WorkerExits(w) ==
  /\ wk[w].pc = "take"
  /\ closed /\ incoming = <<>>
  /\ wk' = [wk EXCEPT ![w].pc = "exited"]
  /\ UNCHANGED <<upVars, wire, lastSeen, rcv, incoming, stopVars, entry, ghostVars>>

\* createKey, which forgets the epoch.
KeyWithoutEpoch(i) == Id(1, i.offset)

\* createKey: the channel, the epoch and the offset name the entry.
Key(i) == i

\* Check's outcomes for the worker: the message is dropped as a duplicate,
Suppress(w) ==
  /\ wk' = [wk EXCEPT ![w] = [pc |-> "take", msg |-> NoMsg]]
  /\ muted' = muted \union {wk[w].msg}

\* ... or goes on.
Proceed(w, pc) == wk' = [wk EXCEPT ![w].pc = pc] /\ UNCHANGED muted

\* Deduplicator.Check under the read lock: a fresh entry is a duplicate.
Look(w) ==
  /\ wk[w].pc = "look"
  /\ IF entry[Key(wk[w].msg)] = "fresh" THEN Suppress(w) ELSE Proceed(w, "insert")
  /\ UNCHANGED <<upVars, wire, lastSeen, rcv, incoming, stopVars, entry,
                 copies, accepted, dropped, excused, lapsed, panicked>>

\* The write-locked half without the second look.
InsertBlind(w) ==
  /\ wk[w].pc = "insert"
  /\ Proceed(w, "publish")
  /\ entry' = [entry EXCEPT ![Key(wk[w].msg)] = "fresh"]
  /\ UNCHANGED <<upVars, wire, lastSeen, rcv, incoming, stopVars,
                 copies, accepted, dropped, excused, lapsed, panicked>>

\* Check under the write lock: looked up again, then inserted or renewed.
Insert(w) ==
  /\ wk[w].pc = "insert"
  /\ IF entry[Key(wk[w].msg)] = "fresh" THEN Suppress(w) ELSE Proceed(w, "publish")
  /\ entry' = [entry EXCEPT ![Key(wk[w].msg)] = "fresh"]
  /\ UNCHANGED <<upVars, wire, lastSeen, rcv, incoming, stopVars,
                 copies, accepted, dropped, excused, lapsed, panicked>>

\* engine.Publish to the local subscribers.
Publish(w) ==
  /\ wk[w].pc = "publish"
  /\ copies' = [copies EXCEPT ![wk[w].msg] = @ + 1]
  /\ wk' = [wk EXCEPT ![w] = [pc |-> "take", msg |-> NoMsg]]
  /\ UNCHANGED <<upVars, wire, lastSeen, rcv, incoming, stopVars, entry,
                 accepted, dropped, excused, lapsed, muted, panicked>>

\* The TTL of an entry passes,
EntryLapses ==
  \E i \in Numbered :
    /\ entry[i] = "fresh"
    /\ Cardinality(lapsed) < MaxLapses
    /\ entry' = [entry EXCEPT ![i] = "stale"]
    /\ lapsed' = lapsed \union {i}
    /\ UNCHANGED <<upVars, wire, lastSeen, rcv, incoming, stopVars, wk,
                   copies, accepted, dropped, excused, muted, panicked>>

\* ... and cleanup deletes those that are twice as old.
Cleanup ==
  /\ stop \notin {"drain", "returned"}
  /\ \E old \in SUBSET { i \in Numbered : entry[i] = "stale" } :
       /\ old # {}
       /\ entry' = [i \in Numbered |-> IF i \in old THEN "none" ELSE entry[i]]
  /\ UNCHANGED <<upVars, wire, lastSeen, rcv, incoming, stopVars, wk, ghostVars>>

-----------------------------------------------------------------------------
\* Server.Stop: cancel, and the local streams end (module Sessions).

StopTo(phase) ==
  /\ stop' = phase
  /\ UNCHANGED <<upVars, wire, lastSeen, rcv, incoming, wk, entry, ghostVars>>

StopCancel == stop = "run" /\ StopTo("cancelled") /\ UNCHANGED closed

\* upstream.Stop cancels the loops and closes the connection,
StopUpstream ==
  /\ stop = "cancelled"
  /\ stop' = "upstream"
  /\ link' = "down" /\ wire' = <<>> /\ fanning' = {}
  /\ UNCHANGED <<serial, up, budget, resume, outages, lastSeen, rcv, incoming, closed,
                 wk, entry, ghostVars>>

\* A close that does not wait for the loops.
StopCloseEarly ==
  /\ stop = "upstream"
  /\ closed' = TRUE
  /\ StopTo("drain")

\* ... and waits for them; incomingCh is closed,
StopClose ==
  /\ stop = "upstream"
  /\ rcv.pc = "exited"
  /\ closed' = TRUE
  /\ StopTo("drain")

\* ... and the workers are waited for.
StopWait ==
  /\ stop = "drain"
  /\ \A w \in Workers : wk[w].pc = "exited"
  /\ StopTo("returned")
  /\ UNCHANGED closed

Stopped == stop = "returned" /\ UNCHANGED vars

-----------------------------------------------------------------------------
ReceiveStep   == Receive \/ Hand \/ HandGivesUp \/ ReceiverExits
WorkerStep(w) == Take(w) \/ WorkerExits(w) \/ Look(w) \/ Insert(w) \/ Publish(w)
StopStep      == StopUpstream \/ StopClose \/ StopWait

Next ==
  \/ UpPublish \/ UpPublishPlain \/ UpDeliver \/ StreamDies \/ Resubscribe \/ UpReplay
  \/ ReceiveStep
  \/ \E w \in Workers : WorkerStep(w)
  \/ EntryLapses \/ Cleanup
  \/ StopCancel \/ StopStep \/ Stopped

\* Goroutines run, the upstream goes on with what it started and the relay's
\* reconnect reaches it again.  Nobody has to publish, fail or stop.
Fairness ==
  /\ WF_vars(UpDeliver) /\ WF_vars(UpReplay) /\ WF_vars(Resubscribe)
  /\ WF_vars(ReceiveStep)
  /\ \A w \in Workers : WF_vars(WorkerStep(w))
  /\ WF_vars(StopStep)

Spec     == Init /\ [][Next]_vars
FairSpec == Spec /\ Fairness

-----------------------------------------------------------------------------
\* Every variable keeps its type and the buffer its bound.
TypeOK ==
  /\ serial \in BOOLEAN /\ link \in {"up", "down", "replay"}
  /\ fanning \subseteq Numbered /\ ToSet(wire) \subseteq Ids
  /\ lastSeen \in Ids /\ rcv.pc \in {"recv", "hand", "exited"}
  /\ Len(incoming) <= IncomingCap /\ ToSet(incoming) \subseteq Ids
  /\ \A w \in Workers : wk[w].pc \in {"take", "look", "insert", "publish", "exited"}
  /\ entry \in [Numbered -> {"none", "fresh", "stale"}]
  /\ stop \in {"run", "cancelled", "upstream", "drain", "returned"}

\* "A reconnect replay that overlaps live traffic is dropped" (dedup.go:17-19):
\* an identity is published locally a second time only if its entry outlived
\* the TTL in between, whatever workers check the copies concurrently.
OncePerTtl == \A i \in Numbered : copies[i] > 1 => i \in lapsed

\* "The triple names exactly one publication" (dedup.go:17): what is suppressed
\* was published locally, or is about to be by the worker that inserted it.
SuppressedWasPublished ==
  \A i \in muted :
    copies[i] > 0 \/ \E w \in Workers : wk[w].pc = "publish" /\ wk[w].msg = i

\* Server.Stop drains (relay.go:284-296): nothing is sent on the closed
\* channel, and when Stop returns every message that entered the buffer was
\* published locally, the ones without an offset each time.
StopDrains ==
  /\ ~panicked
  /\ stop = "returned" =>
       /\ \A i \in Numbered : accepted[i] > 0 => copies[i] > 0
       /\ copies[Plain] = accepted[Plain]

\* A single outage loses nothing that history still has (upstream.go:253-261,
\* 341-347): as long as the upstream's publishes do not overlap and its buffer
\* has room, everything it publishes in this life reaches the local engine,
\* live or replayed.
OutageIsRecovered ==
  []<>( \/ ~serial \/ outages > 1 \/ stop # "run"
        \/ \A o \in 1 .. up.offset :
             copies[Id(up.epoch, o)] > 0 \/ Id(up.epoch, o) \in dropped \union excused )
=============================================================================
