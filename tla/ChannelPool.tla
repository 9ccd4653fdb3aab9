----------------------------- MODULE ChannelPool -----------------------------
(***************************************************************************)
(* Reuse of Channel objects through channelPool (src/internal/engine/      *)
(* channel.go): a shard's writer creates and drops the channel of a name   *)
(* under the shard lock, while publishers that looked the channel up hold  *)
(* it by reference count and without a lock.  Whoever lets go last, the    *)
(* writer in recycleChannel or a reader in Release, returns the object.    *)
(* Each action is one atomic operation of the code, or several that no     *)
(* other thread can tell apart.                                            *)
(*                                                                         *)
(* One name per shard is enough: names of one shard share its lock, and    *)
(* the objects are shared by all shards.                                   *)
(***************************************************************************)
EXTENDS Integers, FiniteSets

CONSTANTS
  Objs,      \* Channel objects
  Shards,    \* shards, each with one channel name and one writer at a time
  Readers,   \* goroutines inside Publish or RecoverN
  MaxGen,    \* bound: channels created
  NoObj

ASSUME PoolAssumption ==
  /\ IsFiniteSet(Objs) /\ IsFiniteSet(Readers) /\ NoObj \notin Objs
  /\ MaxGen \in Nat
  /\ Shards \intersect Readers = {}

Threads == Shards \union Readers

VARIABLES
  obj,      \* the fields of each Channel: gen, refs, recycled, pooled and
            \* owner, the number of the channel it stands for, 0 = cleared
  inPool,   \* how often each object sits in channelPool
  chan,     \* the shard maps: shard -> object, or NoObj
  th,       \* what each thread is doing, with which object and generation
  created,  \* number of channels created so far
  held,     \* ghost: reader -> channel it acquired, 0 when it holds none
  stale,    \* ghost: did a pooled CAS succeed under an old generation?
  early     \* ghost: did a Release find recycled set on a channel that was
            \* acquired again since its own decrement?

ghostVars == <<held, stale, early>>
vars == <<obj, inPool, chan, th, created, held, stale, early>>

Idle  == [pc |-> "idle", o |-> NoObj, g |-> 0]
Fresh == [gen |-> 0, refs |-> 0, recycled |-> FALSE, pooled |-> FALSE, owner |-> 0]

Init ==
  /\ obj = [o \in Objs |-> Fresh]
  /\ inPool = [o \in Objs |-> 0]
  /\ chan = [s \in Shards |-> NoObj]
  /\ th = [t \in Threads |-> Idle]
  /\ created = 0
  /\ held = [r \in Readers |-> 0]
  /\ stale = FALSE
  /\ early = FALSE

At(t, pc) == th[t].pc = pc

-----------------------------------------------------------------------------
\* The writer of a shard.  It holds the shard lock whenever it is not idle.

\* NewChannel: take an object out of the pool, or allocate one, and bump its
\* generation.
NewGet(s) ==
  /\ At(s, "idle")
  /\ chan[s] = NoObj
  /\ created < MaxGen
  /\ \E o \in Objs :
       /\ inPool[o] > 0 \/ obj[o].gen = 0
       /\ inPool' = [inPool EXCEPT ![o] = IF @ > 0 THEN @ - 1 ELSE 0]
       /\ obj' = [obj EXCEPT ![o].gen = @ + 1]
       /\ th' = [th EXCEPT ![s] = [pc |-> "init", o |-> o, g |-> 0]]
  /\ created' = created + 1
  /\ UNCHANGED <<chan, ghostVars>>

\* NewChannel: the identity and the counters; then createChannelLocked puts
\* the channel into the shard map.
NewInit(s) ==
  LET o == th[s].o
  IN  /\ At(s, "init")
      /\ obj' = [obj EXCEPT ![o] = [gen |-> @.gen, refs |-> 0, recycled |-> FALSE,
                                    pooled |-> FALSE, owner |-> created]]
      /\ chan' = [chan EXCEPT ![s] = o]
      /\ th' = [th EXCEPT ![s] = Idle]
      /\ UNCHANGED <<inPool, created, ghostVars>>

\* The last subscriber leaves or a sweeper reaps: the channel is deleted from
\* the map and recycleChannel reads its generation.
RecycleStart(s) ==
  /\ At(s, "idle")
  /\ chan[s] # NoObj
  /\ chan' = [chan EXCEPT ![s] = NoObj]
  /\ th' = [th EXCEPT ![s] = [pc |-> "mark", o |-> chan[s], g |-> obj[chan[s]].gen]]
  /\ UNCHANGED <<obj, inPool, created, ghostVars>>

\* The references are read before the channel is marked.
RecycleMarkLate(s) ==
  /\ At(s, "mark")
  /\ th' = [th EXCEPT ![s] = IF obj[th[s].o].refs = 0 THEN [@ EXCEPT !.pc = "check"] ELSE Idle]
  /\ UNCHANGED <<obj, inPool, chan, created, ghostVars>>

\* recycleChannel: recycled.Store(true).
RecycleMark(s) ==
  /\ At(s, "mark")
  /\ obj' = [obj EXCEPT ![th[s].o].recycled = TRUE]
  /\ th' = [th EXCEPT ![s].pc = "refs"]
  /\ UNCHANGED <<inPool, chan, created, ghostVars>>

\* The writer pools the channel whether or not it is held.
RecycleRefsIgnored(s) ==
  /\ At(s, "refs")
  /\ th' = [th EXCEPT ![s].pc = "check"]
  /\ UNCHANGED <<obj, inPool, chan, created, ghostVars>>

\* recycleChannel: with no reader left it pools the channel itself.
RecycleRefs(s) ==
  /\ At(s, "refs")
  /\ th' = [th EXCEPT ![s] = IF obj[th[s].o].refs = 0 THEN [@ EXCEPT !.pc = "check"] ELSE Idle]
  /\ UNCHANGED <<obj, inPool, chan, created, ghostVars>>

-----------------------------------------------------------------------------
\* Readers: Acquire under the shard's read lock, Release without one.

Acquire(r, s) ==
  /\ At(r, "idle")
  /\ At(s, "idle")
  /\ chan[s] # NoObj
  /\ obj' = [obj EXCEPT ![chan[s]].refs = @ + 1]
  /\ th' = [th EXCEPT ![r] = [pc |-> "hold", o |-> chan[s], g |-> 0]]
  /\ held' = [held EXCEPT ![r] = obj[chan[s]].owner]
  /\ UNCHANGED <<inPool, chan, created, stale, early>>

\* Release: the generation is loaded while the reference is still held.
ReleaseGen(r) ==
  /\ At(r, "hold")
  /\ th' = [th EXCEPT ![r].pc = "decrement", ![r].g = obj[th[r].o].gen]
  /\ UNCHANGED <<obj, inPool, chan, created, ghostVars>>

\* Release: refs.Add(-1), which ends the reader's use of the channel.
ReleaseRef(r) ==
  LET o == th[r].o
  IN  /\ At(r, "decrement")
      /\ obj' = [obj EXCEPT ![o].refs = @ - 1]
      /\ th' = [th EXCEPT ![r] = IF obj[o].refs = 1 THEN [@ EXCEPT !.pc = "recycled"] ELSE Idle]
      /\ held' = [held EXCEPT ![r] = 0]
      /\ UNCHANGED <<inPool, chan, created, stale, early>>

\* The ghost of a Release that loads recycled: somebody may have acquired the
\* channel, and its writer dropped it, since the decrement.
Reacquired(o) == early' = (early \/ (obj[o].recycled /\ obj[o].refs > 0))

\* The generation is loaded after the decrement.
ReleaseRecycledFreshGen(r) ==
  /\ At(r, "recycled")
  /\ th' = [th EXCEPT ![r] =
       IF obj[th[r].o].recycled
       THEN [@ EXCEPT !.pc = "check", !.g = obj[th[r].o].gen]
       ELSE Idle]
  /\ Reacquired(th[r].o)
  /\ UNCHANGED <<obj, inPool, chan, created, held, stale>>

\* Release: was the channel dropped while it was held?
ReleaseRecycled(r) ==
  /\ At(r, "recycled")
  /\ th' = [th EXCEPT ![r] = IF obj[th[r].o].recycled THEN [@ EXCEPT !.pc = "check"] ELSE Idle]
  /\ Reacquired(th[r].o)
  /\ UNCHANGED <<obj, inPool, chan, created, held, stale>>

-----------------------------------------------------------------------------
\* returnToPool, run by a writer or by a reader.

\* The generation guard.
ReturnCheck(t) ==
  /\ At(t, "check")
  /\ th' = [th EXCEPT ![t] = IF obj[th[t].o].gen = th[t].g THEN [@ EXCEPT !.pc = "cas"] ELSE Idle]
  /\ UNCHANGED <<obj, inPool, chan, created, ghostVars>>

\* pooled.CompareAndSwap(false, true): the winner owns the object.
ReturnCAS(t) ==
  LET o == th[t].o
  IN  /\ At(t, "cas")
      /\ IF obj[o].pooled
         THEN th' = [th EXCEPT ![t] = Idle] /\ UNCHANGED <<obj, stale>>
         ELSE /\ obj' = [obj EXCEPT ![o].pooled = TRUE]
              /\ th' = [th EXCEPT ![t].pc = "clear"]
              /\ stale' = (stale \/ obj[o].gen # th[t].g)
      /\ UNCHANGED <<inPool, chan, created, held, early>>

\* The fields are cleared and the object goes back to the pool.
ReturnClear(t) ==
  LET o == th[t].o
  IN  /\ At(t, "clear")
      /\ obj' = [obj EXCEPT ![o].owner = 0]
      /\ inPool' = [inPool EXCEPT ![o] = @ + 1]
      /\ th' = [th EXCEPT ![t] = Idle]
      /\ UNCHANGED <<chan, created, ghostVars>>

-----------------------------------------------------------------------------
WriterStep(s) == NewInit(s) \/ RecycleMark(s) \/ RecycleRefs(s)
ReaderStep(r) == ReleaseGen(r) \/ ReleaseRef(r) \/ ReleaseRecycled(r)
ReturnStep(t) == ReturnCheck(t) \/ ReturnCAS(t) \/ ReturnClear(t)

Next ==
  \/ \E s \in Shards : NewGet(s) \/ RecycleStart(s) \/ WriterStep(s)
  \/ \E r \in Readers, s \in Shards : Acquire(r, s)
  \/ \E r \in Readers : ReaderStep(r)
  \/ \E t \in Threads : ReturnStep(t)

Spec == Init /\ [][Next]_vars

-----------------------------------------------------------------------------
\* The two known windows in which the protocol fails (StaleReturnIsNoOp and
\* ReadersComplete below); the other properties hold outside them.
Known == stale \/ early

\* Objects, threads and shard maps have their types, and no reference is
\* given back that was not taken.
TypeOK ==
  /\ obj \in [Objs -> [gen : 0..MaxGen, refs : Int, recycled : BOOLEAN,
                       pooled : BOOLEAN, owner : 0..MaxGen]]
  /\ \A o \in Objs : Known \/ obj[o].refs >= 0
  /\ inPool \in [Objs -> Nat]
  /\ chan \in [Shards -> Objs \union {NoObj}]
  /\ created \in 0..MaxGen
  /\ held \in [Readers -> 0..MaxGen]
  /\ stale \in BOOLEAN /\ early \in BOOLEAN

\* "In-flight readers (who hold a ref via Acquire) can still read the
\* subscriber list and complete delivery" (channel.go:77-80): the object a
\* reader acquired is neither cleared nor reused before it gives the
\* reference back.
ReadersComplete == \A r \in Readers : held[r] # 0 => obj[th[r].o].owner = held[r]

\* The same, outside the two known windows: what recycleChannel and the last
\* Release do in any other order never clears a channel under its reader.
ReaderKeepsItsChannel == Known \/ ReadersComplete

\* A channel in a shard map is nobody else's: it is not in the pool, not
\* marked as pooled, still has its identity, and no other name maps to the
\* same object (channel.go:58-70, 95-99, 128-133), however late a Release or
\* a recycleChannel of an earlier life of the object finishes; and no object
\* is in the pool twice, where two channels would share it: "the pooled CAS
\* ensures exactly one goroutine clears and pools the channel"
\* (channel.go:79-80).
LiveChannelIsOwned ==
  \/ Known
  \/ /\ \A s \in Shards : chan[s] # NoObj =>
          /\ inPool[chan[s]] = 0
          /\ ~obj[chan[s]].pooled
          /\ obj[chan[s]].owner # 0
          /\ \A u \in Shards \ {s} : chan[u] # chan[s]
     /\ \A o \in Objs : inPool[o] <= 1

\* Recycle and Release never both decline: when nobody is in the middle of a
\* call, every object that left its shard map is back in the pool
\* (channel.go:86-93, 134-139).
NoLeak ==
  Known \/ ((\A t \in Threads : At(t, "idle")) =>
    \A o \in Objs : (obj[o].gen > 0 /\ \A s \in Shards : chan[s] # o) => inPool[o] >= 1)

\* "The stale generation will cause it to no-op instead of clearing a live
\* channel" (channel.go:82-85): the pooled CAS never succeeds for a thread
\* whose generation is not the object's.
StaleReturnIsNoOp == ~stale
=============================================================================
