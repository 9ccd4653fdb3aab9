------------------------- MODULE ChannelPoolProofs -------------------------
(***************************************************************************)
(* For every number of objects, shards and readers: outside the two known  *)
(* windows the reference count, the recycled mark, the generation and the  *)
(* pooled flag keep a channel with its readers and its shard, and none is  *)
(* leaked.                                                                 *)
(***************************************************************************)
EXTENDS ChannelPool, FiniteSetTheorems, TLAPS

-----------------------------------------------------------------------------
\* The inductive invariant.

Returning == {"check", "cas", "clear"}
Holding   == {"hold", "decrement"}
Aged      == {"decrement", "recycled", "mark", "refs"} \union Returning

ObjTypes ==
  /\ obj \in [Objs -> [gen : 0..MaxGen, refs : Int, recycled : BOOLEAN,
                       pooled : BOOLEAN, owner : 0..MaxGen]]
  /\ inPool \in [Objs -> Nat]
  /\ created \in 0..MaxGen /\ \A o \in Objs : obj[o].gen <= created

ThreadTypes ==
  /\ th \in [Threads -> [pc : Aged \union {"idle", "init", "hold"},
                         o : Objs \union {NoObj}, g : 0..MaxGen]]
  /\ \A t \in Threads : th[t].pc # "idle" => th[t].o \in Objs
  /\ \A s \in Shards : th[s].pc \in {"idle", "init", "mark", "refs"} \union Returning
  /\ \A r \in Readers : th[r].pc \in {"idle", "recycled"} \union Holding \union Returning
  /\ chan \in [Shards -> Objs \union {NoObj}]
  /\ held \in [Readers -> 0..MaxGen]
  /\ stale \in BOOLEAN /\ early \in BOOLEAN

Types == ObjTypes /\ ThreadTypes

NotLive(o) == \A s \in Shards : chan[s] # o
Holders(o) == { r \in Readers : th[r].pc \in Holding /\ th[r].o = o }

\* refs counts the readers between Acquire and the decrement.
RefsCounted == \A o \in Objs : obj[o].refs = Cardinality(Holders(o))

\* A channel in a shard map is untouched by any return.
LiveIntact(s) ==
  chan[s] # NoObj =>
    /\ th[s].pc = "idle"
    /\ inPool[chan[s]] = 0
    /\ ~obj[chan[s]].recycled /\ ~obj[chan[s]].pooled
    /\ obj[chan[s]].owner # 0 /\ obj[chan[s]].gen > 0
    /\ \A u \in Shards \ {s} : chan[u] # chan[s]

\* A new object is its writer's alone: what other threads know of it is old.
InitAlone(t) ==
  th[t].pc = "init" =>
    /\ inPool[th[t].o] = 0 /\ obj[th[t].o].refs = 0 /\ obj[th[t].o].gen > 0
    /\ NotLive(th[t].o)
    /\ \A u \in Threads \ {t} : th[u].o = th[t].o =>
         /\ th[u].pc \notin {"init", "mark", "clear"} \union Holding
         /\ th[u].pc \in Aged => th[u].g < obj[th[t].o].gen

\* A dropped channel is whole until it is marked.
MarkAlone(t) ==
  th[t].pc = "mark" =>
    /\ th[t].g = obj[th[t].o].gen /\ NotLive(th[t].o)
    /\ ~obj[th[t].o].recycled /\ ~obj[th[t].o].pooled /\ inPool[th[t].o] = 0
    /\ obj[th[t].o].owner # 0
    /\ \A u \in Threads \ {t} : th[u].o = th[t].o => th[u].pc \notin {"init", "mark"}

\* Who returns a channel of its own generation returns one that was dropped
\* and that nobody holds.
ReturnDropped(t) ==
  /\ th[t].pc \in Aged => 1 <= th[t].g /\ th[t].g <= obj[th[t].o].gen
  /\ (th[t].pc = "refs" /\ th[t].g = obj[th[t].o].gen) =>
       obj[th[t].o].recycled /\ NotLive(th[t].o)
  /\ (th[t].pc \in Returning /\ th[t].g = obj[th[t].o].gen) =>
       obj[th[t].o].recycled /\ NotLive(th[t].o) /\ obj[th[t].o].refs = 0

\* The winner of the pooled CAS is alone and current.
ClearAlone(t) ==
  th[t].pc = "clear" =>
    /\ th[t].g = obj[th[t].o].gen /\ obj[th[t].o].pooled /\ inPool[th[t].o] = 0
    /\ \A u \in Threads \ {t} : th[u].o = th[t].o => th[u].pc # "clear"

\* A reader that holds a channel holds the one it acquired.
HolderKeeps(r) ==
  /\ th[r].pc \in Holding =>
       /\ held[r] = obj[th[r].o].owner /\ obj[th[r].o].owner # 0
       /\ ~obj[th[r].o].pooled /\ inPool[th[r].o] = 0 /\ obj[th[r].o].gen > 0
  /\ th[r].pc = "decrement" => th[r].g = obj[th[r].o].gen
  /\ th[r].pc \notin Holding => held[r] = 0

\* The pool has each object once, cleared of everybody.
PooledOnce(o) ==
  /\ inPool[o] <= 1
  /\ inPool[o] = 1 =>
       /\ obj[o].pooled /\ obj[o].recycled /\ obj[o].gen > 0 /\ obj[o].refs = 0
       /\ NotLive(o)
  /\ obj[o].pooled =>
       inPool[o] = 1 \/ \E t \in Threads : th[t].o = o /\ th[t].pc \in {"init", "clear"}

\* Somebody will return what left its shard map.
Responsible(t) ==
  LET a == obj[th[t].o]
  IN  \/ th[t].pc \in {"init", "mark", "clear"}
      \/ th[t].pc \in {"refs", "check", "cas"} /\ th[t].g = a.gen
      \/ a.recycled /\ th[t].pc \in Holding
      \/ a.recycled /\ th[t].pc = "recycled" /\ th[t].g = a.gen

Cared(o) ==
  (obj[o].gen > 0 /\ NotLive(o) /\ inPool[o] = 0) =>
    \E t \in Threads : th[t].o = o /\ Responsible(t)

Inv ==
  /\ RefsCounted
  /\ \A s \in Shards : LiveIntact(s)
  /\ \A t \in Threads : InitAlone(t) /\ MarkAlone(t) /\ ReturnDropped(t) /\ ClearAlone(t)
  /\ \A r \in Readers : HolderKeeps(r)
  /\ \A o \in Objs : PooledOnce(o) /\ Cared(o)

IInv == Types /\ (Known \/ Inv)

-----------------------------------------------------------------------------
\* Types.

LEMMA InitTypes == Init => Types
<1> SUFFICES ASSUME Init PROVE Types
  OBVIOUS
<1>1. 0 \in 0..MaxGen
  BY PoolAssumption
<1>2. ObjTypes
  BY <1>1 DEF Init, Fresh, ObjTypes
<1>3. /\ chan \in [Shards -> Objs \union {NoObj}]
      /\ held \in [Readers -> 0..MaxGen]
      /\ stale \in BOOLEAN /\ early \in BOOLEAN
  BY <1>1 DEF Init
<1>4. th \in [Threads -> [pc : Aged \union {"idle", "init", "hold"},
                          o : Objs \union {NoObj}, g : 0..MaxGen]]
  BY <1>1 DEF Init, Idle
<1>5. \A t \in Threads : th[t].pc = "idle"
  BY DEF Init, Idle
<1> QED BY <1>2, <1>3, <1>4, <1>5 DEF Types, ThreadTypes, Threads

LEMMA NextObjTypes == Types /\ [Next]_vars => ObjTypes'
<1> SUFFICES ASSUME ObjTypes, ThreadTypes, [Next]_vars PROVE ObjTypes'
  BY DEF Types
<1>1. ASSUME NEW s \in Shards, NewGet(s) PROVE ObjTypes'
  BY <1>1, PoolAssumption DEF NewGet, ObjTypes
<1>2. ASSUME NEW s \in Shards, NewInit(s) PROVE ObjTypes'
  <2>1. PICK o \in Objs : o = th[s].o
    BY <1>2 DEF NewInit, At, ThreadTypes, Threads
  <2>2. obj' = [obj EXCEPT ![o] = [gen |-> obj[o].gen, refs |-> 0, recycled |-> FALSE,
                                   pooled |-> FALSE, owner |-> created]]
    BY <1>2, <2>1 DEF NewInit
  <2>3. obj[o].gen \in 0..MaxGen /\ created \in 0..MaxGen
    BY DEF ObjTypes
  <2>4. obj' \in [Objs -> [gen : 0..MaxGen, refs : Int, recycled : BOOLEAN,
                           pooled : BOOLEAN, owner : 0..MaxGen]]
    BY <2>2, <2>3 DEF ObjTypes
  <2>5. \A p \in Objs : obj'[p].gen = obj[p].gen
    BY <2>2 DEF ObjTypes
  <2> QED BY <1>2, <2>4, <2>5 DEF NewInit, ObjTypes
<1>3. ASSUME NEW s \in Shards, RecycleMark(s) PROVE ObjTypes'
  <2>1. PICK o \in Objs : o = th[s].o
    BY <1>3 DEF RecycleMark, At, ThreadTypes, Threads
  <2> QED BY <1>3, <2>1 DEF RecycleMark, ObjTypes
<1>4. ASSUME NEW r \in Readers, NEW s \in Shards, Acquire(r, s) PROVE ObjTypes'
  <2>1. PICK o \in Objs : o = chan[s]
    BY <1>4 DEF Acquire, ThreadTypes
  <2> QED BY <1>4, <2>1 DEF Acquire, ObjTypes
<1>5. ASSUME NEW r \in Readers, ReleaseRef(r) PROVE ObjTypes'
  <2>1. PICK o \in Objs : o = th[r].o
    BY <1>5 DEF ReleaseRef, At, ThreadTypes, Threads
  <2> QED BY <1>5, <2>1 DEF ReleaseRef, ObjTypes
<1>6. ASSUME NEW t \in Threads, ReturnCAS(t) PROVE ObjTypes'
  <2>1. PICK o \in Objs : o = th[t].o
    BY <1>6 DEF ReturnCAS, At, ThreadTypes
  <2>2. UNCHANGED <<inPool, created>>
    BY <1>6 DEF ReturnCAS
  <2>3. obj' = obj \/ obj' = [obj EXCEPT ![o].pooled = TRUE]
    BY <1>6, <2>1 DEF ReturnCAS
  <2>4. CASE obj' = obj
    BY <2>2, <2>4 DEF ObjTypes
  <2>5. CASE obj' = [obj EXCEPT ![o].pooled = TRUE]
    BY <2>2, <2>5 DEF ObjTypes
  <2> QED BY <2>3, <2>4, <2>5
<1>7. ASSUME NEW t \in Threads, ReturnClear(t) PROVE ObjTypes'
  <2>1. PICK o \in Objs : o = th[t].o
    BY <1>7 DEF ReturnClear, At, ThreadTypes
  <2>2. /\ obj' = [obj EXCEPT ![o].owner = 0]
        /\ inPool' = [inPool EXCEPT ![o] = @ + 1] /\ UNCHANGED created
    BY <1>7, <2>1 DEF ReturnClear
  <2> QED BY <2>1, <2>2, PoolAssumption DEF ObjTypes
<1>8. CASE UNCHANGED <<obj, inPool, created>>
  BY <1>8 DEF ObjTypes
<1>9. ASSUME NEW s \in Shards, RecycleStart(s) \/ RecycleRefs(s)
      PROVE  UNCHANGED <<obj, inPool, created>>
  BY <1>9 DEF RecycleStart, RecycleRefs
<1>10. ASSUME NEW r \in Readers, ReleaseGen(r) \/ ReleaseRecycled(r)
       PROVE  UNCHANGED <<obj, inPool, created>>
  BY <1>10 DEF ReleaseGen, ReleaseRecycled
<1>11. ASSUME NEW t \in Threads, ReturnCheck(t)
       PROVE  UNCHANGED <<obj, inPool, created>>
  BY <1>11 DEF ReturnCheck
<1>12. UNCHANGED vars => UNCHANGED <<obj, inPool, created>>
  BY DEF vars
<1> QED BY <1>1, <1>2, <1>3, <1>4, <1>5, <1>6, <1>7, <1>8, <1>9, <1>10, <1>11, <1>12
        DEF Next, WriterStep, ReaderStep, ReturnStep

\* What the thread of a step does to its own record.
LEMMA ThreadMoves ==
  ASSUME ThreadTypes, NEW t \in Threads, NEW rec,
         th' = [th EXCEPT ![t] = rec],
         rec \in [pc : Aged \union {"idle", "init", "hold"},
                  o : Objs \union {NoObj}, g : 0..MaxGen],
         rec.pc # "idle" => rec.o \in Objs,
         t \in Shards => rec.pc \in {"idle", "init", "mark", "refs"} \union Returning,
         t \in Readers => rec.pc \in {"idle", "recycled"} \union Holding \union Returning,
         chan' \in [Shards -> Objs \union {NoObj}], held' \in [Readers -> 0..MaxGen],
         stale' \in BOOLEAN, early' \in BOOLEAN
  PROVE  ThreadTypes'
BY DEF ThreadTypes, Threads

LEMMA NextThreadTypes == Types /\ [Next]_vars => ThreadTypes'
<1> SUFFICES ASSUME ObjTypes, ThreadTypes, [Next]_vars PROVE ThreadTypes'
  BY DEF Types
<1>a. \A o \in Objs : obj[o].gen \in 0..MaxGen /\ obj[o].owner \in 0..MaxGen
  BY DEF ObjTypes
<1>b. /\ chan \in [Shards -> Objs \union {NoObj}] /\ held \in [Readers -> 0..MaxGen]
      /\ stale \in BOOLEAN /\ early \in BOOLEAN /\ 0 \in 0..MaxGen
  BY PoolAssumption DEF ThreadTypes
<1>c. ASSUME NEW t \in Threads, th' = [th EXCEPT ![t] = Idle],
             chan' \in [Shards -> Objs \union {NoObj}], held' \in [Readers -> 0..MaxGen],
             stale' \in BOOLEAN, early' \in BOOLEAN
      PROVE  ThreadTypes'
  BY <1>b, <1>c, ThreadMoves DEF Idle
<1>d. ASSUME NEW t \in Threads, NEW pc \in Returning, th' = [th EXCEPT ![t].pc = pc],
             th[t].pc # "idle", UNCHANGED <<chan, held>>, stale' \in BOOLEAN, early' \in BOOLEAN
      PROVE  ThreadTypes'
  BY <1>b, <1>d DEF ThreadTypes, Threads, Aged
<1>1. ASSUME NEW s \in Shards, NewGet(s) PROVE ThreadTypes'
  <2>1. PICK o \in Objs : th' = [th EXCEPT ![s] = [pc |-> "init", o |-> o, g |-> 0]]
    BY <1>1 DEF NewGet
  <2> QED BY <1>1, <1>b, <2>1, ThreadMoves, PoolAssumption DEF NewGet, ghostVars, Threads
<1>2. ASSUME NEW s \in Shards, NewInit(s) PROVE ThreadTypes'
  <2>1. th[s].o \in Objs
    BY <1>2 DEF NewInit, At, ThreadTypes, Threads
  <2> QED BY <1>2, <1>b, <1>c, <2>1 DEF NewInit, ghostVars, Threads
<1>3. ASSUME NEW s \in Shards, RecycleStart(s) PROVE ThreadTypes'
  <2>1. PICK o \in Objs : o = chan[s]
    BY <1>3, <1>b DEF RecycleStart
  <2> DEFINE rec == [pc |-> "mark", o |-> o, g |-> obj[o].gen]
  <2>2. th' = [th EXCEPT ![s] = rec]
    BY <1>3, <2>1 DEF RecycleStart
  <2>3. /\ rec \in [pc : Aged \union {"idle", "init", "hold"},
                    o : Objs \union {NoObj}, g : 0..MaxGen]
        /\ rec.pc = "mark" /\ rec.o \in Objs
    BY <1>a DEF Aged
  <2> HIDE DEF rec
  <2> QED BY <1>3, <1>b, <2>2, <2>3, ThreadMoves, PoolAssumption
          DEF RecycleStart, ghostVars, Threads
<1>4. ASSUME NEW s \in Shards, RecycleMark(s) PROVE ThreadTypes'
  BY <1>4, PoolAssumption DEF RecycleMark, At, ThreadTypes, Threads, ghostVars, Aged
<1>5. ASSUME NEW s \in Shards, RecycleRefs(s) PROVE ThreadTypes'
  <2>1. th[s].pc = "refs" /\ UNCHANGED <<chan, held, stale, early>> /\ s \in Threads
    BY <1>5 DEF RecycleRefs, At, ghostVars, Threads
  <2>2. th' = [th EXCEPT ![s].pc = "check"] \/ th' = [th EXCEPT ![s] = Idle]
    BY <1>5 DEF RecycleRefs
  <2> QED BY <1>b, <1>c, <1>d, <2>1, <2>2 DEF Returning
<1>6. ASSUME NEW r \in Readers, NEW s \in Shards, Acquire(r, s) PROVE ThreadTypes'
  <2>1. PICK o \in Objs : o = chan[s]
    BY <1>6, <1>b DEF Acquire
  <2>2. th' = [th EXCEPT ![r] = [pc |-> "hold", o |-> o, g |-> 0]]
    BY <1>6, <2>1 DEF Acquire
  <2>3. held' \in [Readers -> 0..MaxGen]
    BY <1>6, <1>a, <1>b, <2>1 DEF Acquire
  <2> QED BY <1>6, <1>b, <2>2, <2>3, ThreadMoves, PoolAssumption DEF Acquire, Threads, Holding
<1>7. ASSUME NEW r \in Readers, ReleaseGen(r) PROVE ThreadTypes'
  <2>1. th[r].o \in Objs /\ r \in Threads
    BY <1>7 DEF ReleaseGen, At, ThreadTypes, Threads
  <2>2. obj[th[r].o].gen \in 0..MaxGen
    BY <1>a, <2>1
  <2> QED BY <1>7, <2>1, <2>2, PoolAssumption
          DEF ReleaseGen, At, ThreadTypes, Threads, ghostVars, Aged, Holding
<1>8. ASSUME NEW r \in Readers, ReleaseRef(r) PROVE ThreadTypes'
  <2>1. th[r].pc = "decrement" /\ held' \in [Readers -> 0..MaxGen] /\ r \in Threads
        /\ UNCHANGED <<chan, stale, early>>
    BY <1>8, <1>b DEF ReleaseRef, At, Threads
  <2>2. CASE th' = [th EXCEPT ![r].pc = "recycled"]
    BY <2>1, <2>2, PoolAssumption DEF ThreadTypes, Threads, Aged
  <2>3. th' = [th EXCEPT ![r].pc = "recycled"] \/ th' = [th EXCEPT ![r] = Idle]
    BY <1>8 DEF ReleaseRef
  <2> QED BY <1>b, <1>c, <2>1, <2>2, <2>3
<1>9. ASSUME NEW r \in Readers, ReleaseRecycled(r) PROVE ThreadTypes'
  <2>1. th[r].pc = "recycled" /\ UNCHANGED <<chan, held, stale>> /\ r \in Threads
    BY <1>9 DEF ReleaseRecycled, At, Threads
  <2>2. early' \in BOOLEAN
    BY <1>9 DEF ReleaseRecycled, Reacquired
  <2>3. th' = [th EXCEPT ![r].pc = "check"] \/ th' = [th EXCEPT ![r] = Idle]
    BY <1>9 DEF ReleaseRecycled
  <2> QED BY <1>b, <1>c, <1>d, <2>1, <2>2, <2>3 DEF Returning
<1>10. ASSUME NEW t \in Threads, ReturnCheck(t) PROVE ThreadTypes'
  <2>1. th[t].pc = "check" /\ UNCHANGED <<chan, held, stale, early>>
    BY <1>10 DEF ReturnCheck, At, ghostVars
  <2>2. th' = [th EXCEPT ![t].pc = "cas"] \/ th' = [th EXCEPT ![t] = Idle]
    BY <1>10 DEF ReturnCheck
  <2> QED BY <1>b, <1>c, <1>d, <2>1, <2>2 DEF Returning
<1>11. ASSUME NEW t \in Threads, ReturnCAS(t) PROVE ThreadTypes'
  <2>1. th[t].pc = "cas" /\ UNCHANGED <<chan, held, early>>
    BY <1>11 DEF ReturnCAS, At
  <2>2. stale' \in BOOLEAN
    BY <1>11, <1>b DEF ReturnCAS
  <2>3. th' = [th EXCEPT ![t].pc = "clear"] \/ th' = [th EXCEPT ![t] = Idle]
    BY <1>11 DEF ReturnCAS
  <2> QED BY <1>b, <1>c, <1>d, <2>1, <2>2, <2>3 DEF Returning
<1>12. ASSUME NEW t \in Threads, ReturnClear(t) PROVE ThreadTypes'
  BY <1>12, <1>b, <1>c DEF ReturnClear, ghostVars
<1>13. CASE UNCHANGED vars
  BY <1>13 DEF vars, ThreadTypes
<1> QED BY <1>1, <1>2, <1>3, <1>4, <1>5, <1>6, <1>7, <1>8, <1>9, <1>10, <1>11, <1>12,
           <1>13 DEF Next, WriterStep, ReaderStep, ReturnStep

-----------------------------------------------------------------------------
\* The reference counts.

\* Finitely many readers hold an object, and one that holds counts.
LEMMA HoldersFinite ==
  ASSUME NEW o
  PROVE  /\ IsFiniteSet(Holders(o)) /\ Cardinality(Holders(o)) \in Nat
         /\ (Cardinality(Holders(o)) = 0) <=> (Holders(o) = {})
<1>1. Holders(o) \in SUBSET Readers
  BY DEF Holders
<1>2. IsFiniteSet(Holders(o))
  BY <1>1, FS_Subset, PoolAssumption
<1> QED BY <1>2, FS_CardinalityType, FS_EmptySet

\* Nobody holds an object without references.
LEMMA NoRefsNoHolder ==
  ASSUME RefsCounted, NEW o \in Objs, obj[o].refs = 0, NEW r \in Readers, th[r].o = o
  PROVE  th[r].pc \notin Holding
<1>1. Holders(o) = {}
  BY HoldersFinite DEF RefsCounted
<1> QED BY <1>1 DEF Holders

\* A step that moves nobody into or out of holding leaves the counts alone.
LEMMA SameHolders ==
  ASSUME RefsCounted, \A o \in Objs : obj'[o].refs = obj[o].refs,
         \A r \in Readers : (th'[r].pc \in Holding \/ th[r].pc \in Holding) =>
           th'[r].pc \in Holding /\ th[r].pc \in Holding /\ th'[r].o = th[r].o
  PROVE  RefsCounted'
<1>1. \A o \in Objs : Holders(o)' = Holders(o)
  BY DEF Holders
<1> QED BY <1>1 DEF RefsCounted

-----------------------------------------------------------------------------
\* The invariant, action by action.

\* A step of thread t on object o leaves the invariant of every other thread
\* and object alone: what is left to show is about o and t.
LEMMA LocalStep ==
  ASSUME Types, Types', Inv, NEW t \in Threads, NEW o \in Objs,
         th[t].pc = "idle" \/ th[t].o = o,
         th'[t].pc = "idle" \/ th'[t].o = o,
         \A u \in Threads : u # t => th'[u] = th[u],
         \A p \in Objs : p # o => obj'[p] = obj[p] /\ inPool'[p] = inPool[p],
         \A s \in Shards : \/ chan'[s] = chan[s]
                           \/ s = t /\ chan[s] \in {o, NoObj} /\ chan'[s] \in {o, NoObj},
         \A r \in Readers : r # t => held'[r] = held[r],
         RefsCounted',
         \A s \in Shards : (s = t \/ chan'[s] = o) => LiveIntact(s)',
         \A u \in Threads : (th'[u].pc # "idle" /\ th'[u].o = o) =>
           InitAlone(u)' /\ MarkAlone(u)' /\ ReturnDropped(u)' /\ ClearAlone(u)',
         \A r \in Readers : (r = t \/ th'[r].o = o) => HolderKeeps(r)',
         PooledOnce(o)', Cared(o)'
  PROVE  Inv'
<1>1. \A p \in Objs : p # o => (NotLive(p)' <=> NotLive(p))
  BY PoolAssumption DEF NotLive
<1>2. ASSUME NEW s \in Shards, s # t, chan'[s] # o PROVE LiveIntact(s)'
  <2>1. LiveIntact(s) /\ chan'[s] = chan[s] /\ th'[s] = th[s]
    BY <1>2 DEF Inv, Threads
  <2>2. chan[s] # NoObj => chan[s] \in Objs /\ chan[s] # o
    BY <1>2, <2>1 DEF Types, ThreadTypes
  <2>3. \A u \in Shards : chan[s] # NoObj /\ chan[u] # chan[s] => chan'[u] # chan[s]
    BY <2>2
  <2> QED BY <2>1, <2>2, <2>3 DEF LiveIntact
<1>3. ASSUME NEW u \in Threads, ~(th'[u].pc # "idle" /\ th'[u].o = o)
      PROVE  InitAlone(u)' /\ MarkAlone(u)' /\ ReturnDropped(u)' /\ ClearAlone(u)'
  <2>1. CASE th'[u].pc = "idle"
    BY <2>1 DEF InitAlone, MarkAlone, ReturnDropped, ClearAlone, Aged, Returning
  <2>2. CASE th'[u].pc # "idle"
    <3>1. PICK p \in Objs : p = th'[u].o /\ p # o
      BY <1>3, <2>2 DEF Types, ThreadTypes
    <3>2. th'[u] = th[u] /\ th[u].o = p
      BY <2>2, <3>1
    <3>3. obj'[p] = obj[p] /\ inPool'[p] = inPool[p] /\ (NotLive(p)' <=> NotLive(p))
      BY <1>1, <3>1
    <3>4. \A v \in Threads : th'[v].o = p => th'[v] = th[v] \/ th'[v].pc = "idle"
      BY <3>1
    <3>5. InitAlone(u)'
      BY <3>1, <3>2, <3>3, <3>4 DEF Inv, InitAlone, Holding, Aged, Returning
    <3>6. MarkAlone(u)'
      BY <3>1, <3>2, <3>3, <3>4 DEF Inv, MarkAlone
    <3>7. ReturnDropped(u)'
      BY <3>1, <3>2, <3>3 DEF Inv, ReturnDropped
    <3>8. ClearAlone(u)'
      BY <3>1, <3>2, <3>3, <3>4 DEF Inv, ClearAlone
    <3> QED BY <3>5, <3>6, <3>7, <3>8
  <2> QED BY <2>1, <2>2
<1>4. ASSUME NEW r \in Readers, r # t, th'[r].o # o PROVE HolderKeeps(r)'
  BY <1>4 DEF Inv, HolderKeeps, Holding, Threads, Types, ThreadTypes
<1>5. ASSUME NEW p \in Objs, p # o PROVE PooledOnce(p)' /\ Cared(p)'
  <2>1. /\ obj'[p] = obj[p] /\ inPool'[p] = inPool[p] /\ (NotLive(p)' <=> NotLive(p))
        /\ PooledOnce(p) /\ Cared(p)
    BY <1>1, <1>5 DEF Inv
  <2>2. \A v \in Threads : th[v].o = p => th[v].pc = "idle" \/ th'[v] = th[v]
    BY <1>5
  <2>3. PooledOnce(p)'
    BY <2>1, <2>2 DEF PooledOnce
  <2>4. \A v \in Threads : th[v].o = p /\ Responsible(v) => th'[v].o = p /\ Responsible(v)'
    BY <2>1, <2>2 DEF Responsible, Holding
  <2> QED BY <2>1, <2>3, <2>4 DEF Cared
<1> QED BY <1>2, <1>3, <1>4, <1>5 DEF Inv

LEMMA NewGetInv ==
  ASSUME Types, Types', Inv, NEW s \in Shards, NewGet(s)
  PROVE  Inv'
<1>1. PICK o \in Objs :
        /\ inPool[o] > 0 \/ obj[o].gen = 0
        /\ inPool' = [inPool EXCEPT ![o] = IF @ > 0 THEN @ - 1 ELSE 0]
        /\ obj' = [obj EXCEPT ![o].gen = @ + 1]
        /\ th' = [th EXCEPT ![s] = [pc |-> "init", o |-> o, g |-> 0]]
  BY DEF NewGet
<1>2. /\ th'[s].pc = "init" /\ th'[s].o = o /\ th[s].pc = "idle" /\ s \in Threads
      /\ s \notin Readers
      /\ \A u \in Threads : u # s => th'[u] = th[u]
  BY <1>1, PoolAssumption DEF NewGet, At, Types, ThreadTypes, Threads
<1>3. /\ \A p \in Objs : p # o => obj'[p] = obj[p]
      /\ obj'[o].gen = obj[o].gen + 1 /\ obj[o].gen \in Nat
      /\ \A p \in Objs : /\ obj'[p].refs = obj[p].refs
                          /\ obj'[p].recycled = obj[p].recycled
                          /\ obj'[p].pooled = obj[p].pooled
                          /\ obj'[p].owner = obj[p].owner
  BY <1>1 DEF Types, ObjTypes
<1>4. UNCHANGED <<chan, held>>
  BY DEF NewGet, ghostVars
<1>5. PooledOnce(o) /\ inPool[o] \in Nat
  BY DEF Inv, Types, ObjTypes
<1>6. inPool'[o] = 0 /\ \A p \in Objs : p # o => inPool'[p] = inPool[p]
  BY <1>1, <1>5 DEF Types, ObjTypes, PooledOnce
<1>7. NotLive(o)
  <2>1. CASE inPool[o] > 0
    BY <1>5, <2>1 DEF PooledOnce
  <2>2. CASE obj[o].gen = 0
    BY <2>2, PoolAssumption DEF NotLive, Inv, LiveIntact
  <2> QED BY <1>1, <2>1, <2>2
<1>8. ASSUME NEW u \in Threads, th[u].o = o
      PROVE  /\ th[u].pc \notin {"init", "mark", "clear"} \union Holding
             /\ th[u].pc \in Aged => th[u].g <= obj[o].gen
  <2>1. u \in Readers \/ th[u].pc \notin Holding
    BY DEF Types, ThreadTypes, Threads, Holding, Returning
  <2>2. CASE inPool[o] > 0
    <3>1. inPool[o] = 1
      BY <1>5, <2>2 DEF PooledOnce
    <3> QED BY <1>8, <2>1, <3>1
            DEF Inv, InitAlone, MarkAlone, ClearAlone, HolderKeeps, ReturnDropped
  <2>3. CASE obj[o].gen = 0
    BY <1>3, <1>8, <2>1, <2>3
       DEF Inv, InitAlone, HolderKeeps, ReturnDropped, Aged, Returning, Types, ThreadTypes
  <2> QED BY <1>1, <2>2, <2>3
<1>9. RefsCounted'
  BY <1>2, <1>3, SameHolders DEF Inv, Threads
<1>10. \A u \in Shards : (u = s \/ chan'[u] = o) => LiveIntact(u)'
  BY <1>4, <1>7 DEF NewGet, LiveIntact, NotLive
<1>11. InitAlone(s)'
  <2>1. Holders(o) = {}
    BY <1>8 DEF Holders, Threads
  <2>2. obj[o].refs = 0
    BY <2>1, HoldersFinite DEF Inv, RefsCounted
  <2> QED BY <1>2, <1>3, <1>4, <1>6, <1>7, <1>8, <2>2
          DEF InitAlone, NotLive, Types, ThreadTypes
<1>12. ASSUME NEW u \in Threads, th'[u].pc # "idle", th'[u].o = o
       PROVE  InitAlone(u)' /\ MarkAlone(u)' /\ ReturnDropped(u)' /\ ClearAlone(u)'
  <2>1. CASE u = s
    BY <1>2, <1>11, <2>1 DEF MarkAlone, ReturnDropped, ClearAlone, Aged, Returning
  <2>2. CASE u # s
    <3>1. /\ th'[u].pc \notin {"init", "mark", "clear"}
          /\ th'[u].pc \in Aged => 1 <= th'[u].g /\ th'[u].g < obj'[o].gen
      BY <1>2, <1>3, <1>8, <1>12, <2>2 DEF Inv, ReturnDropped, Types, ThreadTypes
    <3> QED BY <1>12, <3>1, <1>3
            DEF InitAlone, MarkAlone, ReturnDropped, ClearAlone, Aged, Returning, Types, ThreadTypes
  <2> QED BY <2>1, <2>2
<1>13. \A r \in Readers : (r = s \/ th'[r].o = o) => HolderKeeps(r)'
  BY <1>2, <1>4, <1>8 DEF Inv, HolderKeeps, Holding, Threads
<1>14. PooledOnce(o)' /\ Cared(o)'
  BY <1>2, <1>6 DEF PooledOnce, Cared, Responsible
<1> QED BY <1>2, <1>3, <1>4, <1>6, <1>9, <1>10, <1>12, <1>13, <1>14, LocalStep

LEMMA NewInitInv ==
  ASSUME Types, Types', Inv, NEW s \in Shards, NewInit(s)
  PROVE  Inv'
<1>1. PICK o \in Objs : o = th[s].o
  BY DEF NewInit, At, Types, ThreadTypes, Threads
<1>2. /\ th[s].pc = "init" /\ th'[s].pc = "idle" /\ s \in Threads /\ s \notin Readers
      /\ \A u \in Threads : u # s => th'[u] = th[u]
  BY PoolAssumption DEF NewInit, At, Idle, Types, ThreadTypes, Threads
<1>3. obj' = [obj EXCEPT ![o] = [gen |-> obj[o].gen, refs |-> 0, recycled |-> FALSE,
                                 pooled |-> FALSE, owner |-> created]]
  BY <1>1 DEF NewInit
<1>4. /\ \A p \in Objs : p # o => obj'[p] = obj[p]
      /\ obj'[o].gen = obj[o].gen /\ obj'[o].refs = 0 /\ ~obj'[o].recycled
      /\ ~obj'[o].pooled /\ obj'[o].owner = created
  BY <1>3 DEF Types, ObjTypes
<1>5. UNCHANGED <<inPool, held>> /\ chan' = [chan EXCEPT ![s] = o]
  BY <1>1 DEF NewInit, ghostVars
<1>6. /\ inPool[o] = 0 /\ obj[o].refs = 0 /\ obj[o].gen > 0 /\ NotLive(o)
      /\ \A u \in Threads \ {s} : th[u].o = o =>
           /\ th[u].pc \notin {"init", "mark", "clear"} \union Holding
           /\ th[u].pc \in Aged => th[u].g < obj[o].gen
  BY <1>1, <1>2 DEF Inv, InitAlone
<1>7. created # 0 /\ chan'[s] = o /\ \A u \in Shards : u # s => chan'[u] = chan[u]
  BY <1>5, <1>6 DEF Types, ObjTypes, ThreadTypes
<1>8. chan[s] = NoObj
  BY <1>2 DEF Inv, LiveIntact
<1>9. RefsCounted'
  <2>1. \A p \in Objs : obj'[p].refs = obj[p].refs
    BY <1>4, <1>6
  <2> QED BY <1>2, <2>1, SameHolders DEF Inv, Threads
<1>10. \A u \in Shards : (u = s \/ chan'[u] = o) => LiveIntact(u)'
  BY <1>2, <1>4, <1>5, <1>6, <1>7 DEF LiveIntact, NotLive
<1>11. ASSUME NEW u \in Threads, th'[u].pc # "idle", th'[u].o = o
       PROVE  InitAlone(u)' /\ MarkAlone(u)' /\ ReturnDropped(u)' /\ ClearAlone(u)'
  <2>1. /\ th'[u].pc \notin {"init", "mark", "clear"}
        /\ th'[u].pc \in Aged => 1 <= th'[u].g /\ th'[u].g < obj'[o].gen
    BY <1>2, <1>4, <1>6, <1>11 DEF Inv, ReturnDropped
  <2> QED BY <1>4, <1>11, <2>1
          DEF InitAlone, MarkAlone, ReturnDropped, ClearAlone, Aged, Returning, Types,
              ThreadTypes, ObjTypes
<1>12. \A r \in Readers : (r = s \/ th'[r].o = o) => HolderKeeps(r)'
  BY <1>2, <1>5, <1>6 DEF Inv, HolderKeeps, Holding, Threads
<1>13. PooledOnce(o)' /\ Cared(o)'
  BY <1>4, <1>5, <1>6, <1>7 DEF PooledOnce, Cared, NotLive
<1> QED BY <1>1, <1>2, <1>4, <1>5, <1>7, <1>8, <1>9, <1>10, <1>11, <1>12, <1>13, LocalStep

LEMMA RecycleStartInv ==
  ASSUME Types, Types', Inv, NEW s \in Shards, RecycleStart(s)
  PROVE  Inv'
<1>1. PICK o \in Objs : o = chan[s]
  BY DEF RecycleStart, Types, ThreadTypes
<1>2. /\ th[s].pc = "idle" /\ s \in Threads /\ s \notin Readers
      /\ th'[s].pc = "mark" /\ th'[s].o = o /\ th'[s].g = obj[o].gen
      /\ \A u \in Threads : u # s => th'[u] = th[u]
  BY <1>1, PoolAssumption DEF RecycleStart, At, Types, ThreadTypes, Threads
<1>3. UNCHANGED <<obj, inPool, held>> /\ chan' = [chan EXCEPT ![s] = NoObj]
  BY DEF RecycleStart, ghostVars
<1>4. /\ inPool[o] = 0 /\ ~obj[o].recycled /\ ~obj[o].pooled
      /\ obj[o].owner # 0 /\ obj[o].gen > 0 /\ \A u \in Shards \ {s} : chan[u] # o
  BY <1>1, PoolAssumption DEF Inv, LiveIntact
<1>5. /\ chan'[s] = NoObj /\ \A u \in Shards : u # s => chan'[u] = chan[u]
      /\ NotLive(o)' /\ ~NotLive(o)
  BY <1>1, <1>3, <1>4, PoolAssumption DEF NotLive, Types, ThreadTypes
<1>6. RefsCounted'
  BY <1>2, <1>3, SameHolders DEF Inv, Threads
<1>7. \A u \in Shards : (u = s \/ chan'[u] = o) => LiveIntact(u)'
  BY <1>5 DEF LiveIntact, NotLive
<1>8. ASSUME NEW u \in Threads, th[u].o = o
      PROVE  /\ th[u].pc \notin {"init", "mark"}
             /\ th[u].pc \in {"refs"} \union Returning => th[u].g # obj[o].gen
  BY <1>5, <1>8 DEF Inv, InitAlone, MarkAlone, ReturnDropped
<1>9. ASSUME NEW u \in Threads, th'[u].pc # "idle", th'[u].o = o
      PROVE  InitAlone(u)' /\ MarkAlone(u)' /\ ReturnDropped(u)' /\ ClearAlone(u)'
  <2>1. CASE u = s
    <3>1. InitAlone(u)' /\ ClearAlone(u)'
      BY <1>2, <2>1 DEF InitAlone, ClearAlone
    <3>2. MarkAlone(u)'
      BY <1>2, <1>3, <1>4, <1>5, <1>8, <2>1 DEF MarkAlone
    <3>3. ReturnDropped(u)'
      BY <1>2, <1>3, <1>4, <2>1 DEF ReturnDropped, Returning, Types, ObjTypes
    <3> QED BY <3>1, <3>2, <3>3
  <2>2. CASE u # s
    <3>1. th'[u] = th[u] /\ th[u].o = o
      BY <1>2, <1>9, <2>2
    <3>2. InitAlone(u)' /\ MarkAlone(u)'
      BY <1>8, <3>1 DEF InitAlone, MarkAlone
    <3>3. ReturnDropped(u)'
      BY <1>3, <1>8, <3>1 DEF Inv, ReturnDropped
    <3>4. ClearAlone(u)'
      BY <1>2, <1>3, <3>1 DEF Inv, ClearAlone
    <3> QED BY <3>2, <3>3, <3>4
  <2> QED BY <2>1, <2>2
<1>10. \A r \in Readers : (r = s \/ th'[r].o = o) => HolderKeeps(r)'
  BY <1>2, <1>3 DEF Inv, HolderKeeps, Threads
<1>11. PooledOnce(o)' /\ Cared(o)'
  BY <1>2, <1>3, <1>4 DEF PooledOnce, Cared, Responsible
<1> QED BY <1>1, <1>2, <1>3, <1>5, <1>6, <1>7, <1>9, <1>10, <1>11, LocalStep

LEMMA RecycleMarkInv ==
  ASSUME Types, Types', Inv, NEW s \in Shards, RecycleMark(s)
  PROVE  Inv'
<1>1. PICK o \in Objs : o = th[s].o
  BY DEF RecycleMark, At, Types, ThreadTypes, Threads
<1>2. /\ th[s].pc = "mark" /\ s \in Threads /\ s \notin Readers
      /\ th'[s].pc = "refs" /\ th'[s].o = o /\ th'[s].g = th[s].g
      /\ \A u \in Threads : u # s => th'[u] = th[u]
  BY <1>1, PoolAssumption DEF RecycleMark, At, Types, ThreadTypes, Threads
<1>3. UNCHANGED <<inPool, chan, held>> /\ obj' = [obj EXCEPT ![o].recycled = TRUE]
  BY <1>1 DEF RecycleMark, ghostVars
<1>4. /\ \A p \in Objs : p # o => obj'[p] = obj[p]
      /\ obj'[o].recycled /\ obj'[o].gen = obj[o].gen /\ obj'[o].refs = obj[o].refs
      /\ obj'[o].pooled = obj[o].pooled /\ obj'[o].owner = obj[o].owner
  BY <1>3 DEF Types, ObjTypes
<1>5. /\ th[s].g = obj[o].gen /\ NotLive(o) /\ NotLive(o)'
      /\ ~obj[o].recycled /\ ~obj[o].pooled /\ inPool[o] = 0
      /\ \A u \in Threads \ {s} : th[u].o = o => th[u].pc \notin {"init", "mark"}
  BY <1>1, <1>2, <1>3 DEF Inv, MarkAlone, NotLive
<1>6. RefsCounted'
  BY <1>2, <1>4, SameHolders DEF Inv, Threads
<1>7. \A u \in Shards : (u = s \/ chan'[u] = o) => LiveIntact(u)'
  BY <1>2, <1>3, <1>5 DEF Inv, LiveIntact, NotLive
<1>8. ASSUME NEW u \in Threads, th'[u].pc # "idle", th'[u].o = o
      PROVE  InitAlone(u)' /\ MarkAlone(u)' /\ ReturnDropped(u)' /\ ClearAlone(u)'
  <2>1. CASE u = s
    <3>1. InitAlone(u)' /\ ClearAlone(u)' /\ MarkAlone(u)'
      BY <1>2, <2>1 DEF InitAlone, ClearAlone, MarkAlone
    <3>2. 1 <= th[s].g /\ th[s].g <= obj[o].gen
      BY <1>1, <1>2 DEF Inv, ReturnDropped, Aged
    <3> QED BY <1>2, <1>4, <1>5, <2>1, <3>1, <3>2 DEF ReturnDropped, Returning
  <2>2. CASE u # s
    <3>1. th'[u] = th[u] /\ th[u].o = o
      BY <1>2, <1>8, <2>2
    <3>2. InitAlone(u)' /\ MarkAlone(u)'
      BY <1>5, <2>2, <3>1 DEF InitAlone, MarkAlone
    <3>3. ReturnDropped(u)'
      BY <1>4, <1>5, <3>1 DEF Inv, ReturnDropped
    <3>4. ClearAlone(u)'
      BY <1>2, <1>3, <1>4, <3>1 DEF Inv, ClearAlone
    <3> QED BY <3>2, <3>3, <3>4
  <2> QED BY <2>1, <2>2
<1>9. \A r \in Readers : (r = s \/ th'[r].o = o) => HolderKeeps(r)'
  BY <1>2, <1>3, <1>4 DEF Inv, HolderKeeps, Threads
<1>10. PooledOnce(o)' /\ Cared(o)'
  BY <1>2, <1>3, <1>4, <1>5 DEF PooledOnce, Cared, Responsible
<1> QED BY <1>1, <1>2, <1>3, <1>4, <1>6, <1>7, <1>8, <1>9, <1>10, LocalStep

LEMMA AcquireInv ==
  ASSUME Types, Types', Inv, NEW r \in Readers, NEW s \in Shards, Acquire(r, s)
  PROVE  Inv'
<1>1. PICK o \in Objs : o = chan[s]
  BY DEF Acquire, Types, ThreadTypes
<1>2. /\ th[r].pc = "idle" /\ r \in Threads /\ r \notin Shards
      /\ th'[r].pc = "hold" /\ th'[r].o = o
      /\ \A u \in Threads : u # r => th'[u] = th[u]
  BY <1>1, PoolAssumption DEF Acquire, At, Types, ThreadTypes, Threads
<1>3. /\ UNCHANGED <<inPool, chan>> /\ obj' = [obj EXCEPT ![o].refs = @ + 1]
      /\ held' = [held EXCEPT ![r] = obj[o].owner]
  BY <1>1 DEF Acquire
<1>4. /\ \A p \in Objs : p # o => obj'[p] = obj[p]
      /\ obj'[o].refs = obj[o].refs + 1 /\ obj'[o].gen = obj[o].gen
      /\ obj'[o].recycled = obj[o].recycled
      /\ obj'[o].pooled = obj[o].pooled /\ obj'[o].owner = obj[o].owner
      /\ held'[r] = obj[o].owner /\ \A q \in Readers : q # r => held'[q] = held[q]
  BY <1>3 DEF Types, ObjTypes, ThreadTypes
<1>5. /\ inPool[o] = 0 /\ ~obj[o].recycled /\ ~obj[o].pooled
      /\ obj[o].owner # 0 /\ obj[o].gen > 0
      /\ ~NotLive(o) /\ ~NotLive(o)'
  BY <1>1, <1>3, PoolAssumption DEF Inv, LiveIntact, NotLive
<1>6. RefsCounted'
  <2>1. Holders(o)' = Holders(o) \union {r} /\ r \notin Holders(o)
    BY <1>2 DEF Holders, Holding, Threads
  <2>2. Cardinality(Holders(o)') = Cardinality(Holders(o)) + 1
    BY <2>1, HoldersFinite, FS_AddElement
  <2>3. \A p \in Objs : p # o => Holders(p)' = Holders(p)
    BY <1>2 DEF Holders, Holding, Threads
  <2> QED BY <1>4, <2>2, <2>3 DEF Inv, RefsCounted
<1>7. ASSUME NEW u \in Shards, chan'[u] = o PROVE LiveIntact(u)'
  BY <1>2, <1>3, <1>4, <1>7 DEF Inv, LiveIntact, Threads
<1>8. ASSUME NEW u \in Threads, th'[u].pc # "idle", th'[u].o = o
      PROVE  InitAlone(u)' /\ MarkAlone(u)' /\ ReturnDropped(u)' /\ ClearAlone(u)'
  <2>1. CASE u = r
    BY <1>2, <2>1 DEF InitAlone, ClearAlone, MarkAlone, ReturnDropped, Aged, Returning
  <2>2. CASE u # r
    <3>1. th'[u] = th[u] /\ th[u].o = o
      BY <1>2, <1>8, <2>2
    <3>2. InitAlone(u)' /\ MarkAlone(u)'
      BY <1>5, <3>1 DEF Inv, InitAlone, MarkAlone
    <3>3. ReturnDropped(u)'
      BY <1>4, <1>5, <3>1 DEF Inv, ReturnDropped
    <3>4. ClearAlone(u)'
      BY <1>2, <1>3, <1>4, <3>1 DEF Inv, ClearAlone
    <3> QED BY <3>2, <3>3, <3>4
  <2> QED BY <2>1, <2>2
<1>9. \A q \in Readers : (q = r \/ th'[q].o = o) => HolderKeeps(q)'
  BY <1>2, <1>3, <1>4, <1>5 DEF Inv, HolderKeeps, Holding, Threads
<1>10. PooledOnce(o)' /\ Cared(o)'
  BY <1>3, <1>4, <1>5 DEF PooledOnce, Cared
<1> QED BY <1>1, <1>2, <1>3, <1>4, <1>6, <1>7, <1>8, <1>9, <1>10, LocalStep

LEMMA ReleaseGenInv ==
  ASSUME Types, Types', Inv, NEW r \in Readers, ReleaseGen(r)
  PROVE  Inv'
<1>1. PICK o \in Objs : o = th[r].o
  BY DEF ReleaseGen, At, Types, ThreadTypes, Threads
<1>2. /\ th[r].pc = "hold" /\ r \in Threads /\ r \notin Shards
      /\ th'[r].pc = "decrement" /\ th'[r].o = o /\ th'[r].g = obj[o].gen
      /\ \A u \in Threads : u # r => th'[u] = th[u]
  BY <1>1, PoolAssumption DEF ReleaseGen, At, Types, ThreadTypes, Threads
<1>3. UNCHANGED <<obj, inPool, chan, held>>
  BY DEF ReleaseGen, ghostVars
<1>4. /\ held[r] = obj[o].owner /\ obj[o].owner # 0
      /\ ~obj[o].pooled /\ inPool[o] = 0 /\ obj[o].gen > 0
  BY <1>1, <1>2 DEF Inv, HolderKeeps, Holding
<1>5. \A p \in Objs : NotLive(p)' <=> NotLive(p)
  BY <1>3 DEF NotLive
<1>6. RefsCounted'
  BY <1>1, <1>2, <1>3, SameHolders DEF Inv, Holding, Threads
<1>7. ASSUME NEW u \in Shards PROVE LiveIntact(u)'
  BY <1>2, <1>3 DEF Inv, LiveIntact, Threads
<1>8. ASSUME NEW u \in Threads, th'[u].pc # "idle", th'[u].o = o
      PROVE  InitAlone(u)' /\ MarkAlone(u)' /\ ReturnDropped(u)' /\ ClearAlone(u)'
  <2>1. CASE u = r
    <3>1. 1 <= obj[o].gen /\ obj[o].gen <= obj[o].gen
      BY <1>4 DEF Types, ObjTypes
    <3> QED BY <1>2, <1>3, <2>1, <3>1
            DEF InitAlone, ClearAlone, MarkAlone, ReturnDropped, Returning
  <2>2. CASE u # r
    <3>1. th'[u] = th[u] /\ th[u].o = o
      BY <1>2, <1>8, <2>2
    <3>2. InitAlone(u)'
      BY <1>1, <1>2, <2>2, <3>1 DEF Inv, InitAlone, Holding
    <3>3. MarkAlone(u)' /\ ReturnDropped(u)' /\ ClearAlone(u)'
      BY <1>2, <1>3, <1>5, <3>1 DEF Inv, MarkAlone, ReturnDropped, ClearAlone
    <3> QED BY <3>2, <3>3
  <2> QED BY <2>1, <2>2
<1>9. \A q \in Readers : (q = r \/ th'[q].o = o) => HolderKeeps(q)'
  BY <1>2, <1>3, <1>4 DEF Inv, HolderKeeps, Holding, Threads
<1>10. PooledOnce(o)'
  BY <1>3, <1>4 DEF PooledOnce
<1>11. Cared(o)'
  <2>1. \A v \in Threads : th[v].o = o /\ Responsible(v) => th'[v].o = o /\ Responsible(v)'
    BY <1>2, <1>3 DEF Responsible, Holding
  <2> QED BY <1>3, <1>5, <2>1 DEF Inv, Cared
<1> QED BY <1>1, <1>2, <1>3, <1>6, <1>7, <1>8, <1>9, <1>10, <1>11, LocalStep

LEMMA ReleaseRefInv ==
  ASSUME Types, Types', Inv, NEW r \in Readers, ReleaseRef(r)
  PROVE  Inv'
<1>1. PICK o \in Objs : o = th[r].o
  BY DEF ReleaseRef, At, Types, ThreadTypes, Threads
<1>2. /\ th[r].pc = "decrement" /\ r \in Threads /\ r \notin Shards
      /\ \/ obj[o].refs = 1 /\ th'[r].pc = "recycled" /\ th'[r].o = o /\ th'[r].g = th[r].g
         \/ obj[o].refs # 1 /\ th'[r].pc = "idle"
      /\ \A u \in Threads : u # r => th'[u] = th[u]
  <2>1. th[r].pc = "decrement" /\ r \in Threads /\ r \notin Shards
    BY PoolAssumption DEF ReleaseRef, At, Threads
  <2>2. CASE obj[o].refs = 1
    <3>1. th' = [th EXCEPT ![r].pc = "recycled"]
      BY <1>1, <2>2 DEF ReleaseRef
    <3> QED BY <1>1, <2>1, <2>2, <3>1 DEF Types, ThreadTypes
  <2>3. CASE obj[o].refs # 1
    <3>1. th' = [th EXCEPT ![r] = Idle]
      BY <1>1, <2>3 DEF ReleaseRef
    <3> QED BY <2>1, <2>3, <3>1 DEF Types, ThreadTypes, Idle
  <2> QED BY <2>2, <2>3
<1>3. /\ UNCHANGED <<inPool, chan>> /\ obj' = [obj EXCEPT ![o].refs = @ - 1]
      /\ held' = [held EXCEPT ![r] = 0]
  BY <1>1 DEF ReleaseRef
<1>4. /\ \A p \in Objs : p # o => obj'[p] = obj[p]
      /\ obj'[o].refs = obj[o].refs - 1 /\ obj'[o].gen = obj[o].gen
      /\ obj'[o].recycled = obj[o].recycled
      /\ obj'[o].pooled = obj[o].pooled /\ obj'[o].owner = obj[o].owner
      /\ held'[r] = 0 /\ \A q \in Readers : q # r => held'[q] = held[q]
  BY <1>3 DEF Types, ObjTypes, ThreadTypes
<1>5. /\ ~obj[o].pooled /\ inPool[o] = 0 /\ obj[o].gen > 0 /\ th[r].g = obj[o].gen
      /\ r \in Holders(o)
  BY <1>1, <1>2 DEF Inv, HolderKeeps, Holding, Holders
<1>6. obj[o].refs = Cardinality(Holders(o)) /\ obj[o].refs \in Nat /\ obj[o].refs # 0
  BY <1>5, HoldersFinite DEF Inv, RefsCounted
<1>7. Holders(o)' = Holders(o) \ {r}
  BY <1>2 DEF Holders, Holding, Threads
<1>8. RefsCounted'
  <2>1. Cardinality(Holders(o)') = Cardinality(Holders(o)) - 1
    BY <1>5, <1>7, HoldersFinite, FS_RemoveElement
  <2>2. \A p \in Objs : p # o => Holders(p)' = Holders(p)
    BY <1>1, <1>2 DEF Holders, Holding, Threads
  <2> QED BY <1>4, <1>6, <2>1, <2>2 DEF Inv, RefsCounted
<1>9. \A p \in Objs : NotLive(p)' <=> NotLive(p)
  BY <1>3 DEF NotLive
<1>10. ASSUME NEW u \in Shards, chan'[u] = o PROVE LiveIntact(u)'
  BY <1>2, <1>3, <1>4, <1>10 DEF Inv, LiveIntact, Threads
<1>11. ASSUME NEW u \in Threads, th'[u].pc # "idle", th'[u].o = o
       PROVE  InitAlone(u)' /\ MarkAlone(u)' /\ ReturnDropped(u)' /\ ClearAlone(u)'
  <2>1. CASE u = r
    <3>1. 1 <= obj[o].gen /\ obj[o].gen <= obj[o].gen
      BY <1>5 DEF Types, ObjTypes
    <3> QED BY <1>2, <1>4, <1>5, <1>11, <2>1, <3>1
            DEF InitAlone, ClearAlone, MarkAlone, ReturnDropped, Returning
  <2>2. CASE u # r
    <3>1. th'[u] = th[u] /\ th[u].o = o
      BY <1>2, <1>11, <2>2
    <3>2. InitAlone(u)'
      BY <1>1, <1>2, <2>2, <3>1 DEF Inv, InitAlone, Holding
    <3>3. MarkAlone(u)'
      BY <1>2, <1>3, <1>4, <1>9, <3>1 DEF Inv, MarkAlone
    <3>4. ReturnDropped(u)'
      BY <1>4, <1>6, <1>9, <3>1 DEF Inv, ReturnDropped
    <3>5. ClearAlone(u)'
      BY <1>2, <1>3, <1>4, <3>1 DEF Inv, ClearAlone
    <3> QED BY <3>2, <3>3, <3>4, <3>5
  <2> QED BY <2>1, <2>2
<1>12. \A q \in Readers : (q = r \/ th'[q].o = o) => HolderKeeps(q)'
  BY <1>2, <1>3, <1>4 DEF Inv, HolderKeeps, Holding, Threads
<1>13. PooledOnce(o)'
  BY <1>3, <1>4, <1>5 DEF PooledOnce
<1>14. Cared(o)'
  <2> SUFFICES ASSUME NotLive(o)'
               PROVE  \E v \in Threads : th'[v].o = o /\ Responsible(v)'
    BY DEF Cared
  <2>1. PICK v \in Threads : th[v].o = o /\ Responsible(v)
    BY <1>5, <1>9 DEF Inv, Cared
  <2>2. CASE v # r
    <3>1. th'[v] = th[v]
      BY <1>2, <2>2
    <3> QED BY <1>4, <2>1, <3>1 DEF Responsible
  <2>3. CASE v = r
    <3>1. obj[o].recycled
      <4>1. Responsible(r) /\ th[r].pc = "decrement"
        BY <1>2, <2>1, <2>3
      <4>2. obj[th[r].o].recycled
        BY <4>1 DEF Responsible
      <4> QED BY <1>1, <4>2
    <3>2. CASE obj[o].refs = 1
      <4>1. /\ th'[r].pc = "recycled" /\ th'[r].o = o /\ th'[r].g = obj'[o].gen
            /\ obj'[o].recycled /\ r \in Threads
        BY <1>2, <1>4, <1>5, <3>1, <3>2
      <4>2. Responsible(r)'
        BY <4>1 DEF Responsible
      <4> QED BY <4>1, <4>2
    <3>3. CASE obj[o].refs # 1
      <4>1. Holders(o) # {r}
        BY <1>6, <3>3, FS_Singleton
      <4>2. PICK q \in Holders(o) : q # r
        BY <1>5, <4>1
      <4>3. q \in Threads /\ th'[q] = th[q] /\ th[q].o = o /\ th[q].pc \in Holding
        BY <1>2, <4>2 DEF Holders, Threads
      <4> QED BY <1>4, <3>1, <4>3 DEF Responsible
    <3> QED BY <3>2, <3>3
  <2> QED BY <2>2, <2>3
<1> QED BY <1>1, <1>2, <1>3, <1>4, <1>8, <1>10, <1>11, <1>12, <1>13, <1>14, LocalStep

\* A step of a thread that holds nothing, on an object it leaves as it is:
\* onwards in the return, or out of the call.
LEMMA QuietStep ==
  ASSUME Types, Types', Inv, NEW t \in Threads, NEW o \in Objs, th[t].o = o,
         UNCHANGED <<obj, inPool, chan, held>>,
         \A u \in Threads : u # t => th'[u] = th[u],
         th[t].pc \in {"recycled", "refs", "check", "cas"},
         \/ th'[t].pc = "idle"
         \/ th'[t].pc \in {"check", "cas"} /\ th'[t].o = o /\ th'[t].g = th[t].g,
         ReturnDropped(t)', Cared(o)'
  PROVE  Inv'
<1>1. \A p \in Objs : NotLive(p)' <=> NotLive(p)
  BY DEF NotLive
<1>2. th[t].pc \notin Holding /\ th'[t].pc \notin Holding
  BY DEF Holding
<1>3. RefsCounted'
  BY <1>2, SameHolders DEF Inv, Threads
<1>4. ASSUME NEW s \in Shards PROVE LiveIntact(s)'
  BY DEF Inv, LiveIntact, Threads
<1>5. ASSUME NEW u \in Threads, th'[u].pc # "idle", th'[u].o = o
      PROVE  InitAlone(u)' /\ MarkAlone(u)' /\ ReturnDropped(u)' /\ ClearAlone(u)'
  <2>1. CASE u = t
    BY <1>5, <2>1 DEF InitAlone, ClearAlone, MarkAlone
  <2>2. CASE u # t
    <3>1. th'[u] = th[u] /\ th[u].o = o
      BY <1>5, <2>2
    <3>2. InitAlone(u)'
      BY <1>1, <1>2, <2>2, <3>1 DEF Inv, InitAlone, Aged, Returning, Holding
    <3>3. MarkAlone(u)' /\ ReturnDropped(u)' /\ ClearAlone(u)'
      BY <1>1, <3>1 DEF Inv, MarkAlone, ReturnDropped, ClearAlone
    <3> QED BY <3>2, <3>3
  <2> QED BY <2>1, <2>2
<1>6. ASSUME NEW r \in Readers PROVE HolderKeeps(r)'
  BY <1>2 DEF Inv, HolderKeeps, Holding, Threads
<1>7. PooledOnce(o)'
  <2>1. \A v \in Threads : th[v].pc \in {"init", "clear"} => th'[v] = th[v]
    OBVIOUS
  <2> QED BY <1>1, <2>1 DEF Inv, PooledOnce
<1> QED BY <1>3, <1>4, <1>5, <1>6, <1>7, LocalStep

\* A quiet step gives up no responsibility that nobody else has.
LEMMA StillCared ==
  ASSUME Inv, NEW t \in Threads, NEW o \in Objs, th[t].o = o,
         UNCHANGED <<obj, inPool, chan>>,
         \A u \in Threads : u # t => th'[u] = th[u],
         Responsible(t) => \/ th'[t].o = o /\ Responsible(t)'
                           \/ inPool[o] # 0
                           \/ \E v \in Threads \ {t} : th[v].o = o /\ Responsible(v)
  PROVE  Cared(o)'
<1>1. ASSUME NEW v \in Threads \ {t}, th[v].o = o, Responsible(v)
      PROVE  th'[v].o = o /\ Responsible(v)'
  BY <1>1 DEF Responsible
<1>2. NotLive(o)' <=> NotLive(o)
  BY DEF NotLive
<1> QED BY <1>1, <1>2 DEF Inv, Cared

LEMMA RecycleRefsInv ==
  ASSUME Types, Types', Inv, NEW s \in Shards, RecycleRefs(s)
  PROVE  Inv'
<1>1. PICK o \in Objs : o = th[s].o
  BY DEF RecycleRefs, At, Types, ThreadTypes, Threads
<1>2. th[s].pc = "refs" /\ s \in Threads /\ UNCHANGED <<obj, inPool, chan, held>>
  BY DEF RecycleRefs, At, Threads, ghostVars
<1>3. CASE obj[o].refs = 0
  <2>1. th' = [th EXCEPT ![s].pc = "check"]
    BY <1>1, <1>3 DEF RecycleRefs
  <2>2. /\ th'[s].pc = "check" /\ th'[s].o = o /\ th'[s].g = th[s].g
        /\ \A u \in Threads : u # s => th'[u] = th[u]
    BY <1>1, <1>2, <2>1 DEF Types, ThreadTypes
  <2>3. ReturnDropped(s)'
    BY <1>1, <1>2, <1>3, <2>2 DEF Inv, ReturnDropped, NotLive, Aged, Returning
  <2>4. Cared(o)'
    BY <1>1, <1>2, <2>2, StillCared DEF Responsible, Holding
  <2> QED BY <1>1, <1>2, <2>2, <2>3, <2>4, QuietStep
<1>4. CASE obj[o].refs # 0
  <2>1. th' = [th EXCEPT ![s] = Idle]
    BY <1>1, <1>4 DEF RecycleRefs
  <2>2. th'[s].pc = "idle" /\ \A u \in Threads : u # s => th'[u] = th[u]
    BY <1>2, <2>1 DEF Types, ThreadTypes, Idle
  <2>3. ReturnDropped(s)'
    BY <2>2 DEF ReturnDropped, Aged, Returning
  <2>4. Cared(o)'
    <3>1. PICK r \in Holders(o) : TRUE
      BY <1>4, HoldersFinite DEF Inv, RefsCounted
    <3>2. r \in Threads \ {s} /\ th[r].o = o /\ th[r].pc \in Holding
      BY <3>1, PoolAssumption DEF Holders, Threads
    <3>3. Responsible(s) => obj[o].recycled
      BY <1>1, <1>2 DEF Inv, ReturnDropped, Responsible
    <3>4. Responsible(s) => Responsible(r)
      BY <3>2, <3>3 DEF Responsible
    <3> QED BY <1>1, <1>2, <2>2, <3>2, <3>4, StillCared
  <2> QED BY <1>1, <1>2, <2>2, <2>3, <2>4, QuietStep
<1> QED BY <1>3, <1>4

LEMMA ReleaseRecycledInv ==
  ASSUME Types, Types', Inv, NEW r \in Readers, ReleaseRecycled(r), ~Known'
  PROVE  Inv'
<1>1. PICK o \in Objs : o = th[r].o
  BY DEF ReleaseRecycled, At, Types, ThreadTypes, Threads
<1>2. th[r].pc = "recycled" /\ r \in Threads /\ UNCHANGED <<obj, inPool, chan, held>>
  BY DEF ReleaseRecycled, At, Threads
<1>3. CASE obj[o].recycled
  <2>1. th' = [th EXCEPT ![r].pc = "check"]
    BY <1>1, <1>3 DEF ReleaseRecycled
  <2>2. /\ th'[r].pc = "check" /\ th'[r].o = o /\ th'[r].g = th[r].g
        /\ \A u \in Threads : u # r => th'[u] = th[u]
    BY <1>1, <1>2, <2>1 DEF Types, ThreadTypes
  <2>3. obj[o].refs = 0
    <3>1. ~(obj[o].refs > 0)
      BY <1>1, <1>3 DEF ReleaseRecycled, Reacquired, Known
    <3>2. obj[o].refs \in Nat
      BY HoldersFinite DEF Inv, RefsCounted
    <3> QED BY <3>1, <3>2
  <2>4. NotLive(o)
    BY <1>3, PoolAssumption DEF Inv, LiveIntact, NotLive
  <2>5. ReturnDropped(r)'
    BY <1>1, <1>2, <1>3, <2>2, <2>3, <2>4 DEF Inv, ReturnDropped, NotLive, Aged, Returning
  <2>6. Cared(o)'
    BY <1>1, <1>2, <2>2, StillCared DEF Responsible, Holding
  <2> QED BY <1>1, <1>2, <2>2, <2>5, <2>6, QuietStep
<1>4. CASE ~obj[o].recycled
  <2>1. th' = [th EXCEPT ![r] = Idle]
    BY <1>1, <1>4 DEF ReleaseRecycled
  <2>2. th'[r].pc = "idle" /\ \A u \in Threads : u # r => th'[u] = th[u]
    BY <1>2, <2>1 DEF Types, ThreadTypes, Idle
  <2>3. ReturnDropped(r)'
    BY <2>2 DEF ReturnDropped, Aged, Returning
  <2>4. ~Responsible(r)
    BY <1>1, <1>2, <1>4 DEF Responsible
  <2>5. Cared(o)'
    BY <1>1, <1>2, <2>2, <2>4, StillCared
  <2> QED BY <1>1, <1>2, <2>2, <2>3, <2>5, QuietStep
<1> QED BY <1>3, <1>4

LEMMA ReturnCheckInv ==
  ASSUME Types, Types', Inv, NEW t \in Threads, ReturnCheck(t)
  PROVE  Inv'
<1>1. PICK o \in Objs : o = th[t].o
  BY DEF ReturnCheck, At, Types, ThreadTypes
<1>2. th[t].pc = "check" /\ UNCHANGED <<obj, inPool, chan, held>>
  BY DEF ReturnCheck, At, ghostVars
<1>3. CASE obj[o].gen = th[t].g
  <2>1. th' = [th EXCEPT ![t].pc = "cas"]
    BY <1>1, <1>3 DEF ReturnCheck
  <2>2. /\ th'[t].pc = "cas" /\ th'[t].o = o /\ th'[t].g = th[t].g
        /\ \A u \in Threads : u # t => th'[u] = th[u]
    BY <1>1, <1>2, <2>1 DEF Types, ThreadTypes
  <2>3. ReturnDropped(t)'
    BY <1>1, <1>2, <2>2 DEF Inv, ReturnDropped, NotLive, Aged, Returning
  <2>4. Cared(o)'
    BY <1>1, <1>2, <2>2, StillCared DEF Responsible, Holding
  <2> QED BY <1>1, <1>2, <2>2, <2>3, <2>4, QuietStep
<1>4. CASE obj[o].gen # th[t].g
  <2>1. th' = [th EXCEPT ![t] = Idle]
    BY <1>1, <1>4 DEF ReturnCheck
  <2>2. th'[t].pc = "idle" /\ \A u \in Threads : u # t => th'[u] = th[u]
    BY <1>2, <2>1 DEF Types, ThreadTypes, Idle
  <2>3. ReturnDropped(t)'
    BY <2>2 DEF ReturnDropped, Aged, Returning
  <2>4. ~Responsible(t)
    BY <1>1, <1>2, <1>4 DEF Responsible, Holding
  <2>5. Cared(o)'
    BY <1>1, <1>2, <2>2, <2>4, StillCared
  <2> QED BY <1>1, <1>2, <2>2, <2>3, <2>5, QuietStep
<1> QED BY <1>3, <1>4

LEMMA ReturnCASInv ==
  ASSUME Types, Types', Inv, NEW t \in Threads, ReturnCAS(t), ~Known'
  PROVE  Inv'
<1>1. PICK o \in Objs : o = th[t].o
  BY DEF ReturnCAS, At, Types, ThreadTypes
<1>2. th[t].pc = "cas" /\ UNCHANGED <<inPool, chan, held>>
  BY DEF ReturnCAS, At
<1>3. CASE obj[o].pooled
  <2>1. th' = [th EXCEPT ![t] = Idle] /\ UNCHANGED obj
    BY <1>1, <1>3 DEF ReturnCAS
  <2>2. th'[t].pc = "idle" /\ \A u \in Threads : u # t => th'[u] = th[u]
    BY <1>2, <2>1 DEF Types, ThreadTypes, Idle
  <2>3. ReturnDropped(t)'
    BY <2>2 DEF ReturnDropped, Aged, Returning
  <2>4. inPool[o] # 0 \/ \E v \in Threads \ {t} : th[v].o = o /\ Responsible(v)
    <3>1. inPool[o] = 1 \/ \E v \in Threads : th[v].o = o /\ th[v].pc \in {"init", "clear"}
      BY <1>3 DEF Inv, PooledOnce
    <3> QED BY <1>2, <3>1 DEF Responsible
  <2>5. Cared(o)'
    BY <1>1, <1>2, <2>1, <2>2, <2>4, StillCared
  <2> QED BY <1>1, <1>2, <2>1, <2>2, <2>3, <2>5, QuietStep
<1>4. CASE ~obj[o].pooled
  <2>1. /\ obj' = [obj EXCEPT ![o].pooled = TRUE] /\ th' = [th EXCEPT ![t].pc = "clear"]
        /\ th[t].g = obj[o].gen
    BY <1>1, <1>4 DEF ReturnCAS, Known
  <2>2. /\ th'[t].pc = "clear" /\ th'[t].o = o /\ th'[t].g = obj[o].gen
        /\ \A u \in Threads : u # t => th'[u] = th[u]
    BY <1>1, <2>1 DEF Types, ThreadTypes
  <2>3. /\ \A p \in Objs : p # o => obj'[p] = obj[p]
        /\ obj'[o].pooled /\ obj'[o].gen = obj[o].gen /\ obj'[o].refs = obj[o].refs
        /\ obj'[o].recycled = obj[o].recycled /\ obj'[o].owner = obj[o].owner
    BY <2>1 DEF Types, ObjTypes
  <2>4. /\ obj[o].recycled /\ NotLive(o) /\ NotLive(o)' /\ obj[o].refs = 0
        /\ 1 <= obj[o].gen /\ obj[o].gen <= obj[o].gen
    BY <1>1, <1>2, <2>1 DEF Inv, ReturnDropped, Returning, Aged, NotLive
  <2>5. inPool[o] = 0
    <3>1. inPool[o] # 1 /\ inPool[o] <= 1
      BY <1>4, Zenon DEF Inv, PooledOnce
    <3>2. inPool[o] \in Nat
      BY DEF Types, ObjTypes
    <3> QED BY <3>1, <3>2
  <2>6. RefsCounted'
    BY <1>2, <2>2, <2>3, SameHolders DEF Inv, Threads, Holding
  <2>7. \A u \in Shards : (u = t \/ chan'[u] = o) => LiveIntact(u)'
    BY <1>2, <2>4 DEF Inv, LiveIntact, NotLive
  <2>8. ASSUME NEW u \in Threads, u # t, th[u].o = o
        PROVE  th[u].pc \notin {"init", "mark", "clear"}
    BY <1>1, <1>2, <1>4, <2>1, <2>4, <2>8
       DEF Inv, InitAlone, MarkAlone, ClearAlone, Aged, Returning, Types, ObjTypes
  <2>9. ASSUME NEW u \in Threads, th'[u].pc # "idle", th'[u].o = o
        PROVE  InitAlone(u)' /\ MarkAlone(u)' /\ ReturnDropped(u)' /\ ClearAlone(u)'
    <3>1. CASE u = t
      <4>1. InitAlone(u)' /\ MarkAlone(u)'
        BY <2>2, <3>1 DEF InitAlone, MarkAlone
      <4>2. ReturnDropped(u)'
        BY <2>2, <2>3, <2>4, <3>1 DEF ReturnDropped
      <4>3. ClearAlone(u)'
        BY <1>2, <2>2, <2>3, <2>5, <2>8, <3>1 DEF ClearAlone
      <4> QED BY <4>1, <4>2, <4>3
    <3>2. CASE u # t
      <4>1. th'[u] = th[u] /\ th[u].o = o
        BY <2>2, <2>9, <3>2
      <4>2. InitAlone(u)' /\ MarkAlone(u)' /\ ClearAlone(u)'
        BY <2>8, <3>2, <4>1 DEF InitAlone, MarkAlone, ClearAlone
      <4>3. ReturnDropped(u)'
        BY <2>3, <2>4, <4>1 DEF Inv, ReturnDropped
      <4> QED BY <4>2, <4>3
    <3> QED BY <3>1, <3>2
  <2>10. ASSUME NEW r \in Readers, r = t \/ th'[r].o = o PROVE HolderKeeps(r)'
    <3>1. th[r].o = o
      BY <1>1, <2>2, <2>10 DEF Threads
    <3>2. th[r].pc \notin Holding
      BY <2>4, <3>1, NoRefsNoHolder DEF Inv
    <3> QED BY <1>2, <2>2, <3>2 DEF Inv, HolderKeeps, Holding, Threads
  <2>11. PooledOnce(o)' /\ Cared(o)'
    BY <1>2, <2>2, <2>5 DEF PooledOnce, Cared, Responsible
  <2> QED BY <1>1, <1>2, <2>2, <2>3, <2>6, <2>7, <2>9, <2>10, <2>11, LocalStep
<1> QED BY <1>3, <1>4

LEMMA ReturnClearInv ==
  ASSUME Types, Types', Inv, NEW t \in Threads, ReturnClear(t)
  PROVE  Inv'
<1>1. PICK o \in Objs : o = th[t].o
  BY DEF ReturnClear, At, Types, ThreadTypes
<1>2. /\ th[t].pc = "clear" /\ UNCHANGED <<chan, held>>
      /\ th'[t].pc = "idle" /\ \A u \in Threads : u # t => th'[u] = th[u]
  BY DEF ReturnClear, At, ghostVars, Idle, Types, ThreadTypes
<1>3. /\ obj' = [obj EXCEPT ![o].owner = 0] /\ inPool' = [inPool EXCEPT ![o] = @ + 1]
  BY <1>1 DEF ReturnClear
<1>4. /\ \A p \in Objs : p # o => obj'[p] = obj[p] /\ inPool'[p] = inPool[p]
      /\ obj'[o].pooled = obj[o].pooled /\ obj'[o].gen = obj[o].gen
      /\ obj'[o].refs = obj[o].refs /\ obj'[o].recycled = obj[o].recycled
      /\ inPool'[o] = inPool[o] + 1
  BY <1>3 DEF Types, ObjTypes
<1>5. /\ th[t].g = obj[o].gen /\ obj[o].pooled /\ inPool[o] = 0
      /\ \A u \in Threads \ {t} : th[u].o = o => th[u].pc # "clear"
  BY <1>1, <1>2 DEF Inv, ClearAlone
<1>6. /\ obj[o].recycled /\ NotLive(o) /\ NotLive(o)' /\ obj[o].refs = 0
      /\ 1 <= obj[o].gen
  BY <1>1, <1>2, <1>5 DEF Inv, ReturnDropped, Returning, Aged, NotLive
<1>7. RefsCounted'
  <2>1. \A p \in Objs : obj'[p].refs = obj[p].refs
    BY <1>4
  <2> QED BY <1>2, <2>1, SameHolders DEF Inv, Threads, Holding
<1>8. \A u \in Shards : (u = t \/ chan'[u] = o) => LiveIntact(u)'
  BY <1>2, <1>6 DEF Inv, LiveIntact, NotLive
<1>9. ASSUME NEW u \in Threads, th'[u].pc # "idle", th'[u].o = o
      PROVE  InitAlone(u)' /\ MarkAlone(u)' /\ ReturnDropped(u)' /\ ClearAlone(u)'
  <2>1. u # t /\ th'[u] = th[u] /\ th[u].o = o
    BY <1>2, <1>9
  <2>2. th[u].pc \notin {"init", "mark", "clear"}
    BY <1>1, <1>2, <1>5, <1>6, <2>1 DEF Inv, InitAlone, MarkAlone
  <2>3. ReturnDropped(u)'
    BY <1>4, <1>6, <2>1 DEF Inv, ReturnDropped
  <2> QED BY <2>1, <2>2, <2>3 DEF InitAlone, MarkAlone, ClearAlone
<1>10. ASSUME NEW r \in Readers, r = t \/ th'[r].o = o PROVE HolderKeeps(r)'
  <2>1. th[r].o = o \/ th[r].pc = "clear"
    BY <1>2, <1>10 DEF Threads
  <2>2. th[r].pc \notin Holding
    BY <1>6, <2>1, NoRefsNoHolder DEF Inv, Holding
  <2> QED BY <1>2, <2>2 DEF Inv, HolderKeeps, Holding, Threads
<1>11. PooledOnce(o)' /\ Cared(o)'
  <2>1. inPool'[o] = 1
    BY <1>4, <1>5
  <2>2. obj'[o].pooled /\ obj'[o].recycled /\ obj'[o].gen > 0 /\ obj'[o].refs = 0
    <3>1. obj'[o].gen > 0 /\ obj'[o].refs = 0
      BY <1>4, <1>6 DEF Types, ObjTypes
    <3> QED BY <1>4, <1>5, <1>6, <3>1, Zenon
  <2> QED BY <1>6, <2>1, <2>2 DEF PooledOnce, Cared
<1> QED BY <1>1, <1>2, <1>4, <1>7, <1>8, <1>9, <1>10, <1>11, LocalStep

-----------------------------------------------------------------------------
\* The whole invariant, and what follows.

LEMMA InitInv == Init => Inv
<1> SUFFICES ASSUME Init PROVE Inv
  OBVIOUS
<1>1. \A t \in Threads : th[t].pc = "idle"
  BY DEF Init, Idle
<1>2. \A o \in Objs : /\ obj[o].gen = 0 /\ obj[o].refs = 0 /\ ~obj[o].pooled
                     /\ inPool[o] = 0
  BY DEF Init, Fresh
<1>3. \A s \in Shards : chan[s] = NoObj
  BY DEF Init
<1>4. RefsCounted
  <2>1. \A o \in Objs : Holders(o) = {}
    BY <1>1 DEF Holders, Holding, Threads
  <2> QED BY <1>2, <2>1, FS_EmptySet DEF RefsCounted
<1>5. \A s \in Shards : LiveIntact(s)
  BY <1>3 DEF LiveIntact
<1>6. \A t \in Threads : InitAlone(t) /\ MarkAlone(t) /\ ReturnDropped(t) /\ ClearAlone(t)
  BY <1>1 DEF InitAlone, MarkAlone, ReturnDropped, ClearAlone, Aged, Returning
<1>7. \A r \in Readers : HolderKeeps(r)
  BY <1>1 DEF Init, HolderKeeps, Holding, Threads
<1>8. \A o \in Objs : PooledOnce(o) /\ Cared(o)
  BY <1>2 DEF PooledOnce, Cared
<1> QED BY <1>4, <1>5, <1>6, <1>7, <1>8 DEF Inv

\* The known windows stay open once they were hit.
LEMMA KnownStays == Types /\ Known /\ [Next]_vars => Known'
<1> SUFFICES ASSUME Types, Known, [Next]_vars PROVE Known'
  OBVIOUS
<1>1. CASE UNCHANGED <<stale, early>>
  BY <1>1 DEF Known
<1>2. ASSUME NEW r \in Readers, ReleaseRecycled(r) PROVE Known'
  BY <1>2, Zenon DEF ReleaseRecycled, Reacquired, Known
<1>3. ASSUME NEW t \in Threads, ReturnCAS(t) PROVE Known'
  BY <1>3, Zenon DEF ReturnCAS, Known
<1>4. ASSUME NEW s \in Shards, NewGet(s) \/ RecycleStart(s) \/ WriterStep(s)
      PROVE  UNCHANGED <<stale, early>>
  BY <1>4 DEF NewGet, RecycleStart, WriterStep, NewInit, RecycleMark, RecycleRefs, ghostVars
<1>5. ASSUME NEW r \in Readers, \/ \E s \in Shards : Acquire(r, s)
                                \/ ReleaseGen(r) \/ ReleaseRef(r)
      PROVE  UNCHANGED <<stale, early>>
  BY <1>5 DEF Acquire, ReleaseGen, ReleaseRef, ghostVars
<1>6. ASSUME NEW t \in Threads, ReturnCheck(t) \/ ReturnClear(t)
      PROVE  UNCHANGED <<stale, early>>
  BY <1>6 DEF ReturnCheck, ReturnClear, ghostVars
<1>7. CASE UNCHANGED vars
  BY <1>1, <1>7 DEF vars
<1> QED
  BY <1>1, <1>2, <1>3, <1>4, <1>5, <1>6, <1>7, Zenon DEF Next, ReaderStep, ReturnStep

LEMMA Invariance == Spec => []IInv
<1>1. Init => IInv
  BY InitTypes, InitInv DEF IInv
<1>2. IInv /\ [Next]_vars => IInv'
  <2> SUFFICES ASSUME Types, Known \/ Inv, [Next]_vars, ~Known' PROVE Types' /\ Inv'
    BY NextObjTypes, NextThreadTypes DEF IInv, Types
  <2>1. Types'
    BY NextObjTypes, NextThreadTypes DEF Types
  <2>2. Inv
    BY KnownStays
  <2>3. CASE UNCHANGED vars
    <3> USE <2>3 DEF vars
    <3>1. /\ RefsCounted' = RefsCounted
          /\ \A s \in Shards : LiveIntact(s)' = LiveIntact(s)
      BY DEF RefsCounted, Holders, LiveIntact
    <3>2. \A t \in Threads : InitAlone(t)' = InitAlone(t) /\ MarkAlone(t)' = MarkAlone(t)
      BY DEF InitAlone, MarkAlone, NotLive
    <3>3. \A t \in Threads : /\ ReturnDropped(t)' = ReturnDropped(t)
                             /\ ClearAlone(t)' = ClearAlone(t)
      BY DEF ReturnDropped, ClearAlone, NotLive
    <3>4. \A r \in Readers : HolderKeeps(r)' = HolderKeeps(r)
      BY DEF HolderKeeps
    <3>5. \A o \in Objs : PooledOnce(o)' = PooledOnce(o) /\ Cared(o)' = Cared(o)
      BY DEF PooledOnce, Cared, Responsible, NotLive
    <3> QED BY <2>1, <2>2, <3>1, <3>2, <3>3, <3>4, <3>5, Zenon DEF Inv
  <2>4. CASE Next
    BY <2>1, <2>2, <2>4, NewGetInv, NewInitInv, RecycleStartInv, RecycleMarkInv,
       RecycleRefsInv, AcquireInv, ReleaseGenInv, ReleaseRefInv, ReleaseRecycledInv,
       ReturnCheckInv, ReturnCASInv, ReturnClearInv
       DEF Next, WriterStep, ReaderStep, ReturnStep
  <2> QED BY <2>3, <2>4
<1> QED BY <1>1, <1>2, PTL DEF Spec

\* channel.go:77-80: outside the known windows no order of recycleChannel and
\* the Releases, of any number of readers and shards, clears or reuses a
\* channel under a reader.
THEOREM ReaderKeepsItsChannelHolds == Spec => []ReaderKeepsItsChannel
<1>1. IInv => ReaderKeepsItsChannel
  BY DEF IInv, Inv, HolderKeeps, ReaderKeepsItsChannel, ReadersComplete
<1> QED BY <1>1, Invariance, PTL

\* channel.go:58-70, 79-80, 95-99, 128-133: outside the known windows a channel
\* in a shard map is nobody else's, and no object is in the pool twice.
THEOREM LiveChannelIsOwnedHolds == Spec => []LiveChannelIsOwned
<1>1. IInv => LiveChannelIsOwned
  BY DEF IInv, Inv, LiveIntact, PooledOnce, LiveChannelIsOwned
<1> QED BY <1>1, Invariance, PTL

\* channel.go:86-93, 134-139: outside the known windows recycleChannel and the
\* last Release never both decline.
THEOREM NoLeakHolds == Spec => []NoLeak
<1>1. IInv => NoLeak
  <2> SUFFICES ASSUME IInv, ~Known, \A t \in Threads : At(t, "idle"),
                      NEW o \in Objs, obj[o].gen > 0, \A s \in Shards : chan[s] # o
               PROVE  inPool[o] >= 1
    BY DEF NoLeak
  <2>1. inPool[o] \in Nat
    BY DEF IInv, Types, ObjTypes
  <2>2. Cared(o) /\ NotLive(o)
    BY DEF IInv, Inv, NotLive
  <2>3. \A t \in Threads : ~Responsible(t)
    BY DEF At, Responsible, Holding
  <2> QED BY <2>1, <2>2, <2>3 DEF Cared
<1> QED BY <1>1, Invariance, PTL
=============================================================================
