--------------------------- MODULE EngineRegistry ---------------------------
(***************************************************************************)
(* The engine's registries (src/internal/engine): channels and their       *)
(* subscriber lists, the reverse index of a subscriber's channels, the     *)
(* wildcard subscriptions with their snapshot and match cache, and the     *)
(* counters.  Subscribers change them, publishers read them without locks, *)
(* the history sweeper reaps what is drained.                              *)
(*                                                                         *)
(* Every channel has its own shard.  A step is one critical section of the *)
(* shard lock, of the pattern registry or of the index, or one atomic load *)
(* or store that others see without the lock: a priority channel's list    *)
(* and its cohort are stored one after the other while the lock is held.   *)
(* Calls for one subscriber are serial, as the engine demands of its       *)
(* transports (engine.go:155-161); everything else races.                  *)
(***************************************************************************)
EXTENDS Names, Integers, FiniteSets, FiniteSetsExt

CONSTANTS
  Ids,      \* subscribers
  Pubs,     \* publishing goroutines
  Chans,    \* channel names
  Pats,     \* patterns
  Ranks,    \* consumer ranks
  Scoped,   \* does the engine run with a namespace registry?
  MaxOps,   \* bound: subscriber calls
  MaxPubs   \* bound: publishes

ASSUME RegistryAssumption ==
  /\ IsFiniteSet(Ids) /\ Ranks \subseteq Nat
  /\ Scoped \in BOOLEAN /\ MaxOps \in Nat /\ MaxPubs \in Nat
  /\ ~Scoped => (Namespaces = <<>> /\ Default.wild /\ ~Strict)

VARIABLES
  chans,        \* registered name -> channel
  index,        \* subscriber -> its channels
  pats,         \* subscriber -> its patterns
  snap,         \* generation of the pattern snapshot
  cache,        \* channel -> cached match, valid for its generation
  patternSubs,  \* Engine.patternSubs
  subCount,     \* Engine.subscriptionCount
  op,           \* the call of each subscriber
  pub,          \* the Publish of each publisher
  drained,      \* channels the sweeper found reapable
  budget,       \* calls and publishes that may still start
  skipped,      \* ghost: did a publish miss whom it must reach or find a stranger?
  shared        \* ghost: did an exclusive channel reach a wildcard subscriber?

ghosts == <<skipped, shared>>
vars == <<chans, index, pats, snap, cache, patternSubs, subCount, op, pub, drained,
          budget, skipped, shared>>

NoCache == [gen |-> 0, ids |-> {}]
IdleOp  == [pc |-> "idle", ch |-> <<>>, todo |-> {}, n |-> 0]
IdlePub == [pc |-> "idle", ch |-> <<>>, held |-> FALSE, exact |-> <<>>, ids |-> {},
            gen |-> 0, steadyExact |-> {}, steadyTop |-> {}, steadyPat |-> {},
            present |-> {}]
NewChannel == [subs |-> <<>>, prios |-> <<>>, ranked |-> FALSE, cohort |-> {},
               items |-> FALSE, idle |-> FALSE]

Put(f, k, v) == [x \in DOMAIN f \union {k} |-> IF x = k THEN v ELSE f[x]]
Drop(f, k)   == [x \in DOMAIN f \ {k} |-> f[x]]

Init ==
  /\ chans = <<>>
  /\ index = [i \in Ids |-> {}]
  /\ pats = [i \in Ids |-> {}]
  /\ snap = 1
  /\ cache = [c \in Chans |-> NoCache]
  /\ patternSubs = 0 /\ subCount = 0
  /\ op = [i \in Ids |-> IdleOp]
  /\ pub = [p \in Pubs |-> IdlePub]
  /\ drained = {}
  /\ budget = [ops |-> MaxOps, pubs |-> MaxPubs]
  /\ skipped = FALSE /\ shared = FALSE

Registered == DOMAIN chans
Exact(c) == IF c \in Registered THEN ToSet(chans[c].subs) ELSE {}

\* A call of subscriber i may start.
Starts(i) ==
  /\ op[i].pc = "idle"
  /\ budget.ops > 0
  /\ budget' = [budget EXCEPT !.ops = @ - 1]

Goto(i, pc) == op' = [op EXCEPT ![i].pc = pc]
Return(i)   == op' = [op EXCEPT ![i] = IdleOp]

-----------------------------------------------------------------------------
\* Channel: the subscriber list and the cohort of the highest rank.

TopCohort(prios) == { i \in DOMAIN prios : \A j \in DOMAIN prios : prios[j] <= prios[i] }

Prioritized(c) == Resolve(c).fanout = "priority"

\* Channel.Subscribe and Channel.Unsubscribe.
Joined(ch, i) == [ch EXCEPT !.subs = Append(@, i)]
Left(ch, i)   == [ch EXCEPT !.subs = SelectSeq(@, LAMBDA j : j # i)]

\* setPriority and clearPriority, a store of their own.
Reranked(ch, prios) == [ch EXCEPT !.prios = prios, !.ranked = TRUE, !.cohort = TopCohort(prios)]

\* A call between the two stores holds the lock of channel c's shard.
Locked(c) == \E i \in Ids : op[i].pc \in {"rank", "unrank", "unrankAll"} /\ op[i].ch = c

\* Ghosts of the publishers of channel c, when subscriber i was listed, when
\* somebody of the given rank was ranked, ...
PubsJoined(c, i) ==
  [p \in Pubs |-> IF pub[p].ch = c /\ pub[p].held
                  THEN [pub[p] EXCEPT !.present = @ \union {i}] ELSE pub[p]]
PubsRanked(c, rank) ==
  [p \in Pubs |-> IF pub[p].ch = c
                  THEN [pub[p] EXCEPT !.steadyTop = { j \in @ : chans[c].prios[j] >= rank }]
                  ELSE pub[p]]

\* ... and after c lost a subscriber and, if gone, its registration: a
\* publisher keeps the object it acquired, whose list is empty for good.
PubsAfter(c, gone, leaver) ==
  [p \in Pubs |->
     IF pub[p].ch # c THEN pub[p]
     ELSE [pub[p] EXCEPT !.held = @ /\ ~gone, !.steadyExact = @ \ leaver,
                         !.steadyTop = @ \ leaver]]

\* Subscriber i leaves c's list.
Delist(c, i) ==
  /\ chans' = [chans EXCEPT ![c] = Left(@, i)]
  /\ pub' = PubsAfter(c, FALSE, {i})

\* The end of the critical section, c being now ch: a channel that kept neither
\* a subscriber nor history is removed.
Vacate(c, ch, leaver) ==
  LET gone == ch.subs = <<>> /\ ~Resolve(c).hist
  IN  /\ chans' = IF gone THEN Drop(chans, c)
                  ELSE [chans EXCEPT ![c] =
                          [ch EXCEPT !.idle = @ /\ ch.subs # <<>>]]
      /\ pub' = PubsAfter(c, gone, leaver)

-----------------------------------------------------------------------------
\* Subscribe and Unsubscribe.  A refused call changes nothing.

\* SubscribePriority: the channel is found or created, and joined,
Subscribe(i, c, rank) ==
  LET ch == IF c \in Registered THEN chans[c] ELSE NewChannel
      s  == Resolve(c)
  IN  /\ Starts(i)
      /\ Known(c) /\ ~Locked(c)
      /\ s.maxSubs > 0 => Len(ch.subs) < s.maxSubs
      /\ i \notin ToSet(ch.subs)
      /\ chans' = Put(chans, c, Joined(ch, i))
      /\ pub' = PubsJoined(c, i)
      /\ op' = [op EXCEPT ![i] =
           IF Prioritized(c) THEN [IdleOp EXCEPT !.pc = "rank", !.ch = c, !.n = rank]
           ELSE [IdleOp EXCEPT !.pc = "index", !.ch = c]]
      /\ UNCHANGED <<index, pats, snap, cache, patternSubs, subCount, drained, ghosts>>

\* ... in a priority namespace ranked, still under the lock,
SubscribeRank(i) ==
  LET c    == op[i].ch
      rank == op[i].n
  IN  /\ op[i].pc = "rank"
      /\ chans' = [chans EXCEPT ![c] = Reranked(@, Put(@.prios, i, rank))]
      /\ pub' = PubsRanked(c, rank)
      /\ op' = [op EXCEPT ![i].pc = "index", ![i].n = 0]
      /\ UNCHANGED <<index, pats, snap, cache, patternSubs, subCount, drained, budget, ghosts>>

\* ... then subscriptions.Add and the count, outside the lock.
SubscribeIndex(i) ==
  /\ op[i].pc = "index"
  /\ index' = [index EXCEPT ![i] = @ \union {op[i].ch}]
  /\ subCount' = subCount + 1
  /\ Return(i)
  /\ UNCHANGED <<chans, pats, snap, cache, patternSubs, pub, drained, budget, ghosts>>

\* Unsubscribe: off the list, and in a priority namespace out of the cohort
\* with the next step, still under the lock.
Unsubscribe(i, c) ==
  /\ Starts(i)
  /\ i \in Exact(c) /\ ~Locked(c)
  /\ IF Prioritized(c) THEN Delist(c, i) ELSE Vacate(c, Left(chans[c], i), {i})
  /\ op' = [op EXCEPT ![i] = [IdleOp EXCEPT !.ch = c,
                                 !.pc = IF Prioritized(c) THEN "unrank" ELSE "unindex"]]
  /\ UNCHANGED <<index, pats, snap, cache, patternSubs, subCount, drained, ghosts>>

\* The second half of Unsubscribe's and of UnsubscribeAll's critical section.
Unrank(i) ==
  LET c   == op[i].ch
      all == op[i].pc = "unrankAll"
  IN  /\ op[i].pc \in {"unrank", "unrankAll"}
      /\ Vacate(c, Reranked(chans[c], Drop(chans[c].prios, i)), {})
      /\ subCount' = IF all THEN subCount - 1 ELSE subCount
      /\ op' = [op EXCEPT ![i].pc = IF all THEN "all" ELSE "unindex",
                          ![i].ch = IF all THEN <<>> ELSE c]
      /\ UNCHANGED <<index, pats, snap, cache, patternSubs, drained, budget, ghosts>>

UnsubscribeIndex(i) ==
  /\ op[i].pc = "unindex"
  /\ index' = [index EXCEPT ![i] = @ \ {op[i].ch}]
  /\ subCount' = subCount - 1
  /\ Return(i)
  /\ UNCHANGED <<chans, pats, snap, cache, patternSubs, pub, drained, budget, ghosts>>

\* UnsubscribeAll: the subscriber's channels are copied from the index,
UnsubscribeAll(i) ==
  /\ Starts(i)
  /\ op' = [op EXCEPT ![i] = [IdleOp EXCEPT !.pc = "all", !.todo = index[i]]]
  /\ UNCHANGED <<chans, index, pats, snap, cache, patternSubs, subCount, pub, drained, ghosts>>

\* ... left one by one,
LeaveOne(i, c) ==
  /\ op[i].pc = "all" /\ c \in op[i].todo /\ ~Locked(c)
  /\ IF Prioritized(c) /\ i \in Exact(c)
     THEN /\ Delist(c, i)
          /\ op' = [op EXCEPT ![i].todo = @ \ {c}, ![i].pc = "unrankAll", ![i].ch = c]
          /\ UNCHANGED subCount
     ELSE /\ IF c \in Registered THEN Vacate(c, Left(chans[c], i), {i})
             ELSE UNCHANGED <<chans, pub>>
          /\ op' = [op EXCEPT ![i].todo = @ \ {c}]
          /\ subCount' = IF i \in Exact(c) THEN subCount - 1 ELSE subCount
  /\ UNCHANGED <<index, pats, snap, cache, patternSubs, drained, budget, ghosts>>

\* ... and forgotten.
RemoveAll(i) ==
  /\ op[i].pc = "all" /\ op[i].todo = {}
  /\ index' = [index EXCEPT ![i] = {}]
  /\ Goto(i, "patterns")
  /\ UNCHANGED <<chans, pats, snap, cache, patternSubs, subCount, pub, drained, budget, ghosts>>

-----------------------------------------------------------------------------
\* Wildcard subscriptions.

\* A new snapshot of the patterns, and empty caches.
Publish(new) ==
  /\ pats' = new
  /\ snap' = snap + 1
  /\ cache' = [c \in Chans |-> NoCache]

\* The publishers after subscriber i gave up a pattern.
WithoutPattern(i) == [p \in Pubs |-> [pub[p] EXCEPT !.steadyPat = @ \ {i}]]

\* SubscribePattern: the prefix must be literal and its namespace willing.
SubscribePattern(i, pat) ==
  /\ Starts(i)
  /\ Scoped => ~IsPattern(Prefix(pat)) /\ Known(pat) /\ Resolve(pat).wild
  /\ pat \notin pats[i]
  /\ Publish([pats EXCEPT ![i] = @ \union {pat}])
  /\ Goto(i, "count")
  /\ UNCHANGED <<chans, index, patternSubs, subCount, pub, drained, ghosts>>

CountPattern(i) ==
  /\ op[i].pc = "count"
  /\ patternSubs' = patternSubs + 1
  /\ subCount' = subCount + 1
  /\ Return(i)
  /\ UNCHANGED <<chans, index, pats, snap, cache, pub, drained, budget, ghosts>>

\* The caches are cleared, but the snapshot keeps its generation.
UnsubscribePatternSameGen(i, pat) ==
  /\ Starts(i)
  /\ pat \in pats[i]
  /\ pats' = [pats EXCEPT ![i] = @ \ {pat}]
  /\ cache' = [c \in Chans |-> NoCache]
  /\ pub' = WithoutPattern(i)
  /\ op' = [op EXCEPT ![i] = [IdleOp EXCEPT !.pc = "uncount", !.n = 1]]
  /\ UNCHANGED <<chans, index, snap, patternSubs, subCount, drained, ghosts>>

UnsubscribePattern(i, pat) ==
  /\ Starts(i)
  /\ pat \in pats[i]
  /\ Publish([pats EXCEPT ![i] = @ \ {pat}])
  /\ pub' = WithoutPattern(i)
  /\ op' = [op EXCEPT ![i] = [IdleOp EXCEPT !.pc = "uncount", !.n = 1]]
  /\ UNCHANGED <<chans, index, patternSubs, subCount, drained, ghosts>>

\* patternRegistry.removeAll, at the end of UnsubscribeAll.
RemovePatterns(i) ==
  LET n == Cardinality(pats[i])
  IN  /\ op[i].pc = "patterns"
      /\ IF n = 0
         THEN Return(i) /\ UNCHANGED <<pats, snap, cache, pub>>
         ELSE /\ Publish([pats EXCEPT ![i] = {}])
              /\ pub' = WithoutPattern(i)
              /\ op' = [op EXCEPT ![i].pc = "uncount", ![i].n = n]
      /\ UNCHANGED <<chans, index, patternSubs, subCount, drained, budget, ghosts>>

\* The counters; whoever takes the last pattern away reaps.
UncountPatterns(i) ==
  /\ op[i].pc = "uncount"
  /\ subCount' = subCount - op[i].n
  /\ patternSubs' = patternSubs - op[i].n
  /\ op' = [op EXCEPT ![i] =
       IF patternSubs' = 0 THEN [IdleOp EXCEPT !.pc = "reap", !.todo = Chans] ELSE IdleOp]
  /\ UNCHANGED <<chans, index, pats, snap, cache, pub, drained, budget, ghosts>>

\* Nobody subscribes and nothing is retained.
Empty(c) == c \in Registered /\ chans[c].subs = <<>> /\ ~Resolve(c).hist

\* reapEmptyChannels and dropDrainedChannel: an empty channel goes.
DropIfEmpty(c) ==
  IF Empty(c) THEN chans' = Drop(chans, c) /\ pub' = PubsAfter(c, TRUE, {})
  ELSE UNCHANGED <<chans, pub>>

\* reapEmptyChannels, shard by shard.
ReapEmpty(i) ==
  /\ op[i].pc = "reap"
  /\ IF op[i].todo = {}
     THEN Return(i) /\ UNCHANGED <<chans, pub>>
     ELSE \E c \in op[i].todo :
            ~Locked(c) /\ DropIfEmpty(c) /\ op' = [op EXCEPT ![i].todo = @ \ {c}]
  /\ UNCHANGED <<index, pats, snap, cache, patternSubs, subCount, drained, budget, ghosts>>

-----------------------------------------------------------------------------
\* Publish.

\* patternRegistry confines a pattern to its own namespace.
Matches(pat, c) == (Scoped => Prefix(pat) = Prefix(c)) /\ Match(pat, c)

Matching(c) == { i \in Ids : \E pat \in pats[i] : Matches(pat, c) }

\* Ghost: the subscribers of a priority channel whom nobody outranks.
Leading(c) ==
  { i \in Exact(c) : /\ Prioritized(c)
                     /\ \A j \in Exact(c) : chans[c].prios[j] <= chans[c].prios[i] }

\* The channel is looked up and acquired.  CheckPublish has admitted it.
PubLookup(p, c) ==
  /\ pub[p].pc = "idle"
  /\ budget.pubs > 0
  /\ Known(c) /\ Resolve(c).publish /\ ~Locked(c)
  /\ budget' = [budget EXCEPT !.pubs = @ - 1]
  /\ pub' = [pub EXCEPT ![p] =
       [IdlePub EXCEPT !.pc = IF c \in Registered THEN "append" ELSE "peek",
                       !.ch = c, !.held = c \in Registered,
                       !.steadyExact = Exact(c), !.present = Exact(c),
                       !.steadyTop = Leading(c),
                       !.steadyPat = { i \in Matching(c) : op[i].pc # "count" }]]
  /\ UNCHANGED <<chans, index, pats, snap, cache, patternSubs, subCount, op, drained, ghosts>>

\* A publish ends: exact subscribers reached, wildcard subscribers reached.
Finish(p, exact, wild) ==
  LET c      == pub[p].ch
      mode   == Resolve(c).fanout
      missed == \/ ~(pub[p].steadyPat \subseteq exact \union wild)
                \/ mode = "broadcast" /\ ~(pub[p].steadyExact \subseteq exact)
                \/ ~(pub[p].steadyTop \subseteq exact)
                \/ pub[p].steadyExact # {} /\ exact = {}
                \/ ~(exact \subseteq pub[p].present)
  IN  /\ skipped' = (skipped \/ missed)
      /\ shared' = (shared \/ (mode # "broadcast" /\ wild # {}))
      /\ pub' = [pub EXCEPT ![p] = IdlePub]

\* No channel: is anybody subscribed by a pattern?
PubPeek(p) ==
  /\ pub[p].pc = "peek"
  /\ IF patternSubs # 0
     THEN pub' = [pub EXCEPT ![p].pc = "match"] /\ UNCHANGED ghosts
     ELSE Finish(p, {}, {})
  /\ UNCHANGED <<chans, index, pats, snap, cache, patternSubs, subCount, op, drained, budget>>

\* subscribersFor: the snapshot is loaded (gen = 0: it has no entry) ...
PubSnapshot(p) ==
  /\ pub[p].pc \in {"match", "match2"}
  /\ pub' = [pub EXCEPT ![p].pc = IF @ = "match" THEN "cache" ELSE "cache2",
                        ![p].gen = IF \E i \in Ids : pats[i] # {} THEN snap ELSE 0,
                        ![p].ids = Matching(pub[p].ch)]
  /\ UNCHANGED <<chans, index, pats, snap, cache, patternSubs, subCount, op, drained, budget, ghosts>>

\* Any cached match serves.
CachedAny(p) == cache[pub[p].ch].gen # 0

\* A cached match serves only the generation it was computed for.
Cached(p) == cache[pub[p].ch].gen = pub[p].gen

\* What follows the matches: a priority channel is asked for its cohort.
FanOut(c) == IF Prioritized(c) THEN "cohort" ELSE "deliver"

\* ... and the cache asked and filled, which may push out other entries.  A
\* publish without a channel ends here when nothing matches.
PubCache(p) ==
  LET c    == pub[p].ch
      none == pub[p].gen = 0
      ids  == IF ~none /\ Cached(p) THEN cache[c].ids ELSE pub[p].ids
  IN  /\ pub[p].pc \in {"cache", "cache2"}
      /\ IF none \/ Cached(p) THEN UNCHANGED cache
         ELSE \E out \in SUBSET (Chans \ {c}) :
                cache' = [d \in Chans |-> IF d = c THEN [gen |-> pub[p].gen, ids |-> ids]
                                         ELSE IF d \in out THEN NoCache ELSE cache[d]]
      /\ IF pub[p].pc = "cache" /\ ids = {}
         THEN Finish(p, {}, {})
         ELSE /\ pub' = [pub EXCEPT ![p].pc = IF @ = "cache" THEN "materialize" ELSE FanOut(c),
                                    ![p].ids = ids]
              /\ UNCHANGED ghosts
      /\ UNCHANGED <<chans, index, pats, snap, patternSubs, subCount, op, drained, budget>>

\* materializeChannel.
Materialize(p) ==
  LET c == pub[p].ch
  IN  /\ pub[p].pc = "materialize" /\ ~Locked(c)
      /\ chans' = IF c \in Registered THEN chans ELSE Put(chans, c, NewChannel)
      /\ pub' = [pub EXCEPT ![p].pc = "recheck", ![p].held = TRUE,
                               ![p].present = Exact(c)]
      /\ UNCHANGED <<index, pats, snap, cache, patternSubs, subCount, op, drained, budget, ghosts>>

\* The fresh channel is kept.
RecheckNever(p) ==
  /\ pub[p].pc = "recheck"
  /\ pub' = [pub EXCEPT ![p].pc = "append"]
  /\ UNCHANGED <<chans, index, pats, snap, cache, patternSubs, subCount, op, drained, budget, ghosts>>

\* Did the last pattern go meanwhile?
Recheck(p) ==
  /\ pub[p].pc = "recheck"
  /\ pub' = [pub EXCEPT ![p].pc = IF patternSubs = 0 THEN "drop" ELSE "append"]
  /\ UNCHANGED <<chans, index, pats, snap, cache, patternSubs, subCount, op, drained, budget, ghosts>>

\* dropDrainedChannel.
PubDrop(p) ==
  LET c == pub[p].ch
  IN  /\ pub[p].pc = "drop" /\ ~Locked(c)
      /\ IF Empty(c)
         THEN /\ chans' = Drop(chans, c)
              /\ pub' = [PubsAfter(c, TRUE, {}) EXCEPT ![p].pc = "append"]
         ELSE /\ pub' = [pub EXCEPT ![p].pc = "append"]
              /\ UNCHANGED chans
      /\ UNCHANGED <<index, pats, snap, cache, patternSubs, subCount, op, drained, budget, ghosts>>

\* The publication is appended, the list of subscribers loaded, then the
\* pattern counter: one step, because what comes between them could as well
\* come before or after.
PubAppend(p) ==
  LET c == pub[p].ch
  IN  /\ pub[p].pc = "append"
      /\ pub' = [pub EXCEPT ![p].exact = IF pub[p].held THEN chans[c].subs ELSE <<>>,
                            ![p].ids = {},
                            ![p].pc = IF patternSubs # 0 THEN "match2" ELSE FanOut(c)]
      /\ chans' = IF pub[p].held
                  THEN [chans EXCEPT ![c].items = Resolve(c).hist, ![c].idle = FALSE]
                  ELSE chans
      /\ UNCHANGED <<index, pats, snap, cache, patternSubs, subCount, op, drained, budget, ghosts>>

\* roundRobinDeliver: the candidates tried, from wherever the shared counter
\* points, until one takes the message.
Tried(subs, start, takers) ==
  LET n     == Len(subs)
      At(k) == subs[((start + k) % n) + 1]
  IN  { At(k) : k \in { l \in 0 .. n - 1 : \A e \in 0 .. l - 1 : At(e) \notin takers } }

\* A priority channel's cohort, once there is one, takes the place of the
\* list; it is loaded without the lock, and empty once the channel is gone.
PubCohort(p) ==
  LET c == pub[p].ch
  IN  /\ pub[p].pc = "cohort"
      /\ pub' = [pub EXCEPT ![p].pc = "deliver",
                            ![p].exact = IF ~pub[p].held THEN <<>>
                                         ELSE IF chans[c].ranked THEN SetToSeq(chans[c].cohort)
                                         ELSE @]
      /\ UNCHANGED <<chans, index, pats, snap, cache, patternSubs, subCount, op, drained, budget, ghosts>>

\* Whom the exact fan-out may reach.
Recipients(p) == ToSet(pub[p].exact)

\* The fan-out, then deliverPatterns for whoever is not among its candidates.
\* The publisher's own id, which both leave out, is not modelled.
PubDeliver(p) ==
  /\ pub[p].pc = "deliver"
  /\ IF Resolve(pub[p].ch).fanout = "roundRobin"
     THEN \E start \in 0 .. Len(pub[p].exact), takers \in SUBSET Ids :
            Finish(p, Tried(pub[p].exact, start, takers), pub[p].ids \ Recipients(p))
     ELSE Finish(p, Recipients(p), pub[p].ids \ Recipients(p))
  /\ UNCHANGED <<chans, index, pats, snap, cache, patternSubs, subCount, op, drained, budget>>

-----------------------------------------------------------------------------
\* runHistorySweeper, and the time it measures.

Reapable(c) ==
  /\ c \in Registered
  /\ chans[c].subs = <<>>
  /\ \/ Resolve(c).hist /\ ~chans[c].items
     \/ Resolve(c).idle /\ chans[c].idle

Pass(c) ==
  /\ c \in Registered
  /\ Resolve(c).idle /\ ~chans[c].idle
  /\ chans' = [chans EXCEPT ![c].idle = TRUE]
  /\ UNCHANGED <<index, pats, snap, cache, patternSubs, subCount, op, pub, drained, budget, ghosts>>

\* Expired entries are trimmed and drained channels noted, under the read lock.
SweepScan(c) ==
  /\ drained = {}
  /\ c \in Registered /\ ~Locked(c)
  /\ Resolve(c).ttl \/ Resolve(c).idle
  /\ \E expire \in BOOLEAN :
       /\ expire => Resolve(c).ttl
       /\ chans' = [chans EXCEPT ![c].items = @ /\ ~expire]
  /\ drained' = { d \in {c} : chans[d].subs = <<>> /\ (\/ Resolve(d).hist /\ ~chans'[d].items
                                                       \/ Resolve(d).idle /\ chans[d].idle) }
  /\ UNCHANGED <<index, pats, snap, cache, patternSubs, subCount, op, pub, budget, ghosts>>

\* ... and looked at again under the write lock.
SweepReap(c) ==
  /\ c \in drained /\ ~Locked(c)
  /\ drained' = drained \ {c}
  /\ IF Reapable(c)
     THEN chans' = Drop(chans, c) /\ pub' = PubsAfter(c, TRUE, {})
     ELSE UNCHANGED <<chans, pub>>
  /\ UNCHANGED <<index, pats, snap, cache, patternSubs, subCount, op, budget, ghosts>>

-----------------------------------------------------------------------------
SubscriberStep(i) ==
  \/ \E c \in Chans : Unsubscribe(i, c) \/ LeaveOne(i, c) \/ \E r \in Ranks : Subscribe(i, c, r)
  \/ SubscribeRank(i) \/ Unrank(i)
  \/ SubscribeIndex(i) \/ UnsubscribeIndex(i) \/ UnsubscribeAll(i) \/ RemoveAll(i)
  \/ \E pat \in Pats : SubscribePattern(i, pat) \/ UnsubscribePattern(i, pat)
  \/ CountPattern(i) \/ RemovePatterns(i) \/ UncountPatterns(i) \/ ReapEmpty(i)

PublisherStep(p) ==
  \/ \E c \in Chans : PubLookup(p, c)
  \/ PubPeek(p) \/ PubSnapshot(p) \/ PubCache(p) \/ Materialize(p) \/ Recheck(p) \/ PubDrop(p)
  \/ PubAppend(p) \/ PubCohort(p) \/ PubDeliver(p)

Next ==
  \/ \E i \in Ids : SubscriberStep(i)
  \/ \E p \in Pubs : PublisherStep(p)
  \/ \E c \in Chans : Pass(c) \/ SweepScan(c) \/ SweepReap(c)

Spec == Init /\ [][Next]_vars

-----------------------------------------------------------------------------
\* Every variable keeps its type; lists have no duplicates and respect
\* max_subscribers.
TypeOK ==
  /\ Registered \subseteq Chans
  /\ \A c \in Registered :
       LET ch == chans[c]
       IN  /\ ToSet(ch.subs) \subseteq Ids /\ IsInjective(ch.subs)
           /\ Resolve(c).maxSubs > 0 => Len(ch.subs) <= Resolve(c).maxSubs
           /\ ch.cohort \subseteq Ids /\ ch.items => Resolve(c).hist
  /\ index \in [Ids -> SUBSET Chans] /\ pats \in [Ids -> SUBSET Pats]
  /\ patternSubs \in Nat /\ subCount \in Nat
  /\ drained \subseteq Chans

Quiet(i) == op[i].pc = "idle"
AllQuiet == \A i \in Ids : Quiet(i)

\* The reverse index and the channels' lists, updated under different locks,
\* agree about every subscriber between its calls, and the counters agree
\* with both when all are between calls (engine.go:155-161, 169-202, 423-502):
\* no reap, materialization or concurrent churn strands a subscription that
\* UnsubscribeAll would not find.  Without patterns, a channel without history
\* is registered only as long as somebody subscribes to it (engine.go:241-279,
\* 525-536): the publish that materializes a channel and the unsubscribe that
\* takes the last pattern away never both leave the fresh channel to the other.
IndexAgrees ==
  /\ \A i \in Ids : Quiet(i) => index[i] = { c \in Chans : i \in Exact(c) }
  /\ AllQuiet =>
       /\ patternSubs = MapThenSumSet(LAMBDA i : Cardinality(pats[i]), Ids)
       /\ subCount = patternSubs + MapThenSumSet(LAMBDA i : Cardinality(index[i]), Ids)
  /\ (AllQuiet /\ patternSubs = 0 /\ \A p \in Pubs : pub[p].pc = "idle")
       => \A c \in Registered : ~Empty(c)

\* Whoever held one and the same subscription during a whole publish, exact in
\* a broadcast channel or by a pattern, is reached by it, whatever cached
\* matches, reaps and other subscribers did meanwhile (engine.go:504-640,
\* channel.go:207-252; pattern.go:30-31: "a reader racing a mutation can never
\* resurrect a stale result").  In a priority channel that is promised to whom
\* nobody subscribed during the publish outranks; the others, who are standby,
\* may go without, because a lock-free publisher still finds a leaver in the
\* cohort (engine.go:435-441, 580).  In every mode an exact subscriber who
\* stays keeps the fan-out from being empty, and nobody is reached who was not
\* subscribed at some moment of the publish.  A round-robin or priority
\* channel is never delivered to a wildcard subscriber (pattern.go:37-43,
\* namespace.go:131-133): its exclusivity survives patterns admitted by another
\* namespace.
PublishReaches == ~skipped /\ ~shared

\* "Lower cohorts are standby and take over on disconnect" (namespace.go:40-41):
\* while somebody stays subscribed, a priority publish reaches one who is still
\* there.
StandbyTakesOver ==
  [][ \A p \in Pubs :
        (/\ pub[p].pc = "deliver" /\ pub'[p].pc = "idle"
         /\ Prioritized(pub[p].ch) /\ pub[p].steadyExact # {})
        => Recipients(p) \intersect Exact(pub[p].ch) # {} ]_vars

\* A cached match of the current generation holds exactly the subscribers a
\* pattern of the channel's namespace stands for now, by the definition of a
\* star pattern (pattern.go:29-31, 119-124, 192-235): a reader that loaded the
\* snapshot before an unsubscribe and fills the cache after it was cleared
\* leaves no match behind that a later publish would deliver to.
CachedMatchIsExact ==
  \A c \in Chans :
    cache[c].gen = snap =>
      cache[c].ids = { i \in Ids : \E pat \in pats[i] :
                         (Scoped => Prefix(pat) = Prefix(c)) /\ Glob(pat, c) }
=============================================================================
