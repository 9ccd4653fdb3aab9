------------------------------ MODULE FanoutPool ------------------------------
(***************************************************************************)
(* The engine's parallel fan-out (src/internal/engine/fanout.go): a        *)
(* publish cuts its subscriber list into chunks, hands all but the first   *)
(* to a pool of workers over a bounded channel, delivers the first itself, *)
(* waits for the others and adds the results up, while the pool may be     *)
(* stopped.                                                                *)
(*                                                                         *)
(* Subscribers are the numbers 1..n of a publish's list.  A task is the    *)
(* part next..last of a list that a goroutine still has to deliver, with   *)
(* what it counted so far.  A delivery's outcome, ok, is the session's:    *)
(* its queue has room or not.                                              *)
(***************************************************************************)
EXTENDS Integers, Sequences, FiniteSets, FiniteSetsExt

CONSTANTS
  Pubs,         \* goroutines that publish
  PoolWorkers,  \* the pool's goroutines
  JobsCap,      \* capacity of jobs
  Threshold,    \* fanoutThreshold
  ListSizes,    \* lengths of the subscriber lists
  MaxFanouts    \* bound: publishes

ASSUME FanoutAssumption ==
  /\ IsFiniteSet(PoolWorkers) /\ Cardinality(PoolWorkers) > 1
  /\ JobsCap \in Nat \ {0} /\ Threshold \in Nat \ {0}
  /\ ListSizes \subseteq Nat \ {0} /\ MaxFanouts \in Nat

VARIABLES
  pub,      \* the publish of each publisher
  jobs,     \* p.jobs
  jobsShut, \* was it closed?
  pool,     \* each worker: its job, or idle or gone
  halt,     \* how far fanoutPool.stop got
  fanouts,  \* publishes begun
  crashed   \* ghost: a send on the closed channel, or an index out of range?

vars == <<pub, jobs, jobsShut, pool, halt, fanouts, crashed>>

NWorkers == Cardinality(PoolWorkers)

Task(p, i, next, last) ==
  [pub |-> p, chunk |-> i, next |-> next, last |-> last, delivered |-> 0, dropped |-> 0]
NoPub  == "none"
NoTask == Task(NoPub, 0, 1, 0)
NoResult == [delivered |-> 0, dropped |-> 0]

IdlePublish ==
  [pc |-> "idle", n |-> 0, exclude |-> 0, chunkSize |-> 0, chunks |-> 0,
   i |-> 0, task |-> NoTask, open |-> 0, results |-> <<>>, handed |-> <<>>]

Init ==
  /\ pub = [p \in Pubs |-> IdlePublish]
  /\ jobs = <<>> /\ jobsShut = FALSE
  /\ pool = [w \in PoolWorkers |-> [pc |-> "idle", task |-> NoTask]]
  /\ halt = "no" /\ fanouts = 0 /\ crashed = FALSE

-----------------------------------------------------------------------------
\* The arithmetic of the chunks.

ChunkSize(n)       == (n + NWorkers - 1) \div NWorkers
NumChunks(n, size) == (n + size - 1) \div size

\* Chunk i, from 0, of publish r by p.
Chunk(p, r, i) == Task(p, i, i * r.chunkSize + 1, Min({(i + 1) * r.chunkSize, r.n}))

-----------------------------------------------------------------------------
\* Publish and parallelFanout.

\* The loop over chunks 1 and up goes on; after the last of them the caller
\* has chunk 0.
Dispatching(p, r, i) ==
  IF i < r.chunks THEN [r EXCEPT !.pc = "dispatch", !.i = i, !.task = NoTask]
  ELSE [r EXCEPT !.pc = "own", !.i = i, !.task = Chunk(p, r, 0)]

\* A list below the threshold is one chunk, the publisher's own.  The pooled
\* results have a slot per worker: more chunks than that would be a panic.
Begin(p, n, exclude) ==
  LET size   == IF n >= Threshold THEN ChunkSize(n) ELSE n
      chunks == IF n >= Threshold THEN NumChunks(n, size) ELSE 1
      begun  == [IdlePublish EXCEPT !.n = n,
                   !.exclude = exclude, !.chunkSize = size, !.chunks = chunks,
                   !.results = [c \in 0 .. chunks - 1 |-> NoResult],
                   !.handed = [s \in 1 .. n |-> <<>>]]
  IN  /\ pub[p].pc = "idle"
      /\ fanouts < MaxFanouts
      /\ fanouts' = fanouts + 1
      /\ pub' = [pub EXCEPT ![p] = Dispatching(p, begun, 1)]
      /\ crashed' = (crashed \/ chunks > NWorkers)
      /\ UNCHANGED <<jobs, jobsShut, pool, halt>>

\* stop waits for the write lock: no new reader gets in.
LockWanted == halt = "lock"

\* submit takes the read lock; a stopped pool refuses and the chunk is
\* delivered inline.
Submit(p) ==
  /\ pub[p].pc = "dispatch"
  /\ ~LockWanted
  /\ pub' = [pub EXCEPT ![p].open = @ + 1,
                        ![p].pc = IF halt = "no" THEN "send" ELSE "inline",
                        ![p].task = IF halt = "no" THEN NoTask ELSE Chunk(p, pub[p], pub[p].i)]
  /\ UNCHANGED <<jobs, jobsShut, pool, halt, fanouts, crashed>>

\* submit's send, with the read lock held.
SubmitSend(p) ==
  /\ pub[p].pc = "send"
  /\ jobsShut \/ Len(jobs) < JobsCap
  /\ IF jobsShut THEN crashed' = TRUE /\ UNCHANGED jobs
     ELSE jobs' = Append(jobs, Chunk(p, pub[p], pub[p].i)) /\ UNCHANGED crashed
  /\ pub' = [pub EXCEPT ![p] = Dispatching(p, @, @.i + 1)]
  /\ UNCHANGED <<jobsShut, pool, halt, fanouts>>

\* One subscriber of a task: deliver returned ok; exclude is passed over.
Skips(t)         == pub[t.pub].exclude = t.next
Stepped(t, ok)   ==
  [t EXCEPT !.next = @ + 1,
            !.delivered = IF ~Skips(t) /\ ok THEN @ + 1 ELSE @,
            !.dropped   = IF ~Skips(t) /\ ~ok THEN @ + 1 ELSE @]
Handed(t, ok) == IF Skips(t) THEN pub[t.pub].handed
                 ELSE [pub[t.pub].handed EXCEPT ![t.next] = Append(@, ok)]

PubDeliver(p, ok) ==
  /\ pub[p].pc \in {"own", "inline"}
  /\ pub[p].task.next <= pub[p].task.last
  /\ pub' = [pub EXCEPT ![p].task = Stepped(@, ok), ![p].handed = Handed(pub[p].task, ok)]
  /\ UNCHANGED <<jobs, jobsShut, pool, halt, fanouts, crashed>>

\* The counts of a finished task go to its slot of the results.
ResultOf(t) == [delivered |-> t.delivered, dropped |-> t.dropped]

PubDone(p) ==
  LET t == pub[p].task
      r == [pub[p] EXCEPT !.results[t.chunk] = ResultOf(t)]
  IN  /\ pub[p].pc \in {"own", "inline"}
      /\ t.next > t.last
      /\ pub' = [pub EXCEPT ![p] =
           IF r.pc = "own" THEN [r EXCEPT !.pc = "wait", !.task = NoTask]
           ELSE Dispatching(p, [r EXCEPT !.open = @ - 1], r.i + 1)]
      /\ UNCHANGED <<jobs, jobsShut, pool, halt, fanouts, crashed>>

\* wg.Wait, and the sums.
PubReturn(p) ==
  /\ pub[p].pc = "wait"
  /\ pub[p].open = 0
  /\ pub' = [pub EXCEPT ![p] = IdlePublish]
  /\ UNCHANGED <<jobs, jobsShut, pool, halt, fanouts, crashed>>

-----------------------------------------------------------------------------
\* worker and stop.

\* The workers are interchangeable: the first idle one takes the job.
WorkerTake(w) ==
  /\ pool[w].pc = "idle"
  /\ w = CHOOSE v \in PoolWorkers : pool[v].pc = "idle"
  /\ jobs # <<>>
  /\ pool' = [pool EXCEPT ![w] = [pc |-> "run", task |-> Head(jobs)]]
  /\ jobs' = Tail(jobs)
  /\ UNCHANGED <<pub, jobsShut, halt, fanouts, crashed>>

WorkerDeliver(w, ok) ==
  /\ pool[w].pc = "run"
  /\ pool[w].task.next <= pool[w].task.last
  /\ pool' = [pool EXCEPT ![w].task = Stepped(@, ok)]
  /\ pub' = [pub EXCEPT ![pool[w].task.pub].handed = Handed(pool[w].task, ok)]
  /\ UNCHANGED <<jobs, jobsShut, halt, fanouts, crashed>>

WorkerDone(w) ==
  /\ pool[w].pc = "run"
  /\ pool[w].task.next > pool[w].task.last
  /\ pub' = [pub EXCEPT
       ![pool[w].task.pub].results[pool[w].task.chunk] = ResultOf(pool[w].task),
       ![pool[w].task.pub].open = @ - 1]
  /\ pool' = [pool EXCEPT ![w] = [pc |-> "idle", task |-> NoTask]]
  /\ UNCHANGED <<jobs, jobsShut, halt, fanouts, crashed>>

\* A worker that leaves as soon as the channel is closed.
WorkerExitEarly(w) ==
  /\ pool[w].pc = "idle"
  /\ jobsShut
  /\ pool' = [pool EXCEPT ![w].pc = "gone"]
  /\ UNCHANGED <<pub, jobs, jobsShut, halt, fanouts, crashed>>

\* The range over jobs ends when it is closed and drained.
WorkerExit(w) ==
  /\ pool[w].pc = "idle"
  /\ jobsShut /\ jobs = <<>>
  /\ pool' = [pool EXCEPT ![w].pc = "gone"]
  /\ UNCHANGED <<pub, jobs, jobsShut, halt, fanouts, crashed>>

HaltTo(from, to) ==
  /\ halt = from
  /\ halt' = to
  /\ UNCHANGED <<pub, jobs, pool, fanouts, crashed>>

\* Engine.Stop calls stop, which waits for the write lock,
HaltBegin == HaltTo("no", "lock") /\ UNCHANGED jobsShut

\* A stop that does not take the lock.
HaltSetUnlocked == HaltTo("lock", "stopped") /\ UNCHANGED jobsShut

\* ... sets stopped when no submit is in its send,
HaltSet ==
  /\ \A p \in Pubs : pub[p].pc # "send"
  /\ HaltTo("lock", "stopped")
  /\ UNCHANGED jobsShut

\* ... closes jobs,
HaltClose == HaltTo("stopped", "closed") /\ jobsShut' = TRUE

\* ... and waits for the workers.
HaltWait ==
  /\ \A w \in PoolWorkers : pool[w].pc = "gone"
  /\ HaltTo("closed", "done")
  /\ UNCHANGED jobsShut

-----------------------------------------------------------------------------
PubStep(p) ==
  \/ Submit(p) \/ SubmitSend(p) \/ PubDone(p) \/ PubReturn(p)
  \/ \E ok \in BOOLEAN : PubDeliver(p, ok)

WorkerStep(w) ==
  \/ WorkerTake(w) \/ WorkerDone(w) \/ WorkerExit(w)
  \/ \E ok \in BOOLEAN : WorkerDeliver(w, ok)

HaltStep == HaltSet \/ HaltClose \/ HaltWait

Next ==
  \/ \E p \in Pubs, n \in ListSizes, x \in {0, 1} : Begin(p, n, x)
  \/ \E p \in Pubs : PubStep(p)
  \/ \E w \in PoolWorkers : WorkerStep(w)
  \/ HaltBegin \/ HaltStep

\* Goroutines run; nobody has to publish or to stop the engine.
Fairness ==
  /\ \A p \in Pubs : WF_vars(PubStep(p))
  /\ WF_vars(\E w \in PoolWorkers : WorkerStep(w))
  /\ WF_vars(HaltStep)

Spec     == Init /\ [][Next]_vars
FairSpec == Spec /\ Fairness

-----------------------------------------------------------------------------
\* A publish that returns handed the message exactly once to every subscriber
\* of its list but the excluded one, whichever goroutine had the chunk and
\* although the pool stopped meanwhile, and it reports as delivered and dropped
\* exactly those that took it and those that did not; no job is sent on the
\* closed channel and no chunk lacks its slot in the results
\* (fanout.go:70-121, 136-212).
FanoutExact ==
  /\ ~crashed
  /\ \A p \in Pubs : pub[p].pc = "wait" /\ pub[p].open = 0 =>
       LET r == pub[p]
           Took(ok) == { s \in 1 .. r.n : r.handed[s] = <<ok>> }
           Total(f) == MapThenSumSet(LAMBDA c : r.results[c][f], DOMAIN r.results)
       IN  /\ Took(TRUE) \union Took(FALSE) = (1 .. r.n) \ {r.exclude}
           /\ r.exclude # 0 => r.handed[r.exclude] = <<>>
           /\ Total("delivered") = Cardinality(Took(TRUE))
           /\ Total("dropped")   = Cardinality(Took(FALSE))

\* A publish returns and a stop ends although they run into one another, with
\* jobs full and the submit's read lock held: "Buffered jobs are executed, not
\* dropped, so callers blocked on wg.Wait get accurate delivery counts"
\* (fanout.go:106-108).
PublishReturns ==
  /\ \A p \in Pubs : pub[p].pc # "idle" ~> pub[p].pc = "idle"
  /\ halt # "no" ~> halt = "done"
=============================================================================
