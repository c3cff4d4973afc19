------------------------- MODULE BatchProcessorProofs -------------------------
(***************************************************************************)
(* Theorems about BatchProcessor for any entries, batch size and circuit   *)
(* threshold: its types, that the breaker's state follows the failures,    *)
(* that no entry is lost, that the statistics balance, that an open        *)
(* breaker writes nothing, and that the chain it writes verifies clean.    *)
(***************************************************************************)
EXTENDS BatchProcessor, HashChainProofs

\* What the flush in progress has written of its batch is in the chain.
WrittenPrefix ==
    loop = "flush" => \A i \in 1 .. done : InChain(todo[i])

\* An open breaker runs no flush, and only a closed one replays the retry queue.
BreakerRuns ==
    /\ loop = "flush" => circuit_state # "open"
    /\ loop = "retry" => circuit_state = "closed"

\* The balance at every step: an entry of the flush in progress is not counted as
\* flushed before its batch is over.
Balance ==
    total_queued = total_flushed + Len(queue) + Len(retry_queue) + Len(todo)

\* The inductive invariant.
IInv ==
    /\ ChainTypeOK
    /\ BatchTypeOK
    /\ ChainLinked
    /\ BodiesKept
    /\ BreakerMatchesFailures
    /\ BreakerRuns
    /\ WrittenPrefix
    /\ EnqueuedIsHeld
    /\ Balance

-----------------------------------------------------------------------------
\* Membership and length of queues put together.

LEMMA Concatenation ==
    ASSUME NEW s \in Seq(Entry), NEW t \in Seq(Entry), NEW e \in Entry
    PROVE  /\ s \o t \in Seq(Entry)
           /\ Len(s \o t) = Len(s) + Len(t)
           /\ InSeq(e, s) \/ InSeq(e, t) => InSeq(e, s \o t)
<1>1. /\ s \o t \in Seq(Entry)
      /\ Len(s) \in Nat /\ Len(t) \in Nat
      /\ Len(s \o t) = Len(s) + Len(t)
      /\ DOMAIN (s \o t) = 1 .. Len(s) + Len(t)
      /\ DOMAIN s = 1 .. Len(s) /\ DOMAIN t = 1 .. Len(t)
      /\ \A i \in 1 .. Len(s) : (s \o t)[i] = s[i]
      /\ \A i \in 1 .. Len(t) : (s \o t)[Len(s) + i] = t[i]
  OBVIOUS
<1>2. ASSUME InSeq(e, s) PROVE InSeq(e, s \o t)
  <2>1. PICK i \in 1 .. Len(s) : s[i] = e
    BY <1>1, <1>2 DEF InSeq
  <2>2. i \in 1 .. Len(s) + Len(t) /\ (s \o t)[i] = e
    BY <1>1, <2>1
  <2> QED BY <1>1, <2>2 DEF InSeq
<1>3. ASSUME InSeq(e, t) PROVE InSeq(e, s \o t)
  <2>1. PICK i \in 1 .. Len(t) : t[i] = e
    BY <1>1, <1>3 DEF InSeq
  <2>2. Len(s) + i \in 1 .. Len(s) + Len(t) /\ (s \o t)[Len(s) + i] = e
    BY <1>1, <2>1
  <2> QED BY <1>1, <2>2 DEF InSeq
<1> QED BY <1>1, <1>2, <1>3

\* The empty queue.
LEMMA EmptyQueue == <<>> \in Seq(Entry) /\ Len(<<>>) = 0
OBVIOUS

\* The queues, and what is at work, hold an entry.
HeldIn(e) == InSeq(e, queue) \/ InSeq(e, todo) \/ InSeq(e, retry_queue)

\* The lengths of the queues.
LEMMA QueueFacts ==
    ASSUME BatchTypeOK
    PROVE  /\ queue \in Seq(Entry) /\ retry_queue \in Seq(Entry) /\ todo \in Seq(Entry)
           /\ Len(queue) \in Nat /\ Len(retry_queue) \in Nat /\ Len(todo) \in Nat
           /\ done \in Nat /\ failure_count \in Nat
           /\ total_queued \in Nat /\ total_flushed \in Nat
           /\ BatchSize \in Nat \ {0} /\ CircuitThreshold \in Nat \ {0}
           /\ loop = Idle => Len(todo) = 0 /\ done = 0
           /\ loop = "retry" => Len(todo) > 0 /\ todo # <<>>
           /\ loop = "flush" => Len(todo) > 0 /\ todo # <<>> /\ done < Len(todo)
           /\ loop = "flush" => Len(todo) <= BatchSize
BY BatchAssumption, EmptySeq DEF BatchTypeOK, Idle

-----------------------------------------------------------------------------
\* flush() up to its first entry.

\* What flush(pending) does, on its two paths.
LEMMA FlushShape ==
    ASSUME BatchTypeOK, loop = Idle, NEW pending \in Seq(Entry), Flush(pending)
    PROVE  /\ Len(pending) > 0
           /\ queue' = <<>>
           /\ UNCHANGED <<failure_count, recovery_due>>
           /\ \/ /\ circuit_state = "open" /\ ~recovery_due
                 /\ circuit_state' = circuit_state
                 /\ retry_queue' = retry_queue \o pending
                 /\ todo' = <<>> /\ done' = 0 /\ loop' = Idle
              \/ /\ circuit_state # "open" \/ recovery_due
                 /\ circuit_state' = IF circuit_state = "open" THEN "half_open" ELSE circuit_state
                 /\ retry_queue' = retry_queue
                 /\ todo' = pending /\ done' = 0 /\ loop' = "flush"
<1>1. Len(pending) > 0
  BY EmptySeq DEF Flush
<1>2. todo = <<>> /\ done = 0
  BY DEF BatchTypeOK, Idle
<1>3. CASE DivertToRetry(pending)
  BY <1>1, <1>2, <1>3 DEF DivertToRetry, circuitVars
<1>4. CASE BeginFlush(pending)
  BY <1>1, <1>4 DEF BeginFlush
<1> QED BY <1>3, <1>4 DEF Flush

LEMMA FlushTypes ==
    ASSUME BatchTypeOK, loop = Idle, NEW pending \in Seq(Entry), Len(pending) <= BatchSize,
           Flush(pending),
           batch_running' \in BOOLEAN, total_queued' \in Nat, total_flushed' \in Nat
    PROVE  BatchTypeOK'
<1>1. retry_queue \in Seq(Entry) /\ BatchSize \in Nat \ {0}
  BY QueueFacts
<1>2. retry_queue \o pending \in Seq(Entry)
  BY <1>1
<1>3. retry_queue' \in Seq(Entry) /\ todo' \in Seq(Entry) /\ done' = 0 /\ queue' = <<>>
      /\ loop' \in Loops
      /\ circuit_state' \in CircuitState /\ failure_count' \in Nat /\ recovery_due' \in BOOLEAN
  BY <1>1, <1>2, FlushShape, EmptyQueue DEF BatchTypeOK, Loops, CircuitState
<1>4. (loop' = Idle) <=> (todo' = <<>>)
  BY FlushShape, EmptySeq DEF Idle
<1>5. (loop' = "flush") => (done' < Len(todo') /\ Len(todo') <= BatchSize)
  BY FlushShape DEF Idle
<1>6. Len(queue') < BatchSize /\ queue' \in Seq(Entry)
  BY <1>1, <1>3, EmptyQueue
<1>7. done' \in Nat /\ ((loop' # "flush") => (done' = 0))
  BY <1>3
<1> QED BY <1>3, <1>4, <1>5, <1>6, <1>7 DEF BatchTypeOK

LEMMA FlushHeld ==
    ASSUME BatchTypeOK, loop = Idle, NEW pending \in Seq(Entry), Flush(pending), NEW e \in Entry,
           InSeq(e, pending) \/ InSeq(e, todo) \/ InSeq(e, retry_queue)
    PROVE  HeldIn(e)'
<1>1. ~InSeq(e, todo)
  BY InSeqEmpty DEF BatchTypeOK, Idle
<1>2. retry_queue \in Seq(Entry)
  BY QueueFacts
<1>3. InSeq(e, pending) \/ InSeq(e, retry_queue) => InSeq(e, retry_queue \o pending)
  BY <1>2, Concatenation
<1>4. InSeq(e, todo') \/ InSeq(e, retry_queue')
  BY <1>1, <1>3, FlushShape
<1> QED BY <1>4 DEF HeldIn, InSeq

LEMMA FlushBreaker ==
    ASSUME BatchTypeOK, loop = Idle, NEW pending \in Seq(Entry), Flush(pending),
           BreakerMatchesFailures
    PROVE  BreakerMatchesFailures' /\ BreakerRuns' /\ WrittenPrefix'
<1>1. done' = 0 /\ 1 .. 0 = {}
  BY FlushShape
<1>2. WrittenPrefix'
  BY <1>1 DEF WrittenPrefix
<1>3. circuit_state # "half_open"
  BY DEF BreakerMatchesFailures, Idle
<1>4. BreakerMatchesFailures'
  BY <1>3, FlushShape DEF BreakerMatchesFailures
<1>5. BreakerRuns'
  BY FlushShape DEF BreakerRuns, Idle
<1> QED BY <1>2, <1>4, <1>5

LEMMA FlushBalance ==
    ASSUME BatchTypeOK, loop = Idle, NEW pending \in Seq(Entry), Flush(pending)
    PROVE  Len(queue') + Len(retry_queue') + Len(todo') = Len(pending) + Len(retry_queue)
<1>1. retry_queue \in Seq(Entry)
  BY QueueFacts
<1>2. Len(retry_queue \o pending) = Len(retry_queue) + Len(pending)
      /\ Len(retry_queue) \in Nat /\ Len(pending) \in Nat
  BY <1>1
<1> QED BY <1>2, FlushShape, EmptyQueue

-----------------------------------------------------------------------------
\* The end of a batch.

LEMMA EndShape ==
    ASSUME NEW retrying \in Seq(Entry), EndOfBatch(retrying), circuit_state' \in {"closed", "open"}
    PROVE  /\ done' = 0
           /\ todo' \in Seq(Entry) /\ retry_queue' \in Seq(Entry)
           /\ \/ /\ circuit_state' = "closed" /\ Len(retrying) > 0
                 /\ todo' = retrying /\ retry_queue' = <<>> /\ loop' = "retry"
              \/ todo' = <<>> /\ retry_queue' = retrying /\ loop' = Idle
           /\ Len(todo') + Len(retry_queue') = Len(retrying)
           /\ \A e \in Entry : InSeq(e, retrying) => InSeq(e, todo') \/ InSeq(e, retry_queue')
<1>1. done' = 0
  BY DEF EndOfBatch
<1>2. \/ /\ circuit_state' = "closed" /\ Len(retrying) > 0
         /\ todo' = retrying /\ retry_queue' = <<>> /\ loop' = "retry"
      \/ todo' = <<>> /\ retry_queue' = retrying /\ loop' = Idle
  BY EmptySeq DEF EndOfBatch
<1>3. Len(retrying) \in Nat
  OBVIOUS
<1>4. CASE /\ circuit_state' = "closed" /\ Len(retrying) > 0
           /\ todo' = retrying /\ retry_queue' = <<>> /\ loop' = "retry"
  <2>1. Len(todo') + Len(retry_queue') = Len(retrying)
    BY <1>3, <1>4, EmptyQueue
  <2> QED BY <1>1, <1>4, <2>1, EmptyQueue
<1>5. CASE todo' = <<>> /\ retry_queue' = retrying /\ loop' = Idle
  <2>1. Len(todo') + Len(retry_queue') = Len(retrying)
    BY <1>3, <1>5, EmptyQueue
  <2> QED BY <1>1, <1>5, <2>1, EmptyQueue
<1> QED BY <1>2, <1>4, <1>5

LEMMA EndTypes ==
    ASSUME BatchTypeOK, loop = "flush", NEW retrying \in Seq(Entry), EndOfBatch(retrying),
           circuit_state' \in {"closed", "open"}, failure_count' \in Nat,
           recovery_due' \in BOOLEAN, total_flushed' \in Nat,
           UNCHANGED <<queue, batch_running, total_queued>>
    PROVE  BatchTypeOK'
<1>1. loop' \in {Idle, "retry"} /\ done' = 0
      /\ todo' \in Seq(Entry) /\ retry_queue' \in Seq(Entry)
  BY EndShape DEF Idle
<1>2. (loop' = Idle) <=> (todo' = <<>>)
  BY EndShape, EmptySeq DEF Idle
<1> QED BY <1>1, <1>2 DEF BatchTypeOK, Loops, CircuitState, Idle

-----------------------------------------------------------------------------
\* The chain under the processor's steps.

ChainInv ==
    /\ ChainTypeOK
    /\ ChainLinked
    /\ BodiesKept

LEMMA CreateChain ==
    ASSUME ChainInv, NEW e \in Entry, CreateChainEntry(e)
    PROVE  ChainInv'
BY CreateKeepsTypes, CreateKeepsLinked, CreateKeepsBodies DEF ChainInv

LEMMA SameChain ==
    ASSUME ChainInv, UNCHANGED <<entries, chain_state>>, status' \in [Entry -> EntryStatus]
    PROVE  ChainInv'
<1>1. StoredRecord' = StoredRecord /\ KnownHashes' = KnownHashes
  BY DEF StoredRecord, KnownHashes
<1>2. ChainTypeOK'
  BY <1>1 DEF ChainInv, ChainTypeOK
<1>3. ChainLinked' /\ BodiesKept'
  BY DEF ChainInv, ChainLinked, Recomputed, BodiesKept
<1> QED BY <1>2, <1>3 DEF ChainInv

\* What writing entry e means for the entries that must be held.
LEMMA CreateHeld ==
    ASSUME ChainTypeOK, EnqueuedIsHeld, NEW e \in Entry, CreateChainEntry(e),
           \A x \in Entry : HeldIn(x) /\ ~InChain(x) /\ x # e => HeldIn(x)'
    PROVE  EnqueuedIsHeld'
<1> SUFFICES ASSUME NEW x \in Entry, status'[x] # "new", ~InChain(x)'
             PROVE  HeldIn(x)'
  BY DEF EnqueuedIsHeld, HeldIn, InSeq
<1>1. x # e /\ ~InChain(x)
  BY CreateInChain
<1>2. status'[x] = status[x]
  BY <1>1 DEF CreateChainEntry, ChainTypeOK
<1> QED BY <1>1, <1>2 DEF EnqueuedIsHeld, HeldIn

\* The same when nothing is written.
LEMMA SameHeld ==
    ASSUME EnqueuedIsHeld, UNCHANGED entries,
           \A x \in Entry : /\ status'[x] # "new" /\ ~InChain(x)
                            /\ status[x] = "new" \/ HeldIn(x)
                            => HeldIn(x)'
    PROVE  EnqueuedIsHeld'
<1> SUFFICES ASSUME NEW x \in Entry, status'[x] # "new", ~InChain(x)'
             PROVE  HeldIn(x)'
  BY DEF EnqueuedIsHeld, HeldIn, InSeq
<1>1. ~InChain(x)
  BY DEF InChain
<1> QED BY <1>1 DEF EnqueuedIsHeld, HeldIn

-----------------------------------------------------------------------------
\* Each action keeps the invariant.

LEMMA StartInv ==
    ASSUME IInv, BatchStart
    PROVE  IInv'
<1>1. UNCHANGED <<entries, chain_state, status, loop, queue, retry_queue, todo, done,
                  circuit_state, failure_count, recovery_due, total_queued, total_flushed>>
      /\ batch_running' = TRUE
  BY DEF BatchStart, chainVars, circuitVars
<1>2. ChainInv'
  BY <1>1, SameChain DEF IInv, ChainInv, ChainTypeOK
<1>3. BatchTypeOK'
  BY <1>1 DEF IInv, BatchTypeOK
<1>4. EnqueuedIsHeld' /\ WrittenPrefix'
  BY <1>1 DEF IInv, EnqueuedIsHeld, WrittenPrefix, InChain, InSeq
<1>5. BreakerMatchesFailures' /\ BreakerRuns' /\ Balance'
  BY <1>1 DEF IInv, BreakerMatchesFailures, BreakerRuns, Balance
<1> QED BY <1>2, <1>3, <1>4, <1>5 DEF IInv, ChainInv

LEMMA RecoveryInv ==
    ASSUME IInv, RecoveryElapses
    PROVE  IInv'
<1>1. UNCHANGED <<entries, chain_state, status, loop, queue, retry_queue, todo, done,
                  circuit_state, failure_count, batch_running, total_queued, total_flushed>>
      /\ recovery_due' = TRUE
  BY DEF RecoveryElapses, chainVars
<1>2. ChainInv'
  BY <1>1, SameChain DEF IInv, ChainInv, ChainTypeOK
<1>3. BatchTypeOK'
  BY <1>1 DEF IInv, BatchTypeOK
<1>4. EnqueuedIsHeld' /\ WrittenPrefix'
  BY <1>1 DEF IInv, EnqueuedIsHeld, WrittenPrefix, InChain, InSeq
<1>5. BreakerMatchesFailures' /\ BreakerRuns' /\ Balance'
  BY <1>1 DEF IInv, BreakerMatchesFailures, BreakerRuns, Balance
<1> QED BY <1>2, <1>3, <1>4, <1>5 DEF IInv, ChainInv

\* flush() of the queue as it stands, by the flush loop or by stop().
LEMMA FlushQueueInv ==
    ASSUME IInv, loop = Idle, Flush(queue), batch_running' \in BOOLEAN,
           UNCHANGED <<chainVars, total_queued, total_flushed>>
    PROVE  IInv'
<1> USE DEF IInv
<1>1. UNCHANGED <<entries, chain_state, status, total_queued, total_flushed>>
  BY DEF chainVars
<1>2. ChainInv'
  BY <1>1, SameChain DEF ChainInv, ChainTypeOK
<1>3. Len(queue) <= BatchSize /\ queue \in Seq(Entry)
  BY QueueFacts DEF BatchTypeOK
<1>4. BatchTypeOK'
  BY <1>1, <1>3, FlushTypes, QueueFacts
<1>5. \A x \in Entry : HeldIn(x) => HeldIn(x)'
  BY <1>3, FlushHeld DEF HeldIn
<1>6. EnqueuedIsHeld'
  BY <1>1, <1>5, SameHeld
<1>7. BreakerMatchesFailures' /\ BreakerRuns' /\ WrittenPrefix'
  BY <1>3, FlushBreaker
<1>8. Balance'
  <2>1. /\ Len(queue') + Len(retry_queue') + Len(todo') = Len(queue) + Len(retry_queue)
        /\ Len(queue') \in Nat /\ Len(retry_queue') \in Nat /\ Len(todo') \in Nat
    BY <1>3, <1>4, FlushBalance DEF BatchTypeOK
  <2>2. /\ total_queued = total_flushed + Len(queue) + Len(retry_queue) + Len(todo)
        /\ Len(todo) = 0
        /\ Len(queue) \in Nat /\ Len(retry_queue) \in Nat /\ total_flushed \in Nat
    BY QueueFacts DEF Balance
  <2> HIDE DEF IInv
  <2> QED BY <1>1, <2>1, <2>2 DEF Balance
<1> QED BY <1>2, <1>4, <1>6, <1>7, <1>8 DEF ChainInv

LEMMA FlushLoopInv ==
    ASSUME IInv, BatchFlushLoop
    PROVE  IInv'
<1>1. batch_running' \in BOOLEAN
  BY DEF IInv, BatchTypeOK, BatchFlushLoop
<1> QED BY <1>1, FlushQueueInv DEF BatchFlushLoop

LEMMA StopInv ==
    ASSUME IInv, BatchStop
    PROVE  IInv'
<1>1. CASE queue = <<>>
  <2>1. UNCHANGED <<entries, chain_state, status, loop, queue, retry_queue, todo, done,
                    circuit_state, failure_count, recovery_due, total_queued, total_flushed>>
        /\ batch_running' = FALSE
    BY <1>1 DEF BatchStop, chainVars, circuitVars
  <2>2. ChainInv'
    BY <2>1, SameChain DEF IInv, ChainInv, ChainTypeOK
  <2>3. BatchTypeOK'
    BY <2>1 DEF IInv, BatchTypeOK
  <2>4. EnqueuedIsHeld' /\ WrittenPrefix'
    BY <2>1 DEF IInv, EnqueuedIsHeld, WrittenPrefix, InChain, InSeq
  <2>5. BreakerMatchesFailures' /\ BreakerRuns' /\ Balance'
    BY <2>1 DEF IInv, BreakerMatchesFailures, BreakerRuns, Balance
  <2> QED BY <2>2, <2>3, <2>4, <2>5 DEF IInv, ChainInv
<1>2. CASE queue # <<>>
  <2>1. batch_running' \in BOOLEAN
    BY DEF BatchStop
  <2> QED BY <1>2, <2>1, FlushQueueInv DEF BatchStop
<1> QED BY <1>1, <1>2

LEMMA EnqueueInv ==
    ASSUME IInv, NEW e \in Entry, Enqueue(e)
    PROVE  IInv'
<1> DEFINE q == Append(queue, e)
<1>1. /\ ChainTypeOK /\ BatchTypeOK /\ ChainLinked /\ BodiesKept
      /\ BreakerMatchesFailures /\ BreakerRuns /\ WrittenPrefix /\ EnqueuedIsHeld /\ Balance
  BY DEF IInv
<1>2. /\ loop = Idle /\ status[e] = "new"
      /\ status' = [status EXCEPT ![e] = "pending"]
      /\ total_queued' = total_queued + 1
      /\ UNCHANGED <<entries, chain_state, batch_running, total_flushed>>
  BY DEF Enqueue
<1>3. /\ q \in Seq(Entry) /\ Len(q) = Len(queue) + 1 /\ Len(q) <= BatchSize
      /\ Len(queue) \in Nat /\ queue \in Seq(Entry)
  BY <1>1, QueueFacts DEF BatchTypeOK
<1>4. status' \in [Entry -> EntryStatus]
  BY <1>1, <1>2 DEF ChainTypeOK, EntryStatus
<1>5. ChainInv'
  BY <1>1, <1>2, <1>4, SameChain DEF ChainInv
<1>6. batch_running' \in BOOLEAN /\ total_queued' \in Nat /\ total_flushed' \in Nat
  BY <1>1, <1>2, QueueFacts DEF BatchTypeOK
<1>7. \A x \in Entry : InSeq(x, q) <=> (InSeq(x, queue) \/ x = e)
  BY <1>3, InSeqAppend
<1>8. \A x \in Entry : status[x] = "new" /\ status'[x] # "new" => x = e
  BY <1>1, <1>2 DEF ChainTypeOK
<1>9. /\ total_queued = total_flushed + Len(queue) + Len(retry_queue) + Len(todo)
      /\ Len(todo) = 0
      /\ Len(retry_queue) \in Nat /\ total_flushed \in Nat
  BY <1>1, <1>2, QueueFacts DEF Balance
<1>10. ASSUME \A x \in Entry : (InSeq(x, q) \/ InSeq(x, todo) \/ InSeq(x, retry_queue)) => HeldIn(x)'
       PROVE  EnqueuedIsHeld'
  <2>1. \A x \in Entry : status'[x] # "new" /\ (status[x] = "new" \/ HeldIn(x)) => HeldIn(x)'
    BY <1>7, <1>8, <1>10 DEF HeldIn
  <2> QED BY <1>1, <1>2, <2>1, SameHeld
<1> HIDE DEF q
<1>11. CASE Len(queue) + 1 >= BatchSize
  <2>1. Flush(q)
    BY <1>11 DEF Enqueue, q
  <2>2. BatchTypeOK'
    BY <1>1, <1>2, <1>3, <1>6, <2>1, FlushTypes
  <2>3. EnqueuedIsHeld'
    BY <1>1, <1>2, <1>3, <1>10, <2>1, FlushHeld
  <2>4. BreakerMatchesFailures' /\ BreakerRuns' /\ WrittenPrefix'
    BY <1>1, <1>2, <1>3, <2>1, FlushBreaker
  <2>5. /\ Len(queue') + Len(retry_queue') + Len(todo') = Len(q) + Len(retry_queue)
        /\ Len(queue') \in Nat /\ Len(retry_queue') \in Nat /\ Len(todo') \in Nat
    <3>1. Len(queue') + Len(retry_queue') + Len(todo') = Len(q) + Len(retry_queue)
      BY <1>1, <1>2, <1>3, <2>1, FlushBalance
    <3>2. queue' \in Seq(Entry) /\ retry_queue' \in Seq(Entry) /\ todo' \in Seq(Entry)
      BY <2>2 DEF BatchTypeOK
    <3> QED BY <3>1, <3>2
  <2>6. Balance'
    BY <1>2, <1>3, <1>9, <2>5 DEF Balance
  <2> QED BY <1>5, <2>2, <2>3, <2>4, <2>6 DEF IInv, ChainInv
<1>12. CASE ~(Len(queue) + 1 >= BatchSize)
  <2>1. queue' = q
        /\ UNCHANGED <<loop, retry_queue, todo, done, circuit_state, failure_count, recovery_due>>
    BY <1>12 DEF Enqueue, q, circuitVars
  <2>2. BatchTypeOK'
    <3>1. queue' \in Seq(Entry) /\ Len(queue') < BatchSize
      BY <1>3, <1>12, <2>1, QueueFacts, <1>1
    <3> QED BY <1>1, <1>2, <1>6, <2>1, <3>1 DEF BatchTypeOK
  <2>3. \A x \in Entry : (InSeq(x, q) \/ InSeq(x, todo) \/ InSeq(x, retry_queue)) => HeldIn(x)'
    BY <2>1 DEF HeldIn, InSeq
  <2>4. EnqueuedIsHeld'
    BY <1>10, <2>3
  <2>5. BreakerMatchesFailures' /\ BreakerRuns' /\ WrittenPrefix'
    BY <1>1, <1>2, <2>1 DEF BreakerMatchesFailures, BreakerRuns, WrittenPrefix, InChain
  <2>6. Balance'
    BY <1>2, <1>3, <1>9, <2>1 DEF Balance
  <2> QED BY <1>5, <2>2, <2>4, <2>5, <2>6 DEF IInv, ChainInv
<1> QED BY <1>11, <1>12

\* An entry of the flush in progress.
LEMMA NextOfBatch ==
    ASSUME BatchTypeOK, loop = "flush"
    PROVE  todo[done + 1] \in Entry /\ done + 1 \in 1 .. Len(todo)
<1>1. todo \in Seq(Entry) /\ done \in Nat /\ done < Len(todo) /\ Len(todo) \in Nat
  BY QueueFacts
<1> QED BY <1>1

LEMMA FlushEntryInv ==
    ASSUME IInv, FlushEntry
    PROVE  IInv'
<1> DEFINE e == todo[done + 1]
<1>1. /\ ChainTypeOK /\ BatchTypeOK /\ ChainLinked /\ BodiesKept
      /\ BreakerMatchesFailures /\ BreakerRuns /\ WrittenPrefix /\ EnqueuedIsHeld /\ Balance
  BY DEF IInv
<1>2. /\ loop = "flush" /\ CreateChainEntry(e) /\ done' = done + 1 /\ done + 1 < Len(todo)
      /\ UNCHANGED <<loop, queue, retry_queue, todo, circuit_state, failure_count,
                     recovery_due, batch_running, total_queued, total_flushed>>
  BY DEF FlushEntry, circuitVars
<1>3. e \in Entry
  BY <1>1, <1>2, NextOfBatch
<1>4. ChainInv'
  BY <1>1, <1>2, <1>3, CreateChain DEF ChainInv
<1>5. BatchTypeOK'
  BY <1>1, <1>2, QueueFacts DEF BatchTypeOK, Idle
<1>6. EnqueuedIsHeld'
  <2>1. \A x \in Entry : HeldIn(x) => HeldIn(x)'
    BY <1>2 DEF HeldIn, InSeq
  <2> QED BY <1>1, <1>2, <1>3, <2>1, CreateHeld
<1>7. WrittenPrefix'
  <2>1. \A x : (InChain(x) \/ x = e) => \E j \in DOMAIN entries' : entries'[j].audit_id = x
    BY <1>1, <1>2, <1>3, CreateInChain DEF InChain
  <2>2. \A i \in 1 .. done + 1 : i \in 1 .. done \/ i = done + 1
    BY <1>1, QueueFacts
  <2>3. ASSUME NEW i \in 1 .. done + 1 PROVE InChain(todo[i])'
    <3>1. CASE i = done + 1
      <4>1. todo'[i] = e
        BY <1>2, <3>1
      <4> QED BY <2>1, <4>1 DEF InChain
    <3>2. CASE i \in 1 .. done
      <4>1. InChain(todo[i])
        BY <1>1, <1>2, <3>2 DEF WrittenPrefix
      <4> QED BY <1>2, <2>1, <4>1 DEF InChain
    <3> QED BY <2>2, <3>1, <3>2
  <2> QED BY <1>2, <2>3 DEF WrittenPrefix
<1>8. BreakerMatchesFailures' /\ BreakerRuns' /\ Balance'
  BY <1>1, <1>2 DEF BreakerMatchesFailures, BreakerRuns, Balance
<1> QED BY <1>4, <1>5, <1>6, <1>7, <1>8 DEF IInv, ChainInv

\* The last entry of a batch: the whole batch is in the chain, so what was in
\* `todo` need not be held any more.
LEMMA FlushLastEntryInv ==
    ASSUME IInv, FlushLastEntry
    PROVE  IInv'
<1> DEFINE e == todo[done + 1]
<1>1. /\ ChainTypeOK /\ BatchTypeOK /\ ChainLinked /\ BodiesKept
      /\ BreakerMatchesFailures /\ BreakerRuns /\ WrittenPrefix /\ EnqueuedIsHeld /\ Balance
  BY DEF IInv
<1>2. /\ loop = "flush" /\ CreateChainEntry(e) /\ done + 1 = Len(todo)
      /\ total_flushed' = total_flushed + Len(todo)
      /\ failure_count' = 0 /\ circuit_state' = "closed"
      /\ EndOfBatch(retry_queue)
      /\ UNCHANGED <<queue, recovery_due, batch_running, total_queued>>
  BY DEF FlushLastEntry, RecordSuccess
<1>3. e \in Entry
  BY <1>1, <1>2, NextOfBatch
<1>4. ChainInv'
  BY <1>1, <1>2, <1>3, CreateChain DEF ChainInv
<1>5. /\ retry_queue \in Seq(Entry) /\ todo \in Seq(Entry)
      /\ Len(todo) \in Nat /\ total_flushed \in Nat /\ Len(queue) \in Nat
      /\ Len(retry_queue) \in Nat /\ done \in Nat
  BY <1>1, QueueFacts
<1>6. BatchTypeOK'
  <2>1. /\ failure_count' \in Nat /\ recovery_due' \in BOOLEAN /\ total_flushed' \in Nat
        /\ circuit_state' \in {"closed", "open"}
    BY <1>1, <1>2, <1>5 DEF BatchTypeOK
  <2> QED BY <1>1, <1>2, <1>5, <2>1, EndTypes
<1>7. EnqueuedIsHeld'
  <2>1. ASSUME NEW x \in Entry, HeldIn(x), ~InChain(x), x # e
        PROVE  HeldIn(x)'
    <3>1. ~InSeq(x, todo)
      <4>1. SUFFICES ASSUME NEW i \in DOMAIN todo, todo[i] = x PROVE FALSE
        BY DEF InSeq
      <4>2. i \in 1 .. done \/ i = done + 1
        BY <1>2, <1>5
      <4> QED BY <1>1, <1>2, <2>1, <4>1, <4>2 DEF WrittenPrefix
    <3>2. InSeq(x, queue) \/ InSeq(x, retry_queue)
      BY <2>1, <3>1 DEF HeldIn
    <3>3. InSeq(x, retry_queue) => InSeq(x, todo') \/ InSeq(x, retry_queue')
      BY <1>2, <1>5, EndShape
    <3> QED BY <1>2, <3>2, <3>3 DEF HeldIn, InSeq
  <2> QED BY <1>1, <1>2, <1>3, <2>1, CreateHeld
<1>8. BreakerMatchesFailures'
  BY <1>2, QueueFacts, <1>1 DEF BreakerMatchesFailures
<1>9. BreakerRuns' /\ WrittenPrefix'
  BY <1>2, <1>5, EndShape DEF BreakerRuns, WrittenPrefix, Idle
<1>10. Balance'
  <2>1. Len(todo') + Len(retry_queue') = Len(retry_queue)
    BY <1>2, <1>5, EndShape
  <2>2. Len(todo') \in Nat /\ Len(retry_queue') \in Nat
    BY <1>6 DEF BatchTypeOK
  <2>3. total_queued = total_flushed + Len(queue) + Len(retry_queue) + Len(todo)
    BY <1>1 DEF Balance
  <2> QED BY <1>2, <1>5, <2>1, <2>2, <2>3 DEF Balance
<1> QED BY <1>4, <1>6, <1>7, <1>8, <1>9, <1>10 DEF IInv, ChainInv

\* A failed batch goes back whole, behind what waits to be retried.
LEMMA FlushFailsInv ==
    ASSUME IInv, FlushFails
    PROVE  IInv'
<1> DEFINE retrying == retry_queue \o todo
<1>1. /\ ChainTypeOK /\ BatchTypeOK /\ ChainLinked /\ BodiesKept
      /\ BreakerMatchesFailures /\ BreakerRuns /\ WrittenPrefix /\ EnqueuedIsHeld /\ Balance
  BY DEF IInv
<1>2. /\ loop = "flush"
      /\ failure_count' = failure_count + 1
      /\ circuit_state' = IF failure_count + 1 >= CircuitThreshold THEN "open" ELSE circuit_state
      /\ recovery_due' = FALSE
      /\ EndOfBatch(retrying)
      /\ UNCHANGED <<entries, chain_state, status, queue, batch_running, total_queued, total_flushed>>
  BY DEF FlushFails, RecordFailure, chainVars
<1>3. /\ retry_queue \in Seq(Entry) /\ todo \in Seq(Entry)
      /\ Len(todo) \in Nat /\ total_flushed \in Nat /\ Len(queue) \in Nat
      /\ Len(retry_queue) \in Nat /\ failure_count \in Nat /\ CircuitThreshold \in Nat
  BY <1>1, QueueFacts
<1>4. retrying \in Seq(Entry) /\ Len(retrying) = Len(retry_queue) + Len(todo)
      /\ \A x \in Entry : InSeq(x, retry_queue) \/ InSeq(x, todo) => InSeq(x, retrying)
  BY <1>3, Concatenation
<1> HIDE DEF retrying
<1>5. ChainInv'
  BY <1>1, <1>2, SameChain DEF ChainInv, ChainTypeOK
<1>6. /\ circuit_state = "closed" \/ circuit_state = "half_open"
      /\ circuit_state = "closed" <=> failure_count < CircuitThreshold
  BY <1>1, <1>2 DEF BreakerRuns, BatchTypeOK, CircuitState, BreakerMatchesFailures
<1>7. circuit_state' \in {"closed", "open"}
      /\ (circuit_state' = "closed" <=> failure_count + 1 < CircuitThreshold)
  BY <1>2, <1>3, <1>6
<1>8. BatchTypeOK'
  <2>1. failure_count' \in Nat /\ total_flushed' \in Nat
    BY <1>2, <1>3
  <2>2. recovery_due' \in BOOLEAN
    BY <1>2
  <2> QED BY <1>1, <1>2, <1>4, <1>7, <2>1, <2>2, EndTypes
<1>9. EnqueuedIsHeld'
  <2>1. \A x \in Entry : HeldIn(x) => HeldIn(x)'
    <3>1. \A x \in Entry : InSeq(x, retrying) => InSeq(x, todo') \/ InSeq(x, retry_queue')
      BY <1>2, <1>4, <1>7, EndShape
    <3> QED BY <1>2, <1>4, <3>1 DEF HeldIn, InSeq
  <2> QED BY <1>1, <1>2, <2>1, SameHeld
<1>10. loop' # "flush" /\ (loop' = "retry" => circuit_state' = "closed")
  BY <1>2, <1>4, <1>7, EndShape DEF Idle
<1>11. BreakerMatchesFailures' /\ BreakerRuns' /\ WrittenPrefix'
  BY <1>2, <1>7, <1>10 DEF BreakerMatchesFailures, BreakerRuns, WrittenPrefix
<1>12. Balance'
  <2>1. Len(todo') + Len(retry_queue') = Len(retry_queue) + Len(todo)
    BY <1>2, <1>4, <1>7, EndShape
  <2>2. Len(todo') \in Nat /\ Len(retry_queue') \in Nat
    BY <1>8 DEF BatchTypeOK
  <2>3. total_queued = total_flushed + Len(queue) + Len(retry_queue) + Len(todo)
    BY <1>1 DEF Balance
  <2> QED BY <1>2, <1>3, <2>1, <2>2, <2>3 DEF Balance
<1> QED BY <1>5, <1>8, <1>9, <1>11, <1>12 DEF IInv, ChainInv

\* An entry of the replay: written, or back at the end of the retry queue.
LEMMA RetryEntryInv ==
    ASSUME IInv, RetryEntry
    PROVE  IInv'
<1> DEFINE e == Head(todo)
<1>1. /\ ChainTypeOK /\ BatchTypeOK /\ ChainLinked /\ BodiesKept
      /\ BreakerMatchesFailures /\ BreakerRuns /\ WrittenPrefix /\ EnqueuedIsHeld /\ Balance
  BY DEF IInv
<1>2. /\ loop = "retry" /\ todo' = Tail(todo)
      /\ loop' = IF Len(todo) = 1 THEN Idle ELSE loop
      /\ UNCHANGED <<queue, done, circuit_state, failure_count, recovery_due,
                     batch_running, total_queued>>
  BY DEF RetryEntry, circuitVars
<1>3. /\ retry_queue \in Seq(Entry) /\ todo \in Seq(Entry) /\ todo # <<>>
      /\ Len(todo) \in Nat /\ total_flushed \in Nat /\ Len(queue) \in Nat
      /\ Len(retry_queue) \in Nat /\ Len(todo) > 0 /\ done = 0
  BY <1>1, <1>2, QueueFacts DEF BatchTypeOK
<1>4. /\ e \in Entry /\ Tail(todo) \in Seq(Entry) /\ Len(Tail(todo)) = Len(todo) - 1
      /\ \A x \in Entry : InSeq(x, todo) <=> (x = e \/ InSeq(x, Tail(todo)))
  BY <1>3, InSeqTail
<1>5. (loop' = Idle) <=> (todo' = <<>>)
  BY <1>2, <1>3, LastOfFlush DEF Idle
<1>6. loop' \in {Idle, "retry"}
  BY <1>2
<1>7. BreakerMatchesFailures' /\ BreakerRuns' /\ WrittenPrefix'
  BY <1>1, <1>2, <1>6 DEF BreakerMatchesFailures, BreakerRuns, WrittenPrefix, Idle
<1>8. \/ /\ CreateChainEntry(e) /\ total_flushed' = total_flushed + 1
         /\ retry_queue' = retry_queue
      \/ /\ retry_queue' = Append(retry_queue, e)
         /\ UNCHANGED <<entries, chain_state, status, total_flushed>>
  BY DEF RetryEntry, chainVars
<1> HIDE DEF e
<1>9. CASE /\ CreateChainEntry(e) /\ total_flushed' = total_flushed + 1
           /\ retry_queue' = retry_queue
  <2>1. ChainInv'
    BY <1>1, <1>4, <1>9, CreateChain DEF ChainInv
  <2>2. BatchTypeOK'
    BY <1>1, <1>2, <1>3, <1>4, <1>5, <1>6, <1>9 DEF BatchTypeOK, Loops, Idle
  <2>3. EnqueuedIsHeld'
    <3>1. \A x \in Entry : HeldIn(x) /\ x # e => HeldIn(x)'
      BY <1>2, <1>4, <1>9 DEF HeldIn, InSeq
    <3> QED BY <1>1, <1>4, <1>9, <3>1, CreateHeld
  <2>4. Balance'
    BY <1>1, <1>2, <1>3, <1>4, <1>9 DEF Balance
  <2> QED BY <1>7, <2>1, <2>2, <2>3, <2>4 DEF IInv, ChainInv
<1>10. CASE /\ retry_queue' = Append(retry_queue, e)
            /\ UNCHANGED <<entries, chain_state, status, total_flushed>>
  <2>1. ChainInv'
    BY <1>1, <1>10, SameChain DEF ChainInv, ChainTypeOK
  <2>2. /\ retry_queue' \in Seq(Entry) /\ Len(retry_queue') = Len(retry_queue) + 1
        /\ \A x \in Entry : InSeq(x, retry_queue') <=> (InSeq(x, retry_queue) \/ x = e)
    BY <1>3, <1>4, <1>10, InSeqAppend
  <2>3. BatchTypeOK'
    BY <1>1, <1>2, <1>3, <1>4, <1>5, <1>6, <1>10, <2>2 DEF BatchTypeOK, Loops, Idle
  <2>4. EnqueuedIsHeld'
    <3>1. \A x \in Entry : HeldIn(x) => HeldIn(x)'
      BY <1>2, <1>4, <2>2 DEF HeldIn, InSeq
    <3> QED BY <1>1, <1>10, <3>1, SameHeld
  <2>5. Balance'
    BY <1>1, <1>2, <1>3, <1>4, <1>10, <2>2 DEF Balance
  <2> QED BY <1>7, <2>1, <2>3, <2>4, <2>5 DEF IInv, ChainInv
<1> QED BY <1>8, <1>9, <1>10

-----------------------------------------------------------------------------
\* The invariant.

LEMMA InitIInv == Init => IInv
<1> SUFFICES ASSUME Init PROVE IInv
  OBVIOUS
<1> USE DEF Init
<1>1. ChainTypeOK /\ ChainLinked
  BY ChainInitOK
<1>2. BodiesKept
  BY DEF ChainInit, BodiesKept
<1>3. BatchTypeOK
  <2>1. /\ loop = "idle" /\ queue = <<>> /\ retry_queue = <<>> /\ todo = <<>> /\ done = 0
        /\ circuit_state = "closed" /\ failure_count = 0 /\ recovery_due = FALSE
        /\ batch_running = FALSE /\ total_queued = 0 /\ total_flushed = 0
    BY DEF BatchInit, Idle
  <2>2. recovery_due \in BOOLEAN /\ batch_running \in BOOLEAN
    BY <2>1
  <2>3. Len(queue) < BatchSize /\ queue \in Seq(Entry) /\ retry_queue \in Seq(Entry) /\ todo \in Seq(Entry)
    BY <2>1, BatchAssumption, EmptyQueue
  <2>4. loop \in Loops /\ circuit_state \in CircuitState
    BY <2>1 DEF Loops, Idle, CircuitState
  <2>5. /\ done \in Nat /\ failure_count \in Nat /\ total_queued \in Nat /\ total_flushed \in Nat
        /\ loop # "flush" /\ ((loop = Idle) <=> (todo = <<>>))
    BY <2>1 DEF Idle
  <2> QED BY <2>1, <2>2, <2>3, <2>4, <2>5 DEF BatchTypeOK
<1>4. BreakerMatchesFailures /\ BreakerRuns /\ WrittenPrefix
  BY BatchAssumption DEF BatchInit, BreakerMatchesFailures, BreakerRuns, WrittenPrefix, Idle
<1>5. EnqueuedIsHeld
  BY DEF ChainInit, EnqueuedIsHeld
<1>6. Balance
  BY EmptyQueue DEF BatchInit, Balance
<1> QED BY <1>1, <1>2, <1>3, <1>4, <1>5, <1>6 DEF IInv

LEMMA StutterIInv ==
    ASSUME IInv, UNCHANGED vars
    PROVE  IInv'
<1>1. UNCHANGED <<entries, chain_state, status, loop, queue, retry_queue, todo, done, circuit_state,
                  failure_count, recovery_due, batch_running, total_queued, total_flushed>>
  BY DEF vars, chainVars, batchVars, circuitVars
<1>2. ChainInv'
  BY <1>1, SameChain DEF IInv, ChainInv, ChainTypeOK
<1>3. BatchTypeOK'
  BY <1>1 DEF IInv, BatchTypeOK
<1>4. EnqueuedIsHeld' /\ WrittenPrefix'
  BY <1>1 DEF IInv, EnqueuedIsHeld, WrittenPrefix, InChain, InSeq
<1>5. BreakerMatchesFailures' /\ BreakerRuns' /\ Balance'
  BY <1>1 DEF IInv, BreakerMatchesFailures, BreakerRuns, Balance
<1> QED BY <1>2, <1>3, <1>4, <1>5 DEF IInv, ChainInv

LEMMA NextIInv == IInv /\ [BatchNext]_vars => IInv'
BY StutterIInv, StartInv, EnqueueInv, FlushLoopInv, StopInv, RecoveryInv,
   FlushEntryInv, FlushLastEntryInv, FlushFailsInv, RetryEntryInv DEF BatchNext, RunFlush

\* The inductive invariant of BatchProcessor.
THEOREM BatchInvariant == Spec => []IInv
BY InitIInv, NextIInv, PTL DEF Spec

\* The types of the processor and of the chain it writes; the queue stays shorter
\* than a batch, so flush() never cuts its entries into a second sub-batch.
THEOREM BatchTypes == Spec => []TypeOK
<1>1. IInv => TypeOK
  BY DEF IInv, TypeOK
<1> QED BY <1>1, BatchInvariant, PTL

\* The breaker is open exactly while the failures in a row have reached the
\* threshold (_record_success, _record_failure, _check_circuit).
THEOREM BatchBreakerMatchesFailures == Spec => []BreakerMatchesFailures
<1>1. IInv => BreakerMatchesFailures
  BY DEF IInv
<1> QED BY <1>1, BatchInvariant, PTL

\* No accepted entry is lost between the queue, the flush in progress, the retry
\* queue and the chain, whatever batches fail half way.
THEOREM BatchEnqueuedIsHeld == Spec => []EnqueuedIsHeld
<1>1. IInv => EnqueuedIsHeld
  BY DEF IInv
<1> QED BY <1>1, BatchInvariant, PTL

\* get_stats() balances between two coroutines.
THEOREM BatchStatsBalance == Spec => []StatsBalance
<1>1. ASSUME IInv PROVE StatsBalance
  <2>1. SUFFICES ASSUME loop = Idle
                 PROVE  total_queued = total_flushed + Len(queue) + Len(retry_queue)
    BY DEF StatsBalance
  <2>2. /\ total_queued = total_flushed + Len(queue) + Len(retry_queue) + Len(todo)
        /\ Len(todo) = 0 /\ Len(queue) \in Nat /\ Len(retry_queue) \in Nat /\ total_flushed \in Nat
    BY <1>1, <2>1, QueueFacts DEF IInv, Balance
  <2> QED BY <2>2
<1> QED BY <1>1, BatchInvariant, PTL

\* The chain the processor writes is linked: every record carries its position,
\* is hashed over what it stores and points at the record before it, also when
\* a failed batch is written a second time.
THEOREM BatchChainLinked == Spec => []ChainLinked
<1>1. IInv => ChainLinked
  BY DEF IInv
<1> QED BY <1>1, BatchInvariant, PTL

\* An open breaker lets no flush write, count a failure or close it before the
\* recovery time has passed (_check_circuit).
THEOREM BatchOpenBlocksWrites == Spec => OpenBlocksWrites
<1> DEFINE Blocked == (circuit_state = "open" /\ ~recovery_due)
                          => UNCHANGED <<entries, failure_count, circuit_state>>
<1>1. ASSUME IInv, [BatchNext]_vars
      PROVE  Blocked
  <2>1. SUFFICES ASSUME circuit_state = "open", ~recovery_due
                 PROVE  UNCHANGED <<entries, failure_count, circuit_state>>
    OBVIOUS
  <2>2. loop # "flush" /\ loop # "retry"
    BY <1>1, <2>1 DEF IInv, BreakerRuns
  <2>3. ASSUME NEW pending, Flush(pending)
        PROVE  UNCHANGED <<failure_count, circuit_state>>
    BY <2>1, <2>3 DEF Flush, DivertToRetry, BeginFlush, circuitVars
  <2>4. CASE BatchStart
    BY <2>4 DEF BatchStart, chainVars, circuitVars
  <2>5. ASSUME NEW e \in Entry, Enqueue(e)
        PROVE  UNCHANGED <<entries, failure_count, circuit_state>>
    BY <2>3, <2>5 DEF Enqueue, circuitVars
  <2>6. CASE BatchFlushLoop
    BY <2>3, <2>6 DEF BatchFlushLoop, chainVars
  <2>7. CASE BatchStop
    BY <2>3, <2>7 DEF BatchStop, chainVars, circuitVars
  <2>8. CASE RecoveryElapses
    BY <2>8 DEF RecoveryElapses, chainVars
  <2>9. CASE UNCHANGED vars
    BY <2>9 DEF vars, chainVars, batchVars, circuitVars
  <2>10. ~RunFlush
    BY <2>2 DEF RunFlush, FlushEntry, FlushLastEntry, FlushFails, RetryEntry
  <2> QED BY <1>1, <2>4, <2>5, <2>6, <2>7, <2>8, <2>9, <2>10 DEF BatchNext
<1>2. IInv /\ [BatchNext]_vars => [Blocked]_vars
  BY <1>1
<1> QED BY <1>2, BatchInvariant, PTL DEF Spec, OpenBlocksWrites
=============================================================================
