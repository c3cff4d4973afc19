---------------------------- MODULE BatchProcessor ----------------------------
(***************************************************************************)
(* BatchProcessor of audit-log-svc: a queue flushed in batches into the    *)
(* hash chain, a circuit breaker over batch failures, and a retry queue.   *)
(*                                                                         *)
(* As in AuditLogger nothing inside flush() suspends: `loop` names the     *)
(* coroutine that holds the event loop, the loops of flush() and of        *)
(* _process_retry_queue() take one step per entry, and every other action  *)
(* waits for Idle.  BatchProcessor only ever moves entries, so the model   *)
(* keeps the two statistics that count entries and leaves out the rest.    *)
(***************************************************************************)
EXTENDS HashChain

CONSTANTS
    BatchSize,        \* batch_size
    CircuitThreshold  \* circuit_threshold

ASSUME BatchAssumption ==
    /\ BatchSize \in Nat \ {0}
    /\ CircuitThreshold \in Nat \ {0}

VARIABLES
    loop,             \* the coroutine that holds the event loop
    queue,            \* BatchProcessor._queue
    retry_queue,      \* BatchProcessor._retry_queue
    todo,             \* the batch flush() is writing, or the entries of
                      \* _process_retry_queue() still to be tried
    done,             \* how many entries of that batch are written
    circuit_state,    \* BatchProcessor._circuit_state
    failure_count,    \* BatchProcessor._failure_count
    recovery_due,     \* circuit_recovery seconds have passed since the last failure
    batch_running,    \* BatchProcessor._running
    total_queued,     \* _stats["total_queued"]
    total_flushed     \* _stats["total_flushed"]

circuitVars == <<circuit_state, failure_count, recovery_due>>
batchVars == <<queue, retry_queue, todo, done, circuitVars, batch_running,
               total_queued, total_flushed>>

Idle == "idle"
Loops == {Idle, "flush", "retry"}
CircuitState == {"closed", "open", "half_open"}

BatchInit ==
    /\ loop = Idle
    /\ queue = <<>>
    /\ retry_queue = <<>>
    /\ todo = <<>>
    /\ done = 0
    /\ circuit_state = "closed"
    /\ failure_count = 0
    /\ recovery_due = FALSE
    /\ batch_running = FALSE
    /\ total_queued = 0
    /\ total_flushed = 0

\* start()
BatchStart ==
    /\ loop = Idle
    /\ ~batch_running
    /\ batch_running' = TRUE
    /\ UNCHANGED <<chainVars, loop, queue, retry_queue, todo, done, circuitVars,
                   total_queued, total_flushed>>

-----------------------------------------------------------------------------
\* flush(), whose queue is `pending`, up to the first entry of the first batch.

\* The circuit is open and circuit_recovery has not passed: the whole queue is
\* moved to the retry queue.
DivertToRetry(pending) ==
    /\ circuit_state = "open"
    /\ ~recovery_due
    /\ retry_queue' = retry_queue \o pending
    /\ queue' = <<>>
    /\ UNCHANGED <<loop, todo, done, circuitVars>>

\* Mutant: the recovery time is not waited for.
BeginFlushEarly(pending) ==
    /\ circuit_state' = IF circuit_state = "open" THEN "half_open" ELSE circuit_state
    /\ queue' = <<>>
    /\ todo' = pending
    /\ done' = 0
    /\ loop' = "flush"
    /\ UNCHANGED <<retry_queue, failure_count, recovery_due>>

\* Otherwise the queue is taken over; an open circuit becomes half open.
BeginFlush(pending) ==
    /\ (circuit_state = "open") => recovery_due
    /\ circuit_state' = IF circuit_state = "open" THEN "half_open" ELSE circuit_state
    /\ queue' = <<>>
    /\ todo' = pending
    /\ done' = 0
    /\ loop' = "flush"
    /\ UNCHANGED <<retry_queue, failure_count, recovery_due>>

Flush(pending) ==
    /\ pending # <<>>
    /\ DivertToRetry(pending) \/ BeginFlush(pending)

\* enqueue(e), with the flush that a full batch triggers.
Enqueue(e) ==
    /\ loop = Idle
    /\ status[e] = "new"
    /\ status' = [status EXCEPT ![e] = "pending"]
    /\ total_queued' = total_queued + 1
    /\ IF Len(queue) + 1 >= BatchSize
       THEN Flush(Append(queue, e))
       ELSE /\ queue' = Append(queue, e)
            /\ UNCHANGED <<loop, retry_queue, todo, done, circuitVars>>
    /\ UNCHANGED <<entries, chain_state, batch_running, total_flushed>>

\* Mutant: the periodic flush waits for a full batch.
BatchFlushLoopWhenFull ==
    /\ loop = Idle
    /\ batch_running
    /\ Len(queue) >= BatchSize
    /\ Flush(queue)
    /\ UNCHANGED <<chainVars, batch_running, total_queued, total_flushed>>

\* One pass of _flush_loop, which calls flush() only when the queue is not empty.
BatchFlushLoop ==
    /\ loop = Idle
    /\ batch_running
    /\ Flush(queue)
    /\ UNCHANGED <<chainVars, batch_running, total_queued, total_flushed>>

\* stop(): the loop is cancelled and flush() is called once more.  The await of the
\* cancelled task between the two, which does nothing more, is part of the step.
BatchStop ==
    /\ loop = Idle
    /\ batch_running
    /\ batch_running' = FALSE
    /\ IF queue = <<>>
       THEN UNCHANGED <<loop, queue, retry_queue, todo, done, circuitVars>>
       ELSE Flush(queue)
    /\ UNCHANGED <<chainVars, total_queued, total_flushed>>

\* Time: circuit_recovery seconds have passed since the last recorded failure.
RecoveryElapses ==
    /\ loop = Idle
    /\ circuit_state = "open"
    /\ ~recovery_due
    /\ recovery_due' = TRUE
    /\ UNCHANGED <<chainVars, loop, queue, retry_queue, todo, done, circuit_state,
                   failure_count, batch_running, total_queued, total_flushed>>

-----------------------------------------------------------------------------
\* The loops of flush() and _process_retry_queue().  flush() cuts its entries into
\* sub-batches of BatchSize; a queue is flushed as soon as it holds a batch, so
\* `todo` is a single sub-batch (BatchTypeOK states it).

\* Mutant: a success resets the count and leaves the breaker half open.
RecordSuccessHalfOpen ==
    /\ failure_count' = 0
    /\ UNCHANGED <<circuit_state, recovery_due>>

RecordSuccess ==
    /\ failure_count' = 0
    /\ circuit_state' = "closed"
    /\ UNCHANGED recovery_due

RecordFailure ==
    /\ failure_count' = failure_count + 1
    /\ circuit_state' = IF failure_count + 1 >= CircuitThreshold THEN "open" ELSE circuit_state
    /\ recovery_due' = FALSE

\* The batch is over and `retrying` is the retry queue it leaves: flush() ends,
\* and replays the retry queue first if the circuit is closed.
EndOfBatch(retrying) ==
    /\ done' = 0
    /\ IF circuit_state' = "closed" /\ retrying # <<>>
       THEN /\ todo' = retrying
            /\ retry_queue' = <<>>
            /\ loop' = "retry"
       ELSE /\ todo' = <<>>
            /\ retry_queue' = retrying
            /\ loop' = Idle

\* An entry before the last of its batch is written.
FlushEntry ==
    /\ loop = "flush"
    /\ done + 1 < Len(todo)
    /\ CreateChainEntry(todo[done + 1])
    /\ done' = done + 1
    /\ UNCHANGED <<loop, queue, retry_queue, todo, circuitVars, batch_running,
                   total_queued, total_flushed>>

\* The last entry of a batch is written, and the batch counts as flushed.
FlushLastEntry ==
    /\ loop = "flush"
    /\ done + 1 = Len(todo)
    /\ CreateChainEntry(todo[done + 1])
    /\ total_flushed' = total_flushed + Len(todo)
    /\ RecordSuccess
    /\ EndOfBatch(retry_queue)
    /\ UNCHANGED <<queue, batch_running, total_queued>>

\* Mutant: the entries of a failed batch are not put back.
FlushFailsDropsBatch ==
    /\ loop = "flush"
    /\ ~Writable(todo[done + 1])
    /\ RecordFailure
    /\ EndOfBatch(retry_queue)
    /\ UNCHANGED <<chainVars, queue, batch_running, total_queued, total_flushed>>

\* Mutant: what a failed batch had written is counted as flushed, and again
\* when the batch is retried.
FlushFailsCountsPrefix ==
    /\ loop = "flush"
    /\ ~Writable(todo[done + 1])
    /\ total_flushed' = total_flushed + done
    /\ RecordFailure
    /\ EndOfBatch(retry_queue \o todo)
    /\ UNCHANGED <<chainVars, queue, batch_running, total_queued>>

\* An entry fails: the rest of its batch is not tried, and the whole
\* batch, what was written of it included, goes to the retry queue.
FlushFails ==
    /\ loop = "flush"
    /\ ~Writable(todo[done + 1])
    /\ RecordFailure
    /\ EndOfBatch(retry_queue \o todo)
    /\ UNCHANGED <<chainVars, queue, batch_running, total_queued, total_flushed>>

\* One entry of _process_retry_queue(): written, or back to the retry queue.
RetryEntry ==
    /\ loop = "retry"
    /\ LET e == Head(todo)
       IN  IF Writable(e)
           THEN /\ CreateChainEntry(e)
                /\ total_flushed' = total_flushed + 1
                /\ UNCHANGED retry_queue
           ELSE /\ retry_queue' = Append(retry_queue, e)
                /\ UNCHANGED <<chainVars, total_flushed>>
    /\ todo' = Tail(todo)
    /\ loop' = IF Len(todo) = 1 THEN Idle ELSE loop
    /\ UNCHANGED <<queue, done, circuitVars, batch_running, total_queued>>

RunFlush == FlushEntry \/ FlushLastEntry \/ FlushFails \/ RetryEntry

BatchNext ==
    \/ BatchStart
    \/ \E e \in Entry : Enqueue(e)
    \/ BatchFlushLoop
    \/ BatchStop
    \/ RecoveryElapses
    \/ RunFlush

vars == <<chainVars, loop, batchVars>>

Init == ChainInit /\ BatchInit

Spec == Init /\ [][BatchNext]_vars

\* The event loop runs a started coroutine on, wakes the flush loop, and time
\* passes; nothing obliges a client to enqueue, or the service to stop.
FairSpec ==
    /\ Spec
    /\ WF_vars(BatchFlushLoop)
    /\ WF_vars(RunFlush)
    /\ WF_vars(RecoveryElapses)

-----------------------------------------------------------------------------

\* The type invariant of the processor.  A queue is flushed before it is longer
\* than a batch, so the loop over sub-batches of flush() runs exactly once.
BatchTypeOK ==
    /\ loop \in Loops
    /\ queue \in Seq(Entry)
    /\ retry_queue \in Seq(Entry)
    /\ todo \in Seq(Entry)
    /\ done \in Nat
    /\ circuit_state \in CircuitState
    /\ failure_count \in Nat
    /\ recovery_due \in BOOLEAN
    /\ batch_running \in BOOLEAN
    /\ total_queued \in Nat
    /\ total_flushed \in Nat
    /\ Len(queue) < BatchSize
    /\ (loop = Idle) <=> (todo = <<>>)
    /\ (loop = "flush") => (done < Len(todo) /\ Len(todo) <= BatchSize)
    /\ (loop # "flush") => (done = 0)

TypeOK == ChainTypeOK /\ BatchTypeOK

\* The breaker is open exactly while the failures since the last success have
\* reached the threshold, and it is half open only inside the flush that tests
\* recovery, which leaves it open or closed.
BreakerMatchesFailures ==
    /\ (circuit_state = "closed") <=> (failure_count < CircuitThreshold)
    /\ (circuit_state = "half_open") => (loop = "flush")

\* No entry is lost while the processor holds it: an enqueued entry that is not
\* in the chain is in the queue, in the flush in progress or in the retry queue.
EnqueuedIsHeld ==
    \A e \in Entry :
        (status[e] # "new" /\ ~InChain(e))
            => (InSeq(e, queue) \/ InSeq(e, todo) \/ InSeq(e, retry_queue))

\* Between two coroutines the counters balance: what was queued is flushed or in
\* one of the two queues.  A batch that fails half way is counted when its
\* entries are retried and not before.
StatsBalance ==
    loop = Idle => total_queued = total_flushed + Len(queue) + Len(retry_queue)

\* An open breaker lets nothing through before the recovery time: no entry is
\* written by any flush or replay, the failure count stands and the breaker stays
\* open, until recovery_due.
OpenBlocksWrites ==
    [][(circuit_state = "open" /\ ~recovery_due)
          => UNCHANGED <<entries, failure_count, circuit_state>>]_vars

\* Half-open testing ends: an open breaker, if its flush loop runs and a queue is
\* waiting, is tested again or the queue is set aside for replay.
QueueIsTaken ==
    (queue # <<>> /\ batch_running) ~> (queue = <<>>)
=============================================================================
