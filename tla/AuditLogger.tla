----------------------------- MODULE AuditLogger -----------------------------
(***************************************************************************)
(* AuditLogger of audit-log-svc: entries are appended to the chain at once *)
(* (synchronous mode) or buffered and flushed when the buffer is full, by  *)
(* the periodic flush loop, and by stop().                                 *)
(*                                                                         *)
(* The service runs on one asyncio loop and nothing in flush() suspends,   *)
(* so no other task runs between two entries of a flush.  `loop` names the *)
(* coroutine that holds the event loop; the for-loop of flush() takes one  *)
(* step per entry, and every other action waits for Idle.                  *)
(***************************************************************************)
EXTENDS HashChain

CONSTANT
    BufferSize       \* buffer_size: entries that force a flush

ASSUME LoggerAssumption == BufferSize \in Nat \ {0}

VARIABLES
    async_logging,   \* configuration: FALSE selects _write_sync in log()
    loop,            \* the coroutine that holds the event loop
    buffer,          \* AuditLogger._buffer
    flushing,        \* the local `entries` of flush() still to be written
    logger_running,  \* AuditLogger._running
    logged,          \* history: entries in the order log() received them
    at_stop          \* history: how many of them stop() found logged

loggerVars == <<async_logging, buffer, flushing, logger_running, logged, at_stop>>

Idle == "idle"
Loops == {Idle, "logger_flush"}

LoggerInit ==
    /\ async_logging \in BOOLEAN
    /\ loop = Idle
    /\ buffer = <<>>
    /\ flushing = <<>>
    /\ logger_running = FALSE
    /\ logged = <<>>
    /\ at_stop = 0

\* start()
LoggerStart ==
    /\ loop = Idle
    /\ ~logger_running
    /\ logger_running' = TRUE
    /\ UNCHANGED <<async_logging, chainVars, loop, buffer, flushing, logged, at_stop>>

\* Mutant: the buffer is copied and not cleared.
BeginLoggerFlushKeepsBuffer(pending) ==
    /\ buffer' = IF Len(pending) < BufferSize THEN pending ELSE <<>>
    /\ flushing' = pending
    /\ loop' = "logger_flush"

\* flush() on the contents of `pending`: the buffer is copied and cleared before
\* the first entry is written.
BeginLoggerFlush(pending) ==
    /\ buffer' = <<>>
    /\ flushing' = pending
    /\ loop' = "logger_flush"

\* log(e) in buffered mode, with the flush that a full buffer triggers.
LogBuffered(e) ==
    /\ async_logging
    /\ loop = Idle
    /\ status[e] = "new"
    /\ status' = [status EXCEPT ![e] = "pending"]
    /\ logged' = Append(logged, e)
    /\ IF Len(buffer) + 1 >= BufferSize
       THEN BeginLoggerFlush(Append(buffer, e))
       ELSE /\ buffer' = Append(buffer, e)
            /\ UNCHANGED <<loop, flushing>>
    /\ UNCHANGED <<async_logging, entries, chain_state, logger_running, at_stop>>

\* log(e) in synchronous mode: the chain append happens in the call, and an
\* entry that cannot be serialised raises to the caller.  The record keeps the
\* PENDING status the entry was created with.
LogSync(e) ==
    /\ ~async_logging
    /\ loop = Idle
    /\ status[e] = "new"
    /\ logged' = Append(logged, e)
    /\ IF Writable(e)
       THEN CreateChainEntry(e)
       ELSE /\ status' = [status EXCEPT ![e] = "pending"]
            /\ UNCHANGED <<entries, chain_state>>
    /\ UNCHANGED <<async_logging, loop, buffer, flushing, logger_running, at_stop>>

Log(e) == LogBuffered(e) \/ LogSync(e)

\* Mutant: the periodic flush waits for a full buffer.
LoggerFlushLoopWhenFull ==
    /\ loop = Idle
    /\ logger_running
    /\ Len(buffer) >= BufferSize
    /\ BeginLoggerFlush(buffer)
    /\ UNCHANGED <<async_logging, chainVars, logger_running, logged, at_stop>>

\* One pass of _flush_loop: it wakes, and flushes when the buffer is not empty.
LoggerFlushLoop ==
    /\ loop = Idle
    /\ logger_running
    /\ buffer # <<>>
    /\ BeginLoggerFlush(buffer)
    /\ UNCHANGED <<async_logging, chainVars, logger_running, logged, at_stop>>

\* Mutant: the first failure ends the flush.
LoggerFlushEntryGivesUp ==
    /\ loop = "logger_flush"
    /\ LET e == Head(flushing)
       IN  IF Writable(e)
           THEN /\ CreateChainEntry(e)
                /\ flushing' = Tail(flushing)
                /\ loop' = IF Len(flushing) = 1 THEN Idle ELSE loop
           ELSE /\ flushing' = <<>>
                /\ loop' = Idle
                /\ UNCHANGED chainVars
    /\ UNCHANGED <<async_logging, buffer, logger_running, logged, at_stop>>

\* One entry of flush()'s loop: it is written, or its failure is logged and the
\* entry is dropped.
LoggerFlushEntry ==
    /\ loop = "logger_flush"
    /\ LET e == Head(flushing)
       IN  IF Writable(e)
           THEN CreateChainEntry(e)
           ELSE UNCHANGED chainVars
    /\ flushing' = Tail(flushing)
    /\ loop' = IF Len(flushing) = 1 THEN Idle ELSE loop
    /\ UNCHANGED <<async_logging, buffer, logger_running, logged, at_stop>>

\* Mutant: stop() cancels the loop and leaves the buffer.
LoggerStopWithoutFlush ==
    /\ loop = Idle
    /\ logger_running
    /\ logger_running' = FALSE
    /\ at_stop' = Len(logged)
    /\ UNCHANGED <<async_logging, chainVars, loop, buffer, flushing, logged>>

\* stop(): the flush loop is cancelled and what is buffered is flushed.  stop()
\* awaits the cancelled task between the two; that task sleeps and does nothing more,
\* and entries logged meanwhile are buffered and flushed like those before.
LoggerStop ==
    /\ loop = Idle
    /\ logger_running
    /\ logger_running' = FALSE
    /\ at_stop' = Len(logged)
    /\ IF buffer = <<>>
       THEN UNCHANGED <<loop, buffer, flushing>>
       ELSE BeginLoggerFlush(buffer)
    /\ UNCHANGED <<async_logging, chainVars, logged>>

\* POST /verify/{audit_id} and GET /tampered, between two coroutines.
Verify ==
    /\ loop = Idle
    /\ (\E e \in Entry : VerifyEntry(e)) \/ ScanChain
    /\ UNCHANGED <<loop, loggerVars>>

LoggerNext ==
    \/ LoggerStart
    \/ \E e \in Entry : Log(e)
    \/ LoggerFlushLoop
    \/ LoggerFlushEntry
    \/ LoggerStop
    \/ Verify

vars == <<chainVars, loop, loggerVars>>

Init == ChainInit /\ LoggerInit

Spec == Init /\ [][LoggerNext]_vars

\* asyncio resumes a sleeping loop and runs a started coroutine to its next
\* suspension; nothing obliges a client to log, or the service to stop.
FairSpec == Spec /\ WF_vars(LoggerFlushLoop) /\ WF_vars(LoggerFlushEntry)

-----------------------------------------------------------------------------

\* The type invariant of the logger; the buffer stays below the size that
\* forces a flush, and a flush in progress always has an entry left.
LoggerTypeOK ==
    /\ async_logging \in BOOLEAN
    /\ loop \in Loops
    /\ buffer \in Seq(Entry)
    /\ flushing \in Seq(Entry)
    /\ logger_running \in BOOLEAN
    /\ logged \in Seq(Entry)
    /\ at_stop \in 0 .. Len(logged)
    /\ Len(buffer) < BufferSize
    /\ (loop = "logger_flush") <=> (flushing # <<>>)

TypeOK == ChainTypeOK /\ LoggerTypeOK

\* An entry whose write has not happened is still in memory, unless it is one
\* that cannot be written; COMPLETED is only ever said of an entry in the chain.
PendingIsHeld ==
    \A e \in Entry :
        /\ (status[e] = "completed") <=> InChain(e)
        /\ (async_logging /\ status[e] = "pending" /\ Writable(e))
              => (InSeq(e, buffer) \/ InSeq(e, flushing))

\* "flush remaining entries": once stop() has returned, every entry logged
\* before it is in the chain or could not be written.
StopDrains ==
    loop = Idle => \A i \in 1 .. at_stop : Writable(logged[i]) => InChain(logged[i])

\* A chain nobody altered verifies: over every range, entry by entry, and in the
\* scan, whatever was verified before and whichever entries failed.
NoFalseAlarm ==
    /\ \A first, last \in 1 .. Len(entries) : VerifyChainIntegrity(first, last) = {}
    /\ DetectTampering = {}

\* The chain is append-only: a step keeps every stored record's identity, hashes
\* and position, and adds at most one record.
AppendOnly ==
    [][/\ Len(entries') \in {Len(entries), Len(entries) + 1}
       /\ \A i \in DOMAIN entries : [entries'[i] EXCEPT !.verified = entries[i].verified] = entries[i]]_vars

\* The logger implements AuditTrail: the line of entries that wait is the flush in
\* progress followed by the buffer, the trail is the chain's audit ids, and every
\* step of log(), of a flush, of stop() and of a verification is one of the trail's
\* steps or leaves it alone.
Trail == INSTANCE AuditTrail WITH
            Unrecordable <- Unserialisable,
            accepted     <- {e \in Entry : status[e] # "new"},
            line         <- flushing \o buffer,
            trail        <- [i \in DOMAIN entries |-> entries[i].audit_id]

ImplementsTrail == Trail!Spec

\* With the loop running, whatever is buffered is eventually written or dropped:
\* an entry may wait for the next wake-up but never for more traffic.
EventuallyWritten ==
    \A e \in Entry :
        (InSeq(e, buffer) /\ logger_running) ~> (InChain(e) \/ ~Writable(e))
=============================================================================
