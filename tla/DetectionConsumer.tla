-------------------------- MODULE DetectionConsumer --------------------------
(***************************************************************************)
(* DetectionConsumer of scoring_svc: reads detection events in batches,    *)
(* scores the transactions they name from the signals in the database,     *)
(* publishes the results and acknowledges the events.                      *)
(*                                                                         *)
(* Every await on Redis or on the database is a step, because the other    *)
(* services go on meanwhile.  Any of these calls may fail, before or after *)
(* the server carried it out, and the service may be restarted; `faults`   *)
(* counts both against MaxFaults.  A start whose initialize() raises       *)
(* leaves the service up without a consumer, until it is restarted.        *)
(*                                                                         *)
(* Nothing outside the consumer reads the pending list, so the loop that   *)
(* parses a batch and acknowledges its unreadable messages is one step.    *)
(***************************************************************************)
EXTENDS RedisStream

CONSTANTS
    Transaction,     \* transaction ids
    ScoringBatch,    \* BATCH_SIZE of scoring_svc
    MaxEvents,       \* bound: detection events published
    MaxFaults        \* bound: failed calls and restarts

VARIABLES
    detection_events,   \* the stream INPUT_STREAM
    detection_signals,  \* transactions with rows in detection_signals
    scoring_group,      \* CONSUMER_GROUP on detection_events
    scorer,             \* the consumer's coroutine and its locals
    scoring_results,    \* the stream OUTPUT_STREAM
    scoring_errors,     \* the stream ERROR_STREAM
    faults              \* failed calls and restarts so far

\* A message without transaction_id, and one whose "event" field does not parse.
NoId == "no_id"
Unparseable == "unparseable"
EventBody == Transaction \cup {NoId, Unparseable}

Kind == {"scored", "error"}

\* _process_messages between its awaits.  batch: the messages of this call;
\* todo: the results still to be published or acknowledged.
Reading == [pc |-> "reading", batch |-> {}, todo |-> {}, acking |-> 0]

\* The task of consume_loop ended in initialize(), which is outside its try.
Unstarted == [Reading EXCEPT !.pc = "unstarted"]

ScorerPc == {"unstarted", "reading", "parsing", "fetching", "publishing", "acking"}

ScorerInit ==
    /\ scoring_group = NewGroup
    /\ scorer = Reading
    /\ scoring_results = <<>>
    /\ scoring_errors = <<>>

\* A call of the consumer fails, or the service is restarted.
Fault(n) == faults + n <= MaxFaults /\ faults' = faults + n

\* Mutant: the exception ends the consumer.
AbandonStops == scorer' = [Reading EXCEPT !.pc = "stopped"]

\* The exception reaches the handler that only logs it: the rest of the batch is
\* given up, with its messages pending.
Abandon == scorer' = Reading

\* The messages of `batch` that name a transaction.
Named(batch) == {i \in batch : detection_events[i] \in Transaction}

\* Mutant: a result for every message.
LatestOfMessage(batch) == Named(batch)

\* message_map: one message per transaction, the last of the batch.
Latest(batch) ==
    {i \in Named(batch) :
        \A j \in Named(batch) : detection_events[j] = detection_events[i] => j <= i}

\* xreadgroup
ReadEvents ==
    LET batch == NextBatch(scoring_group, detection_events, ScoringBatch)
    IN  /\ scorer.pc = "reading"
        /\ Undelivered(scoring_group, detection_events)
        /\ scoring_group' = XReadGroup(scoring_group, batch)
        /\ \/ /\ scorer' = [Reading EXCEPT !.pc = "parsing", !.batch = batch]
              /\ UNCHANGED faults
           \/ Fault(1) /\ Abandon         \* the reply is lost
        /\ UNCHANGED <<detection_events, detection_signals, scoring_results,
                       scoring_errors>>

\* The parsing loop: unreadable messages are acknowledged, messages without a
\* transaction are passed over.
ParseEvents ==
    LET bad == {i \in scorer.batch : detection_events[i] = Unparseable}
    IN  /\ scorer.pc = "parsing"
        /\ \/ /\ scoring_group' = XAck(scoring_group, bad)
              /\ scorer' = IF Named(scorer.batch) = {} THEN Reading
                           ELSE [scorer EXCEPT !.pc = "fetching"]
              /\ UNCHANGED faults
           \/ \E i \in bad :              \* the xack of message i fails
                 /\ Fault(1)
                 /\ \E last \in {i - 1, i} :
                       scoring_group' = XAck(scoring_group, {j \in bad : j <= last})
                 /\ Abandon
        /\ UNCHANGED <<detection_events, detection_signals, scoring_results,
                       scoring_errors>>

\* score_transactions_bulk answers a transaction without signals with an error
\* result of tier LOW.
ScoreResult(i) ==
    [event |-> i,
     tx |-> detection_events[i],
     kind |-> IF detection_events[i] \in detection_signals THEN "scored" ELSE "error"]

\* Mutant: the batch is acknowledged although its signals could not be fetched.
FetchSignalsAcksFailure ==
    /\ scorer.pc = "fetching"
    /\ \/ /\ scorer' = [scorer EXCEPT !.pc = "publishing",
                                      !.todo = {ScoreResult(i) : i \in Latest(scorer.batch)}]
          /\ UNCHANGED <<faults, scoring_group>>
       \/ Fault(1) /\ Abandon /\ scoring_group' = XAck(scoring_group, scorer.batch)
    /\ UNCHANGED <<detection_events, detection_signals, scoring_results,
                   scoring_errors>>

\* fetch_signals_bulk, then the synchronous scoring of every transaction.
FetchSignals ==
    /\ scorer.pc = "fetching"
    /\ \/ /\ scorer' = [scorer EXCEPT !.pc = "publishing",
                                      !.todo = {ScoreResult(i) : i \in Latest(scorer.batch)}]
          /\ UNCHANGED faults
       \/ Fault(1) /\ Abandon
    /\ UNCHANGED <<detection_events, detection_signals, scoring_group,
                   scoring_results, scoring_errors>>

\* _publish_result: the result, or an entry of the error stream when it fails.
PublishResult ==
    /\ scorer.pc = "publishing"
    /\ \E r \in scorer.todo :
          \/ /\ scoring_results' = Append(scoring_results, r)
             /\ scorer' = [scorer EXCEPT !.pc = "acking", !.acking = r.event]
             /\ UNCHANGED <<scoring_errors, faults>>
          \/ /\ Fault(1)
             /\ scoring_results' \in {scoring_results, Append(scoring_results, r)}
             /\ scoring_errors' = Append(scoring_errors, r.event)
             /\ scorer' = [scorer EXCEPT !.pc = "acking", !.acking = r.event]
          \/ /\ Fault(2)
             /\ scoring_results' \in {scoring_results, Append(scoring_results, r)}
             /\ scoring_errors' \in {scoring_errors, Append(scoring_errors, r.event)}
             /\ Abandon
    /\ UNCHANGED <<detection_events, detection_signals, scoring_group>>

\* xack of the published result's event.
AckEvent ==
    LET left == {r \in scorer.todo : r.event # scorer.acking}
    IN  /\ scorer.pc = "acking"
        /\ \/ /\ scoring_group' = XAck(scoring_group, {scorer.acking})
              /\ scorer' = IF left = {} THEN Reading
                           ELSE [scorer EXCEPT !.pc = "publishing", !.todo = left,
                                               !.acking = 0]
              /\ UNCHANGED faults
           \/ /\ Fault(1)
              /\ scoring_group' \in {scoring_group,
                                     XAck(scoring_group, {scorer.acking})}
              /\ Abandon
        /\ UNCHANGED <<detection_events, detection_signals, scoring_results,
                       scoring_errors>>

\* The service stops, or is killed, and starts again: initialize() finds the
\* group in place, or fails for another reason.
RestartScorer ==
    /\ Fault(1)
    /\ scorer' \in {Reading, Unstarted} \ {scorer}
    /\ UNCHANGED <<detection_events, detection_signals, scoring_group,
                   scoring_results, scoring_errors>>

ScorerStep ==
    \/ ReadEvents
    \/ ParseEvents
    \/ FetchSignals
    \/ PublishResult
    \/ AckEvent

ScorerNext == ScorerStep \/ RestartScorer
=============================================================================
