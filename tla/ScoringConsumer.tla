--------------------------- MODULE ScoringConsumer ---------------------------
(***************************************************************************)
(* ScoringConsumer of evidence_bundle_svc: reads scoring results in        *)
(* batches, assembles and stores an evidence bundle for each transaction,  *)
(* announces the bundles and acknowledges the results.  The database is    *)
(* available, so bundles survive a restart.                                *)
(*                                                                         *)
(* Steps and faults are as in DetectionConsumer.  scoring_svc is the only  *)
(* writer of the stream and every message it writes parses and names its   *)
(* transaction, so the branches of _process_messages for other messages    *)
(* are not reached.                                                        *)
(***************************************************************************)
EXTENDS RedisStream

CONSTANTS
    Unextractable,   \* transactions with a signal whose benchmarks do not parse
    BundleBatch,     \* BATCH_SIZE of evidence_bundle_svc
    MaxFaults        \* bound: failed calls and restarts

VARIABLES
    detection_signals,  \* transactions with rows in detection_signals
    scoring_results,    \* the stream INPUT_STREAM
    bundle_group,       \* CONSUMER_GROUP on scoring_results
    bundler,            \* the consumer's coroutine and its locals
    bundles,            \* rows of evidence_bundles, by the result they are made of
    bundle_events,      \* the stream OUTPUT_STREAM, by the same
    bundle_errors,      \* the stream ERROR_STREAM, by the same
    faults              \* failed calls and restarts so far

\* _process_messages between its awaits.  todo: the results whose bundles are not
\* yet announced and acknowledged; unstored: those whose bundles are not stored;
\* broken: those whose bundle is an error bundle.
Reading ==
    [pc |-> "reading", batch |-> {}, todo |-> {}, unstored |-> {}, broken |-> {},
     acking |-> 0]

\* The task of consume_loop ended in initialize(), or was never created because
\* main.py could not reach Redis.
Unstarted == [Reading EXCEPT !.pc = "unstarted"]

BundlerPc ==
    {"unstarted", "reading", "assembling", "storing", "announcing", "acking"}

BundlerInit ==
    /\ bundle_group = NewGroup
    /\ bundler = Reading
    /\ bundles = <<>>
    /\ bundle_events = <<>>
    /\ bundle_errors = <<>>

Fault == faults < MaxFaults /\ faults' = faults + 1

\* The exception reaches a handler that only logs it.
Abandon == bundler' = Reading

\* Mutant: the first result of a transaction is kept.
LatestIsFirst(batch) ==
    {i \in batch :
        \A j \in batch : scoring_results[j].tx = scoring_results[i].tx => i <= j}

\* scoring_results and message_map: one result per transaction, the last.
Latest(batch) ==
    {i \in batch :
        \A j \in batch : scoring_results[j].tx = scoring_results[i].tx => j <= i}

\* xreadgroup
ReadResults ==
    LET batch == NextBatch(bundle_group, scoring_results, BundleBatch)
    IN  /\ bundler.pc = "reading"
        /\ Undelivered(bundle_group, scoring_results)
        /\ bundle_group' = XReadGroup(bundle_group, batch)
        /\ \/ /\ bundler' = [Reading EXCEPT !.pc = "assembling", !.batch = batch]
              /\ UNCHANGED faults
           \/ Fault /\ Abandon            \* the reply is lost
        /\ UNCHANGED <<detection_signals, scoring_results, bundles, bundle_events, bundle_errors>>

\* Where the batch goes on when the bundles of `left` are still to be stored.
Store(left) == IF left = {} THEN "announcing" ELSE "storing"

\* Results whose bundle is an error bundle: the benchmarks of a signal in the
\* database raise while the bundle is put together.
ErrorBundles(results) ==
    {i \in results : scoring_results[i].tx \in Unextractable \cap detection_signals}

\* assemble_bundles_bulk: a failing bulk fetch ends the batch.
AssembleBundles ==
    LET kept == Latest(bundler.batch)
        sound == kept \ ErrorBundles(kept)
    IN  /\ bundler.pc = "assembling"
        /\ \/ /\ bundler' = [bundler EXCEPT !.pc = Store(sound), !.todo = kept,
                                             !.unstored = sound,
                                             !.broken = kept \ sound]
              /\ UNCHANGED faults
           \/ Fault /\ Abandon
        /\ UNCHANGED <<detection_signals, scoring_results, bundle_group, bundles,
                       bundle_events, bundle_errors>>

\* Mutant: the batch is acknowledged although a bundle could not be stored.
StoreBundleAcksFailure ==
    /\ bundler.pc = "storing"
    /\ \E i \in bundler.unstored :
          LET left == bundler.unstored \ {i}
          IN  \/ /\ bundles' = Append(bundles, i)
                 /\ bundler' = [bundler EXCEPT !.pc = Store(left), !.unstored = left]
                 /\ UNCHANGED <<bundle_group, faults>>
              \/ /\ Fault
                 /\ bundle_group' = XAck(bundle_group, bundler.batch)
                 /\ Abandon
                 /\ UNCHANGED bundles
    /\ UNCHANGED <<detection_signals, scoring_results, bundle_events, bundle_errors>>

\* store_bundles_bulk: one bundle after the other, error bundles skipped; a
\* failing one ends the batch, with its row in evidence_bundles written or not.
\* The evidence items follow in a second statement, outside a transaction: when it
\* is the one that fails, the row stays.  Bundles are retrieved from the row alone
\* and nothing in the service reads the items, so these are left out.
StoreBundle ==
    /\ bundler.pc = "storing"
    /\ \E i \in bundler.unstored :
          LET left == bundler.unstored \ {i}
          IN  \/ /\ bundles' = Append(bundles, i)
                 /\ bundler' = [bundler EXCEPT !.pc = Store(left), !.unstored = left]
                 /\ UNCHANGED faults
              \/ /\ Fault
                 /\ bundles' \in {bundles, Append(bundles, i)}
                 /\ Abandon
    /\ UNCHANGED <<detection_signals, scoring_results, bundle_group, bundle_events, bundle_errors>>

\* Mutant: an error bundle is announced like any other.
AnnounceBundleIgnoresStatus ==
    /\ bundler.pc = "announcing"
    /\ \E i \in bundler.todo :
          /\ bundle_events' = Append(bundle_events, i)
          /\ bundler' = [bundler EXCEPT !.pc = "acking", !.acking = i]
    /\ UNCHANGED <<detection_signals, scoring_results, bundle_group, bundles, bundle_errors, faults>>

\* _publish_bundle_event or _publish_error_event: a failure is only logged.
AnnounceBundle ==
    /\ bundler.pc = "announcing"
    /\ \E i \in bundler.todo :
          /\ \/ /\ i \notin bundler.broken
                /\ bundle_events' = Append(bundle_events, i)
                /\ UNCHANGED <<bundle_errors, faults>>
             \/ /\ i \in bundler.broken
                /\ bundle_errors' = Append(bundle_errors, i)
                /\ UNCHANGED <<bundle_events, faults>>
             \/ Fault /\ UNCHANGED <<bundle_events, bundle_errors>>
          /\ bundler' = [bundler EXCEPT !.pc = "acking", !.acking = i]
    /\ UNCHANGED <<detection_signals, scoring_results, bundle_group, bundles>>

\* _ack: a failure is only logged and the loop goes on.
AckResult ==
    LET left == bundler.todo \ {bundler.acking}
    IN  /\ bundler.pc = "acking"
        /\ \/ /\ bundle_group' = XAck(bundle_group, {bundler.acking})
              /\ UNCHANGED faults
           \/ Fault /\ UNCHANGED bundle_group
        /\ bundler' = IF left = {} THEN Reading
                      ELSE [bundler EXCEPT !.pc = "announcing", !.todo = left,
                                           !.acking = 0]
        /\ UNCHANGED <<detection_signals, scoring_results, bundles, bundle_events, bundle_errors>>

\* The service stops, or is killed, and starts again, with a consumer or without.
RestartBundler ==
    /\ Fault
    /\ bundler' \in {Reading, Unstarted} \ {bundler}
    /\ UNCHANGED <<detection_signals, scoring_results, bundle_group, bundles, bundle_events,
                   bundle_errors>>

BundlerStep ==
    \/ ReadResults
    \/ AssembleBundles
    \/ StoreBundle
    \/ AnnounceBundle
    \/ AckResult

BundlerNext == BundlerStep \/ RestartBundler
=============================================================================
