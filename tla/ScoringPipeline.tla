--------------------------- MODULE ScoringPipeline ---------------------------
(***************************************************************************)
(* The path of a transaction from its detection events to its evidence     *)
(* bundle: DetectionConsumer of scoring_svc writes the stream              *)
(* ScoringConsumer of evidence_bundle_svc reads.  The producers of         *)
(* detection events and of the rows of detection_signals are outside: they *)
(* publish any message and store the signals of any transaction, before or *)
(* after its event.                                                        *)
(***************************************************************************)
EXTENDS Naturals, Sequences, FiniteSets

CONSTANTS Transaction, Unextractable, ScoringBatch, BundleBatch, MaxEvents, MaxFaults

ASSUME PipelineAssumption ==
    /\ ScoringBatch \in Nat \ {0}
    /\ BundleBatch \in Nat \ {0}
    /\ MaxEvents \in Nat
    /\ MaxFaults \in Nat
    /\ {"no_id", "unparseable"} \cap Transaction = {}

VARIABLES
    detection_events, detection_signals, scoring_group, scorer, scoring_results,
    scoring_errors, bundle_group, bundler, bundles, bundle_events, bundle_errors,
    faults

scorerVars == <<scoring_group, scorer, scoring_errors>>
bundlerVars == <<bundle_group, bundler, bundles, bundle_events, bundle_errors>>
vars == <<detection_events, detection_signals, scorerVars, scoring_results,
          bundlerVars, faults>>

Scoring == INSTANCE DetectionConsumer
Bundling == INSTANCE ScoringConsumer

Init ==
    /\ detection_events = <<>>
    /\ detection_signals = {}
    /\ Scoring!ScorerInit
    /\ Bundling!BundlerInit
    /\ faults = 0

\* xadd to detection.events.
PublishEvent ==
    /\ Len(detection_events) < MaxEvents
    /\ \E body \in Scoring!EventBody :
          detection_events' = Append(detection_events, body)
    /\ UNCHANGED <<detection_signals, scorerVars, scoring_results, bundlerVars, faults>>

\* The signals of a transaction are inserted into detection_signals.
StoreSignals ==
    /\ \E tx \in Transaction \ detection_signals :
          detection_signals' = detection_signals \cup {tx}
    /\ UNCHANGED <<detection_events, scorerVars, scoring_results, bundlerVars, faults>>

Next ==
    \/ PublishEvent
    \/ StoreSignals
    \/ Scoring!ScorerNext /\ UNCHANGED bundlerVars
    \/ Bundling!BundlerNext
          /\ UNCHANGED <<detection_events, scorerVars>>

Spec == Init /\ [][Next]_vars

\* Each service keeps its consumer running for as long as it is up.
FairSpec ==
    /\ Spec
    /\ WF_vars(Scoring!ScorerStep /\ UNCHANGED bundlerVars)
    /\ WF_vars(Bundling!BundlerStep
                  /\ UNCHANGED <<detection_events, scorerVars>>)

-----------------------------------------------------------------------------

Event == 1..MaxEvents
Result == [event : Event, tx : Transaction, kind : Scoring!Kind]
ResultId == 1..Len(scoring_results)

ScorerTypeOK ==
    /\ detection_events \in Seq(Scoring!EventBody)
    /\ Len(detection_events) <= MaxEvents
    /\ detection_signals \in SUBSET Transaction
    /\ scoring_group \in [last : 0..Len(detection_events), pending : SUBSET Event]
    /\ scorer \in [pc : Scoring!ScorerPc, batch : SUBSET Event,
                   todo : SUBSET Result, acking : Event \cup {0}]
    /\ scoring_results \in Seq(Result)
    /\ scoring_errors \in Seq(Event)
    /\ faults \in 0..MaxFaults

BundlerTypeOK ==
    /\ bundle_group \in [last : 0..Len(scoring_results), pending : SUBSET ResultId]
    /\ bundler \in [pc : Bundling!BundlerPc, batch : SUBSET ResultId,
                    todo : SUBSET ResultId, unstored : SUBSET ResultId,
                    broken : SUBSET ResultId, acking : ResultId \cup {0}]
    /\ \A stream \in {bundles, bundle_events, bundle_errors} : stream \in Seq(ResultId)

\* Type invariant: both consumers stay within their streams.
TypeOK == ScorerTypeOK /\ BundlerTypeOK

Elements(stream) == {stream[k] : k \in DOMAIN stream}
Named(i) == i <= Len(detection_events) /\ detection_events[i] \in Transaction

\* The result of event i, or its entry in the error stream, is out.
Answered(i) ==
    \/ \E k \in ResultId : scoring_results[k].event = i
    \/ i \in Elements(scoring_errors)

\* Whatever fails, an event that names a transaction is acknowledged only when it
\* is answered: by its own result or by its entry in the error stream.
AckedIsAnswered == \A i \in Scoring!Acked(scoring_group) : Named(i) => Answered(i)

\* Whatever fails, the results of a transaction are published in the order of its
\* events, one for each event at most: a reader that keeps the last one is current.
ResultsInOrder ==
    \A k, l \in ResultId :
        k < l /\ scoring_results[k].tx = scoring_results[l].tx
            => scoring_results[k].event < scoring_results[l].event

\* Whatever fails, a bundle announced as ready can be retrieved.
AnnouncedIsStored == Elements(bundle_events) \subseteq Elements(bundles)

\* The results whose bundle is stored or reported as an error.
Kept == Elements(bundles) \cup Elements(bundle_errors)

\* Whatever fails, a result is acknowledged only when its bundle is stored or
\* reported as an error.  Only the report of an error bundle can be lost, and each
\* one that is lost takes a fault: a failed report is not the end of the others.
AckedIsKept ==
    LET lost == Bundling!Acked(bundle_group) \ Kept
    IN  /\ \A k \in lost : scoring_results[k].tx \in Unextractable
        /\ Cardinality(lost) <= faults

\* Whatever fails, the bundles of a transaction are stored in the order of its
\* results, one for each result at most.
BundlesInOrder ==
    \A k, l \in DOMAIN bundles :
        k < l /\ scoring_results[bundles[k]].tx = scoring_results[bundles[l]].tx
            => bundles[k] < bundles[l]

\* Whatever fails, results and bundles of a transaction keep the order of its events.
OrderKept == ResultsInOrder /\ BundlesInOrder

\* Failures and restarts never keep a consumer from the messages that follow: it
\* reads them all, unless the last start of its service left it without a consumer.
Drained ==
    /\ \A i \in Event :
          i <= Len(detection_events) ~> (i <= scoring_group.last \/ scorer.pc = "unstarted")
    /\ \A k \in Event :
          k <= Len(scoring_results) ~> (k <= bundle_group.last \/ bundler.pc = "unstarted")

\* Unless something fails, an event that names a transaction leads to a stored
\* bundle, or to a reported error bundle, for that event or a later one of it.
EventIsBundled ==
    \A i \in Event :
        Named(i)
            ~> \/ faults > 0
               \/ \E b \in Elements(bundles) \cup Elements(bundle_errors) :
                     /\ Named(i)
                     /\ scoring_results[b].tx = detection_events[i]
                     /\ scoring_results[b].event >= i

\* A message the consumer leaves unacknowledged on error is retried: it does not
\* stay pending for ever while the consumer runs.
PendingIsRetried ==
    \A i \in Event :
        (i \in scorer.batch /\ Named(i))
            ~> (i \notin scoring_group.pending \/ scorer.pc = "unstarted")
=============================================================================
