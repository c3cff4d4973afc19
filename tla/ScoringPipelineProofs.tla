------------------------ MODULE ScoringPipelineProofs ------------------------
(***************************************************************************)
(* Theorems about ScoringPipeline for any number of transactions, events,  *)
(* faults and any batch sizes: its types, that neither consumer            *)
(* acknowledges a message before it is answered or kept, and that results  *)
(* and bundles of a transaction keep the order of its events.              *)
(***************************************************************************)
EXTENDS ScoringPipeline, FiniteSetTheorems, TLAPS

\* What XREADGROUP delivers is an interval, and its maximum the CHOOSE of XReadGroup.
LEMMA Delivery ==
    ASSUME NEW group, NEW stream, Len(stream) \in Nat,
           group.last \in 0..Len(stream), group.last < Len(stream),
           NEW count \in Nat \ {0}
    PROVE  \E top \in 1..Len(stream) :
              /\ group.last < top
              /\ Scoring!NextBatch(group, stream, count) = (group.last + 1)..top
              /\ Scoring!XReadGroup(group, Scoring!NextBatch(group, stream, count))
                   = [last |-> top, pending |-> group.pending \cup ((group.last + 1)..top)]
<1> DEFINE batch == Scoring!NextBatch(group, stream, count)
           top == CHOOSE i \in batch : \A j \in batch : j <= i
<1>1. batch = {i \in 1..Len(stream) : group.last < i /\ i <= group.last + count}
  BY DEF Scoring!NextBatch
<1>2. Scoring!XReadGroup(group, batch) = [last |-> top, pending |-> group.pending \cup batch]
  BY DEF Scoring!XReadGroup
<1> HIDE DEF batch
<1>3. top \in 1..Len(stream) /\ group.last < top /\ batch = (group.last + 1)..top
  <2> DEFINE m == IF group.last + count <= Len(stream) THEN group.last + count
                  ELSE Len(stream)
  <2>1. m \in batch /\ \A j \in batch : j <= m
    BY <1>1
  <2>2. top \in batch /\ \A j \in batch : j <= top
    BY <2>1
  <2>3. batch \subseteq 1..Len(stream)
    BY <1>1
  <2>4. batch = (group.last + 1)..m
    BY <1>1
  <2>5. m \in 1..Len(stream) /\ group.last < m
    OBVIOUS
  <2> HIDE DEF top, m
  <2>6. top = m
    BY <2>1, <2>2, <2>3
  <2> QED BY <2>4, <2>5, <2>6
<1> HIDE DEF top
<1>4. Scoring!XReadGroup(group, batch)
        = [last |-> top, pending |-> group.pending \cup ((group.last + 1)..top)]
  BY <1>2, <1>3
<1> QED BY <1>3, <1>4 DEF batch

\* Appending keeps a sequence's elements in place and adds one.
LEMMA AppendFacts ==
    ASSUME NEW S, NEW s \in Seq(S), NEW x \in S
    PROVE  /\ Append(s, x) \in Seq(S)
           /\ Len(Append(s, x)) = Len(s) + 1
           /\ \A i \in 1..Len(s) : Append(s, x)[i] = s[i]
           /\ Append(s, x)[Len(s) + 1] = x
           /\ Elements(Append(s, x)) = Elements(s) \cup {x}
<1>1. /\ Append(s, x) \in Seq(S)
      /\ Len(Append(s, x)) = Len(s) + 1
      /\ \A i \in 1..Len(s) : Append(s, x)[i] = s[i]
      /\ Append(s, x)[Len(s) + 1] = x
      /\ DOMAIN Append(s, x) = 1..(Len(s) + 1)
      /\ DOMAIN s = 1..Len(s)
      /\ Len(s) \in Nat
  OBVIOUS
<1>2. Elements(Append(s, x)) = Elements(s) \cup {x}
  <2>1. 1..(Len(s) + 1) = 1..Len(s) \cup {Len(s) + 1}
    BY <1>1
  <2> QED BY <1>1, <2>1 DEF Elements
<1> QED BY <1>1, <1>2

-----------------------------------------------------------------------------
\* Type correctness: the half of the scoring consumer.

LEMMA InitTypes == Init => TypeOK
BY PipelineAssumption
DEF Init, TypeOK, ScorerTypeOK, BundlerTypeOK, Scoring!ScorerInit, Bundling!BundlerInit,
    Scoring!NewGroup, Bundling!NewGroup, Scoring!Reading, Bundling!Reading,
    Scoring!ScorerPc, Bundling!BundlerPc, Event, ResultId

LEMMA ReadEventsTypes ==
    ASSUME ScorerTypeOK, Scoring!ReadEvents
    PROVE  ScorerTypeOK'
<1> USE PipelineAssumption
<1>1. Len(detection_events) \in Nat /\ scoring_group.last \in 0..Len(detection_events)
  BY DEF ScorerTypeOK
<1>2. scoring_group.last < Len(detection_events)
  BY DEF Scoring!ReadEvents, Scoring!Undelivered
<1>3. PICK top \in 1..Len(detection_events) :
         /\ Scoring!NextBatch(scoring_group, detection_events, ScoringBatch)
               = (scoring_group.last + 1)..top
         /\ scoring_group' = [last |-> top,
                              pending |-> scoring_group.pending \cup ((scoring_group.last + 1)..top)]
  BY <1>1, <1>2, Delivery DEF Scoring!ReadEvents
<1>4. (scoring_group.last + 1)..top \in SUBSET Event /\ top \in 0..Len(detection_events)
  BY <1>1 DEF ScorerTypeOK, Event
<1>5. scorer' \in [pc : Scoring!ScorerPc, batch : SUBSET Event,
                   todo : SUBSET Result, acking : Event \cup {0}]
  <2>1. Scoring!Reading \in [pc : Scoring!ScorerPc, batch : SUBSET Event,
                             todo : SUBSET Result, acking : Event \cup {0}]
    BY DEF Scoring!Reading, Scoring!ScorerPc
  <2>2. \/ scorer' = [Scoring!Reading EXCEPT !.pc = "parsing",
                                              !.batch = (scoring_group.last + 1)..top]
        \/ scorer' = Scoring!Reading
    BY <1>3 DEF Scoring!ReadEvents, Scoring!Abandon
  <2> QED BY <1>4, <2>1, <2>2 DEF Scoring!ScorerPc
<1>6. faults' \in 0..MaxFaults
  BY DEF Scoring!ReadEvents, Scoring!Fault, ScorerTypeOK
<1>7. UNCHANGED <<detection_events, detection_signals, scoring_results, scoring_errors>>
  BY DEF Scoring!ReadEvents
<1>8. scoring_group' \in [last : 0..Len(detection_events), pending : SUBSET Event]
  BY <1>3, <1>4 DEF ScorerTypeOK
<1> QED BY <1>5, <1>6, <1>7, <1>8 DEF ScorerTypeOK, Event, Result

\* The locals of _process_messages.
ScorerLocals == [pc : Scoring!ScorerPc, batch : SUBSET Event,
                 todo : SUBSET Result, acking : Event \cup {0}]

LEMMA ReadingIsLocals == {Scoring!Reading, Scoring!Unstarted} \subseteq ScorerLocals
BY DEF ScorerLocals, Scoring!Reading, Scoring!Unstarted, Scoring!ScorerPc

\* What a step of the consumer after its read leaves alone.
LEMMA ScorerTypesKept ==
    ASSUME ScorerTypeOK,
           UNCHANGED <<detection_events, detection_signals>>,
           scoring_group' = scoring_group
             \/ \E ids : scoring_group' = Scoring!XAck(scoring_group, ids),
           scorer' \in ScorerLocals,
           scoring_results' \in Seq(Result),
           scoring_errors' \in Seq(Event),
           \/ faults' = faults
           \/ \E n \in {1, 2} : Scoring!Fault(n)
    PROVE  ScorerTypeOK'
<1>1. scoring_group' \in [last : 0..Len(detection_events), pending : SUBSET Event]
  BY DEF ScorerTypeOK, Scoring!XAck
<1>2. faults' \in 0..MaxFaults
  BY PipelineAssumption DEF ScorerTypeOK, Scoring!Fault
<1> QED BY <1>1, <1>2 DEF ScorerTypeOK, ScorerLocals, Event, Result

LEMMA ParseEventsTypes ==
    ASSUME ScorerTypeOK, Scoring!ParseEvents
    PROVE  ScorerTypeOK'
<1>1. \/ faults' = faults
      \/ \E n \in {1, 2} : Scoring!Fault(n)
  BY DEF Scoring!ParseEvents
<1>2. \E ids : scoring_group' = Scoring!XAck(scoring_group, ids)
  BY DEF Scoring!ParseEvents
<1>3. scorer' = Scoring!Reading \/ scorer' = [scorer EXCEPT !.pc = "fetching"]
  BY DEF Scoring!ParseEvents, Scoring!Abandon
<1>4. scorer' \in ScorerLocals
  BY <1>3, ReadingIsLocals DEF ScorerTypeOK, ScorerLocals, Scoring!ScorerPc
<1>5. UNCHANGED <<detection_events, detection_signals, scoring_results, scoring_errors>>
  BY DEF Scoring!ParseEvents
<1> QED BY <1>1, <1>2, <1>4, <1>5, ScorerTypesKept DEF ScorerTypeOK

LEMMA FetchSignalsTypes ==
    ASSUME ScorerTypeOK, Scoring!FetchSignals
    PROVE  ScorerTypeOK'
<1> DEFINE results == {Scoring!ScoreResult(i) : i \in Scoring!Latest(scorer.batch)}
<1>1. \/ faults' = faults
      \/ \E n \in {1, 2} : Scoring!Fault(n)
  BY DEF Scoring!FetchSignals
<1>2. results \in SUBSET Result
  <2> SUFFICES ASSUME NEW i \in Scoring!Latest(scorer.batch)
               PROVE  Scoring!ScoreResult(i) \in Result
    OBVIOUS
  <2>1. i \in Event /\ detection_events[i] \in Transaction
    BY DEF Scoring!Latest, Scoring!Named, ScorerTypeOK
  <2> QED BY <2>1 DEF Scoring!ScoreResult, Scoring!Kind, Result
<1>3. \/ scorer' = [scorer EXCEPT !.pc = "publishing", !.todo = results]
      \/ scorer' = Scoring!Reading
  BY DEF Scoring!FetchSignals, Scoring!Abandon
<1> HIDE DEF results
<1>4. scorer' \in ScorerLocals
  BY <1>2, <1>3, ReadingIsLocals DEF ScorerTypeOK, ScorerLocals, Scoring!ScorerPc
<1>5. UNCHANGED <<detection_events, detection_signals, scoring_group, scoring_results,
                  scoring_errors>>
  BY DEF Scoring!FetchSignals
<1> QED BY <1>1, <1>4, <1>5, ScorerTypesKept DEF ScorerTypeOK

LEMMA PublishResultTypes ==
    ASSUME ScorerTypeOK, Scoring!PublishResult
    PROVE  ScorerTypeOK' /\ Len(scoring_results) <= Len(scoring_results')
<1>1. PICK r \in scorer.todo :
         /\ scoring_results' \in {scoring_results, Append(scoring_results, r)}
         /\ scoring_errors' \in {scoring_errors, Append(scoring_errors, r.event)}
         /\ \/ scorer' = [scorer EXCEPT !.pc = "acking", !.acking = r.event]
            \/ scorer' = Scoring!Reading
         /\ \/ faults' = faults
            \/ \E n \in {1, 2} : Scoring!Fault(n)
  BY DEF Scoring!PublishResult, Scoring!Abandon
<1>2. r \in Result /\ r.event \in Event
  BY DEF ScorerTypeOK, Result
<1>3. /\ scoring_results' \in Seq(Result)
      /\ scoring_errors' \in Seq(Event)
      /\ Len(scoring_results) <= Len(scoring_results')
  <2>1. scoring_results \in Seq(Result) /\ scoring_errors \in Seq(Event)
    BY DEF ScorerTypeOK
  <2>2. /\ Append(scoring_results, r) \in Seq(Result)
        /\ Len(Append(scoring_results, r)) = Len(scoring_results) + 1
    BY <1>2, <2>1, AppendFacts
  <2>3. Append(scoring_errors, r.event) \in Seq(Event)
    BY <1>2, <2>1, AppendFacts
  <2>4. Len(scoring_results) \in Nat
    BY <2>1
  <2>5. scoring_results' = scoring_results \/ scoring_results' = Append(scoring_results, r)
    BY <1>1
  <2>6. scoring_errors' = scoring_errors \/ scoring_errors' = Append(scoring_errors, r.event)
    BY <1>1
  <2>7. scoring_results' \in Seq(Result) /\ Len(scoring_results) <= Len(scoring_results')
    BY <2>1, <2>2, <2>4, <2>5
  <2>8. scoring_errors' \in Seq(Event)
    BY <2>1, <2>3, <2>6
  <2> QED BY <2>7, <2>8
<1>4. scorer' \in ScorerLocals
  BY <1>1, <1>2, ReadingIsLocals DEF ScorerTypeOK, ScorerLocals, Scoring!ScorerPc
<1>5. UNCHANGED <<detection_events, detection_signals, scoring_group>>
  BY DEF Scoring!PublishResult
<1> QED BY <1>1, <1>3, <1>4, <1>5, ScorerTypesKept

LEMMA AckEventTypes ==
    ASSUME ScorerTypeOK, Scoring!AckEvent
    PROVE  ScorerTypeOK'
<1> DEFINE left == {r \in scorer.todo : r.event # scorer.acking}
<1>1. \/ faults' = faults
      \/ \E n \in {1, 2} : Scoring!Fault(n)
  BY DEF Scoring!AckEvent
<1>2. scoring_group' = scoring_group
        \/ \E ids : scoring_group' = Scoring!XAck(scoring_group, ids)
  BY DEF Scoring!AckEvent
<1>3. \/ scorer' = Scoring!Reading
      \/ scorer' = [scorer EXCEPT !.pc = "publishing", !.todo = left, !.acking = 0]
  BY DEF Scoring!AckEvent, Scoring!Abandon
<1> left \in SUBSET Result
  BY DEF ScorerTypeOK
<1> HIDE DEF left
<1>4. scorer' \in ScorerLocals
  BY <1>3, ReadingIsLocals DEF ScorerTypeOK, ScorerLocals, Scoring!ScorerPc
<1>5. UNCHANGED <<detection_events, detection_signals, scoring_results, scoring_errors>>
  BY DEF Scoring!AckEvent
<1> QED BY <1>1, <1>2, <1>4, <1>5, ScorerTypesKept DEF ScorerTypeOK

LEMMA RestartScorerTypes ==
    ASSUME ScorerTypeOK, Scoring!RestartScorer
    PROVE  ScorerTypeOK'
<1>1. scorer' \in ScorerLocals
  BY ReadingIsLocals DEF Scoring!RestartScorer
<1>2. /\ UNCHANGED <<detection_events, detection_signals, scoring_group, scoring_results,
                    scoring_errors>>
      /\ Scoring!Fault(1)
  BY DEF Scoring!RestartScorer
<1> QED BY <1>1, <1>2, ScorerTypesKept DEF ScorerTypeOK

LEMMA EnvironmentTypes ==
    ASSUME ScorerTypeOK, PublishEvent \/ StoreSignals
    PROVE  ScorerTypeOK'
<1>1. CASE PublishEvent
  <2>1. PICK body \in Scoring!EventBody : detection_events' = Append(detection_events, body)
    BY <1>1 DEF PublishEvent
  <2>2. detection_events \in Seq(Scoring!EventBody) /\ Len(detection_events) < MaxEvents
    BY <1>1 DEF PublishEvent, ScorerTypeOK
  <2>3. /\ detection_events' \in Seq(Scoring!EventBody)
        /\ Len(detection_events') = Len(detection_events) + 1
        /\ Len(detection_events) \in Nat
    BY <2>1, <2>2, AppendFacts
  <2>4. UNCHANGED <<detection_signals, scoring_group, scorer, scoring_errors,
                    scoring_results, faults>>
    BY <1>1 DEF PublishEvent, scorerVars
  <2>5. scoring_group' \in [last : 0..Len(detection_events'), pending : SUBSET Event]
    BY <2>3, <2>4 DEF ScorerTypeOK
  <2>6. Len(detection_events') <= MaxEvents
    BY <2>2, <2>3, PipelineAssumption
  <2> QED BY <2>3, <2>4, <2>5, <2>6 DEF ScorerTypeOK, Event, Result
<1>2. CASE StoreSignals
  BY <1>2 DEF StoreSignals, scorerVars, ScorerTypeOK, Event, Result
<1> QED BY <1>1, <1>2

\* A step of the bundle consumer leaves the types of the other half alone.
LEMMA BundlerKeepsScorerTypes ==
    ASSUME ScorerTypeOK, Bundling!BundlerNext,
           UNCHANGED <<detection_events, scorerVars>>
    PROVE  ScorerTypeOK' /\ UNCHANGED <<detection_signals, scoring_results>>
<1>1. UNCHANGED <<detection_signals, scoring_results>>
      /\ (faults' = faults \/ Bundling!Fault)
  BY DEF Bundling!BundlerNext, Bundling!BundlerStep, Bundling!ReadResults,
         Bundling!AssembleBundles, Bundling!StoreBundle, Bundling!AnnounceBundle,
         Bundling!AckResult, Bundling!RestartBundler
<1>2. faults' \in 0..MaxFaults
  BY <1>1, PipelineAssumption DEF Bundling!Fault, ScorerTypeOK
<1> QED BY <1>1, <1>2 DEF scorerVars, ScorerTypeOK, Event, Result

-----------------------------------------------------------------------------
\* Type correctness: the half of the bundle consumer.

\* Its types are those of the results there are: more results keep them.
LEMMA BundlerTypesGrow ==
    ASSUME BundlerTypeOK, UNCHANGED bundlerVars,
           Len(scoring_results) \in Nat, Len(scoring_results') \in Nat,
           Len(scoring_results) <= Len(scoring_results')
    PROVE  BundlerTypeOK'
<1>1. ResultId \subseteq ResultId' /\ 0..Len(scoring_results) \subseteq 0..Len(scoring_results')
  BY DEF ResultId
<1>2. \A S, T : S \subseteq T => Seq(S) \subseteq Seq(T)
  OBVIOUS
<1>3. Seq(ResultId) \subseteq Seq(ResultId')
  BY <1>1, <1>2
<1>4. UNCHANGED <<bundle_group, bundler, bundles, bundle_events, bundle_errors>>
  BY DEF bundlerVars
<1>5. bundle_group' \in [last : 0..Len(scoring_results'), pending : SUBSET ResultId']
  BY <1>1, <1>4 DEF BundlerTypeOK
<1>6. bundler' \in [pc : Bundling!BundlerPc, batch : SUBSET ResultId',
                    todo : SUBSET ResultId', unstored : SUBSET ResultId',
                    broken : SUBSET ResultId', acking : ResultId' \cup {0}]
  BY <1>1, <1>4 DEF BundlerTypeOK
<1>7. \A stream \in {bundles', bundle_events', bundle_errors'} : stream \in Seq(ResultId')
  BY <1>3, <1>4 DEF BundlerTypeOK
<1> QED BY <1>5, <1>6, <1>7 DEF BundlerTypeOK

\* The locals of _process_messages.
BundlerLocals == [pc : Bundling!BundlerPc, batch : SUBSET ResultId,
                  todo : SUBSET ResultId, unstored : SUBSET ResultId,
                  broken : SUBSET ResultId, acking : ResultId \cup {0}]

LEMMA BundlerReadingIsLocals ==
    {Bundling!Reading, Bundling!Unstarted} \subseteq BundlerLocals
BY DEF BundlerLocals, Bundling!Reading, Bundling!Unstarted, Bundling!BundlerPc

LEMMA BundlerTypesKept ==
    ASSUME BundlerTypeOK, UNCHANGED scoring_results,
           \/ bundle_group' = bundle_group
           \/ \E ids : bundle_group' = Bundling!XAck(bundle_group, ids),
           bundler' \in BundlerLocals,
           bundles' \in Seq(ResultId),
           bundle_events' \in Seq(ResultId),
           bundle_errors' \in Seq(ResultId)
    PROVE  BundlerTypeOK'
<1>1. bundle_group' \in [last : 0..Len(scoring_results), pending : SUBSET ResultId]
  BY DEF BundlerTypeOK, Bundling!XAck
<1>2. ResultId' = ResultId
  BY DEF ResultId
<1> QED BY <1>1, <1>2 DEF BundlerTypeOK, BundlerLocals

LEMMA ReadResultsTypes ==
    ASSUME BundlerTypeOK, Len(scoring_results) \in Nat, Bundling!ReadResults
    PROVE  BundlerTypeOK'
<1>1. bundle_group.last \in 0..Len(scoring_results)
  BY DEF BundlerTypeOK
<1>2. bundle_group.last < Len(scoring_results)
  BY DEF Bundling!ReadResults, Bundling!Undelivered
<1>3. PICK top \in 1..Len(scoring_results) :
         /\ Bundling!NextBatch(bundle_group, scoring_results, BundleBatch)
               = (bundle_group.last + 1)..top
         /\ bundle_group' = [last |-> top,
                             pending |-> bundle_group.pending \cup ((bundle_group.last + 1)..top)]
  <2>1. /\ \A g, st, c : Bundling!NextBatch(g, st, c) = Scoring!NextBatch(g, st, c)
        /\ \A g, b : Bundling!XReadGroup(g, b) = Scoring!XReadGroup(g, b)
    BY DEF Bundling!NextBatch, Scoring!NextBatch, Bundling!XReadGroup, Scoring!XReadGroup
  <2>2. bundle_group' = Scoring!XReadGroup(bundle_group,
                           Scoring!NextBatch(bundle_group, scoring_results, BundleBatch))
    BY <2>1 DEF Bundling!ReadResults
  <2> QED BY <1>1, <1>2, <2>1, <2>2, Delivery, PipelineAssumption
<1>4. (bundle_group.last + 1)..top \in SUBSET ResultId /\ top \in 0..Len(scoring_results)
  BY <1>1 DEF ResultId
<1>5. bundler' \in BundlerLocals
  <2>1. \/ bundler' = [Bundling!Reading EXCEPT !.pc = "assembling",
                                               !.batch = (bundle_group.last + 1)..top]
        \/ bundler' = Bundling!Reading
    BY <1>3 DEF Bundling!ReadResults, Bundling!Abandon
  <2> QED BY <1>4, <2>1, BundlerReadingIsLocals DEF BundlerLocals, Bundling!BundlerPc
<1>6. UNCHANGED <<scoring_results, bundles, bundle_events, bundle_errors>>
  BY DEF Bundling!ReadResults
<1>7. bundle_group' \in [last : 0..Len(scoring_results), pending : SUBSET ResultId]
  BY <1>3, <1>4 DEF BundlerTypeOK
<1>8. ResultId' = ResultId
  BY <1>6 DEF ResultId
<1> QED BY <1>5, <1>6, <1>7, <1>8 DEF BundlerTypeOK, BundlerLocals

LEMMA AssembleBundlesTypes ==
    ASSUME BundlerTypeOK, Bundling!AssembleBundles
    PROVE  BundlerTypeOK'
<1> DEFINE kept == Bundling!Latest(bundler.batch)
           sound == kept \ Bundling!ErrorBundles(kept)
<1>1. kept \in SUBSET ResultId
  BY DEF Bundling!Latest, BundlerTypeOK
<1>2. Bundling!Store(sound) \in Bundling!BundlerPc
  BY DEF Bundling!Store, Bundling!BundlerPc
<1>3. \/ bundler' = [bundler EXCEPT !.pc = Bundling!Store(sound), !.todo = kept,
                                    !.unstored = sound, !.broken = kept \ sound]
      \/ bundler' = Bundling!Reading
  BY DEF Bundling!AssembleBundles, Bundling!Abandon
<1>4. sound \in SUBSET ResultId /\ kept \ sound \in SUBSET ResultId
  BY <1>1
<1> HIDE DEF kept, sound
<1>5. bundler' \in BundlerLocals
  BY <1>1, <1>2, <1>3, <1>4, BundlerReadingIsLocals DEF BundlerTypeOK, BundlerLocals
<1>6. UNCHANGED <<scoring_results, bundle_group, bundles, bundle_events, bundle_errors>>
  BY DEF Bundling!AssembleBundles
<1> QED BY <1>5, <1>6, BundlerTypesKept DEF BundlerTypeOK

LEMMA StoreBundleTypes ==
    ASSUME BundlerTypeOK, Bundling!StoreBundle
    PROVE  BundlerTypeOK'
<1>1. PICK i \in bundler.unstored :
         /\ bundles' = bundles \/ bundles' = Append(bundles, i)
         /\ \/ bundler' = [bundler EXCEPT !.pc = Bundling!Store(bundler.unstored \ {i}),
                                          !.unstored = bundler.unstored \ {i}]
            \/ bundler' = Bundling!Reading
  BY DEF Bundling!StoreBundle, Bundling!Abandon
<1>2. i \in ResultId /\ bundles \in Seq(ResultId)
  BY DEF BundlerTypeOK
<1>3. bundles' \in Seq(ResultId)
  BY <1>1, <1>2, AppendFacts
<1>4. Bundling!Store(bundler.unstored \ {i}) \in Bundling!BundlerPc
  BY DEF Bundling!Store, Bundling!BundlerPc
<1>5. bundler' \in BundlerLocals
  BY <1>1, <1>4, BundlerReadingIsLocals DEF BundlerTypeOK, BundlerLocals
<1>6. UNCHANGED <<scoring_results, bundle_group, bundle_events, bundle_errors>>
  BY DEF Bundling!StoreBundle
<1> QED BY <1>3, <1>5, <1>6, BundlerTypesKept DEF BundlerTypeOK

LEMMA AnnounceBundleTypes ==
    ASSUME BundlerTypeOK, Bundling!AnnounceBundle
    PROVE  BundlerTypeOK'
<1>1. PICK i \in bundler.todo :
         /\ bundle_events' = bundle_events \/ bundle_events' = Append(bundle_events, i)
         /\ bundle_errors' = bundle_errors \/ bundle_errors' = Append(bundle_errors, i)
         /\ bundler' = [bundler EXCEPT !.pc = "acking", !.acking = i]
  BY DEF Bundling!AnnounceBundle
<1>2. /\ i \in ResultId
      /\ bundles \in Seq(ResultId)
      /\ bundle_events \in Seq(ResultId)
      /\ bundle_errors \in Seq(ResultId)
  BY DEF BundlerTypeOK
<1>3. bundle_events' \in Seq(ResultId)
  BY <1>1, <1>2, AppendFacts
<1>4. bundle_errors' \in Seq(ResultId)
  BY <1>1, <1>2, AppendFacts
<1>5. bundler' \in BundlerLocals
  BY <1>1, <1>2 DEF BundlerTypeOK, BundlerLocals, Bundling!BundlerPc
<1>6. UNCHANGED <<scoring_results, bundle_group, bundles>>
  BY DEF Bundling!AnnounceBundle
<1> QED BY <1>2, <1>3, <1>4, <1>5, <1>6, BundlerTypesKept

LEMMA AckResultTypes ==
    ASSUME BundlerTypeOK, Bundling!AckResult
    PROVE  BundlerTypeOK'
<1> DEFINE left == bundler.todo \ {bundler.acking}
<1>1. \/ bundler' = Bundling!Reading
      \/ bundler' = [bundler EXCEPT !.pc = "announcing", !.todo = left, !.acking = 0]
  BY DEF Bundling!AckResult
<1>2. left \in SUBSET ResultId
  BY DEF BundlerTypeOK
<1> HIDE DEF left
<1>3. bundler' \in BundlerLocals
  BY <1>1, <1>2, BundlerReadingIsLocals DEF BundlerTypeOK, BundlerLocals, Bundling!BundlerPc
<1>4. \/ bundle_group' = bundle_group
      \/ \E ids : bundle_group' = Bundling!XAck(bundle_group, ids)
  BY DEF Bundling!AckResult
<1>5. UNCHANGED <<scoring_results, bundles, bundle_events, bundle_errors>>
  BY DEF Bundling!AckResult
<1> QED BY <1>3, <1>4, <1>5, BundlerTypesKept DEF BundlerTypeOK

LEMMA RestartBundlerTypes ==
    ASSUME BundlerTypeOK, Bundling!RestartBundler
    PROVE  BundlerTypeOK'
<1>1. bundler' \in BundlerLocals
  BY BundlerReadingIsLocals DEF Bundling!RestartBundler
<1>2. /\ UNCHANGED <<detection_signals, scoring_results, bundle_group, bundles,
                    bundle_events, bundle_errors>>
      /\ Bundling!Fault
  BY DEF Bundling!RestartBundler
<1> QED BY <1>1, <1>2, BundlerTypesKept DEF BundlerTypeOK

LEMMA ScorerKeepsBundlerTypes ==
    ASSUME TypeOK, Scoring!ScorerNext, UNCHANGED bundlerVars
    PROVE  TypeOK'
<1> USE DEF TypeOK
<1>1. Len(scoring_results) \in Nat
  BY DEF ScorerTypeOK
<1>2. ScorerTypeOK' /\ Len(scoring_results) <= Len(scoring_results')
  <2>1. CASE Scoring!PublishResult
    BY <2>1, PublishResultTypes
  <2>2. CASE Scoring!ReadEvents
    BY <1>1, <2>2, ReadEventsTypes DEF Scoring!ReadEvents
  <2>3. CASE Scoring!ParseEvents
    <3>1. UNCHANGED scoring_results
      BY <2>3 DEF Scoring!ParseEvents
    <3>2. ScorerTypeOK'
      BY <2>3, ParseEventsTypes
    <3> QED BY <1>1, <3>1, <3>2
  <2>4. CASE Scoring!FetchSignals
    BY <1>1, <2>4, FetchSignalsTypes DEF Scoring!FetchSignals
  <2>5. CASE Scoring!AckEvent
    BY <1>1, <2>5, AckEventTypes DEF Scoring!AckEvent
  <2>6. CASE Scoring!RestartScorer
    BY <1>1, <2>6, RestartScorerTypes DEF Scoring!RestartScorer
  <2> QED BY <2>1, <2>2, <2>3, <2>4, <2>5, <2>6
          DEF Scoring!ScorerNext, Scoring!ScorerStep
<1>3. Len(scoring_results') \in Nat
  BY <1>2 DEF ScorerTypeOK
<1> QED BY <1>1, <1>2, <1>3, BundlerTypesGrow

LEMMA BundlerKeepsTypes ==
    ASSUME TypeOK, Bundling!BundlerNext, UNCHANGED <<detection_events, scorerVars>>
    PROVE  TypeOK'
<1>1. ScorerTypeOK /\ BundlerTypeOK /\ Len(scoring_results) \in Nat
  BY DEF TypeOK, ScorerTypeOK
<1>2. ScorerTypeOK'
  BY <1>1, BundlerKeepsScorerTypes
<1>3. BundlerTypeOK'
  BY <1>1, ReadResultsTypes, AssembleBundlesTypes, StoreBundleTypes, AnnounceBundleTypes,
     AckResultTypes, RestartBundlerTypes DEF Bundling!BundlerNext, Bundling!BundlerStep
<1> QED BY <1>2, <1>3 DEF TypeOK

LEMMA NextTypes == TypeOK /\ [Next]_vars => TypeOK'
<1> SUFFICES ASSUME TypeOK, [Next]_vars PROVE TypeOK'
  OBVIOUS
<1>1. CASE PublishEvent \/ StoreSignals
  <2>1. ScorerTypeOK'
    BY <1>1, EnvironmentTypes DEF TypeOK
  <2>2. UNCHANGED scoring_results /\ UNCHANGED bundlerVars
    BY <1>1 DEF PublishEvent, StoreSignals
  <2>3. Len(scoring_results) \in Nat
    BY DEF TypeOK, ScorerTypeOK
  <2>4. BundlerTypeOK'
    BY <2>2, <2>3, BundlerTypesGrow DEF TypeOK
  <2> QED BY <2>1, <2>4 DEF TypeOK
<1>2. CASE Scoring!ScorerNext /\ UNCHANGED bundlerVars
  BY <1>2, ScorerKeepsBundlerTypes
<1>3. CASE Bundling!BundlerNext /\ UNCHANGED <<detection_events, scorerVars>>
  BY <1>3, BundlerKeepsTypes
<1>4. CASE UNCHANGED vars
  BY <1>4 DEF vars, scorerVars, bundlerVars, TypeOK, ScorerTypeOK, BundlerTypeOK,
             Event, Result, ResultId
<1> QED BY <1>1, <1>2, <1>3, <1>4 DEF Next

\* Both consumers stay within their streams: a batch, a pending list and the row
\* of a bundle name only messages that were published, whatever fails.
THEOREM PipelineTypes == Spec => []TypeOK
BY InitTypes, NextTypes, PTL DEF Spec

-----------------------------------------------------------------------------
\* AckedIsAnswered: the message about to be acknowledged is answered already.

ScorerCustody ==
    /\ AckedIsAnswered
    /\ scorer.pc = "acking" => Answered(scorer.acking)

\* Results and error entries stay where they are, so what is answered stays so.
LEMMA AnsweredStays ==
    ASSUME TypeOK,
           \/ scoring_results' = scoring_results
           \/ \E r \in Result : scoring_results' = Append(scoring_results, r),
           \/ scoring_errors' = scoring_errors
           \/ \E e \in Event : scoring_errors' = Append(scoring_errors, e),
           NEW i, Answered(i)
    PROVE  Answered(i)'
<1>1. scoring_results \in Seq(Result) /\ scoring_errors \in Seq(Event)
  BY DEF TypeOK, ScorerTypeOK
<1>2. Elements(scoring_errors) \subseteq Elements(scoring_errors')
  BY <1>1, AppendFacts DEF Elements
<1>3. /\ Len(scoring_results) \in Nat /\ Len(scoring_results') \in Nat
      /\ Len(scoring_results) <= Len(scoring_results')
      /\ \A k \in 1..Len(scoring_results) : scoring_results'[k] = scoring_results[k]
  <2>1. CASE scoring_results' = scoring_results
    BY <1>1, <2>1
  <2>2. CASE \E r \in Result : scoring_results' = Append(scoring_results, r)
    <3>1. PICK r \in Result : scoring_results' = Append(scoring_results, r)
      BY <2>2
    <3>2. /\ Len(Append(scoring_results, r)) = Len(scoring_results) + 1
          /\ \A k \in 1..Len(scoring_results) :
                Append(scoring_results, r)[k] = scoring_results[k]
      BY <1>1, AppendFacts
    <3>3. Len(scoring_results) \in Nat
      BY <1>1
    <3> QED BY <3>1, <3>2, <3>3
  <2> QED BY <2>1, <2>2
<1>4. CASE \E k \in ResultId : scoring_results[k].event = i
  <2>1. PICK k \in 1..Len(scoring_results) : scoring_results[k].event = i
    BY <1>4 DEF ResultId
  <2>2. k \in 1..Len(scoring_results') /\ scoring_results'[k].event = i
    BY <1>3, <2>1
  <2> QED BY <2>2 DEF Answered, ResultId
<1>5. CASE i \in Elements(scoring_errors)
  BY <1>2, <1>5 DEF Answered
<1> QED BY <1>4, <1>5 DEF Answered

\* A step that acknowledges only `ids`, each unnamed or answered, keeps AckedIsAnswered.
LEMMA AckingAnswered ==
    ASSUME TypeOK, AckedIsAnswered,
           \A i \in Event : Answered(i) => Answered(i)',
           UNCHANGED detection_events,
           NEW ids,
           \/ scoring_group' = scoring_group
           \/ scoring_group' = Scoring!XAck(scoring_group, ids),
           \A i \in ids : Named(i) => Answered(i)'
    PROVE  AckedIsAnswered'
<1>1. /\ scoring_group \in [last : 0..Len(detection_events), pending : SUBSET Event]
      /\ Len(detection_events) \in Nat /\ Len(detection_events) <= MaxEvents
  BY DEF TypeOK, ScorerTypeOK
<1>2. Scoring!Acked(scoring_group') \subseteq Scoring!Acked(scoring_group) \cup ids
  BY <1>1 DEF Scoring!Acked, Scoring!XAck
<1>3. Scoring!Acked(scoring_group) \subseteq Event
  BY <1>1, PipelineAssumption DEF Scoring!Acked, Event
<1>4. \A i : Named(i)' = Named(i)
  BY DEF Named
<1>5. Scoring!Acked(scoring_group)' = Scoring!Acked(scoring_group')
  BY DEF Scoring!Acked
<1> SUFFICES ASSUME NEW i \in Scoring!Acked(scoring_group'), Named(i)
             PROVE  Answered(i)'
  BY <1>4, <1>5 DEF AckedIsAnswered
<1> QED BY <1>2, <1>3 DEF AckedIsAnswered

\* Delivery acknowledges nothing.
LEMMA ReadEventsCustody ==
    ASSUME TypeOK, ScorerCustody, Scoring!ReadEvents
    PROVE  ScorerCustody'
<1>1. /\ Len(detection_events) \in Nat
      /\ scoring_group.last \in 0..Len(detection_events)
      /\ scoring_group.last < Len(detection_events)
  BY DEF TypeOK, ScorerTypeOK, Scoring!ReadEvents, Scoring!Undelivered
<1>2. PICK top \in 1..Len(detection_events) :
         /\ scoring_group.last < top
         /\ scoring_group' = [last |-> top,
                              pending |-> scoring_group.pending \cup ((scoring_group.last + 1)..top)]
  BY <1>1, Delivery, PipelineAssumption DEF Scoring!ReadEvents
<1>3. Scoring!Acked(scoring_group') \subseteq Scoring!Acked(scoring_group)
  BY <1>1, <1>2 DEF Scoring!Acked
<1>4. UNCHANGED <<detection_events, scoring_results, scoring_errors>>
  BY DEF Scoring!ReadEvents
<1>5. \A i : Answered(i)' = Answered(i) /\ Named(i)' = Named(i)
  BY <1>4 DEF Answered, Named, Elements, ResultId
<1>6. AckedIsAnswered'
  BY <1>3, <1>5 DEF ScorerCustody, AckedIsAnswered, Scoring!Acked
<1>7. scorer'.pc # "acking"
  <2> DEFINE batch == Scoring!NextBatch(scoring_group, detection_events, ScoringBatch)
  <2>1. \/ scorer' = [Scoring!Reading EXCEPT !.pc = "parsing", !.batch = batch]
        \/ scorer' = Scoring!Reading
    BY DEF Scoring!ReadEvents, Scoring!Abandon
  <2> HIDE DEF batch
  <2>2. CASE scorer' = [Scoring!Reading EXCEPT !.pc = "parsing", !.batch = batch]
    <3>1. scorer'.pc = "parsing"
      BY <2>2 DEF Scoring!Reading
    <3> QED BY <3>1
  <2>3. CASE scorer' = Scoring!Reading
    BY <2>3 DEF Scoring!Reading
  <2> QED BY <2>1, <2>2, <2>3
<1> QED BY <1>6, <1>7 DEF ScorerCustody

\* Parsing acknowledges only messages that name no transaction.
LEMMA ParseEventsCustody ==
    ASSUME TypeOK, ScorerCustody, Scoring!ParseEvents
    PROVE  ScorerCustody'
<1>1. PICK ids :
         /\ scoring_group' = Scoring!XAck(scoring_group, ids)
         /\ \A i \in ids : detection_events[i] = "unparseable"
  <2> DEFINE bad == {i \in scorer.batch : detection_events[i] = "unparseable"}
  <2>1. CASE scoring_group' = Scoring!XAck(scoring_group, bad)
    BY <2>1
  <2>2. CASE \E last : scoring_group' = Scoring!XAck(scoring_group, {j \in bad : j <= last})
    <3>1. PICK last : scoring_group' = Scoring!XAck(scoring_group, {j \in bad : j <= last})
      BY <2>2
    <3>2. \A j \in {j \in bad : j <= last} : detection_events[j] = "unparseable"
      OBVIOUS
    <3> QED BY <3>1, <3>2
  <2> QED BY <2>1, <2>2 DEF Scoring!ParseEvents, Scoring!Unparseable
<1>2. \A i \in ids : ~ Named(i)
  BY <1>1, PipelineAssumption DEF Named
<1>3. UNCHANGED <<detection_events, scoring_results, scoring_errors>>
  BY DEF Scoring!ParseEvents
<1>4. \A i : Answered(i)' = Answered(i)
  BY <1>3 DEF Answered, Elements, ResultId
<1>5. AckedIsAnswered'
  BY <1>1, <1>2, <1>3, <1>4, AckingAnswered DEF ScorerCustody
<1>6. scorer'.pc # "acking"
  <2>1. scorer' = Scoring!Reading \/ scorer' = [scorer EXCEPT !.pc = "fetching"]
    BY DEF Scoring!ParseEvents, Scoring!Abandon
  <2>2. scorer \in ScorerLocals
    BY DEF TypeOK, ScorerTypeOK, ScorerLocals
  <2> QED BY <2>1, <2>2 DEF Scoring!Reading, ScorerLocals
<1> QED BY <1>5, <1>6 DEF ScorerCustody

LEMMA FetchSignalsCustody ==
    ASSUME TypeOK, ScorerCustody, Scoring!FetchSignals
    PROVE  ScorerCustody'
<1>1. UNCHANGED <<detection_events, scoring_group, scoring_results, scoring_errors>>
  BY DEF Scoring!FetchSignals
<1>3. scorer'.pc # "acking"
  <2> DEFINE todo == {Scoring!ScoreResult(i) : i \in Scoring!Latest(scorer.batch)}
  <2>1. \/ scorer' = [scorer EXCEPT !.pc = "publishing", !.todo = todo]
        \/ scorer' = Scoring!Reading
    BY DEF Scoring!FetchSignals, Scoring!Abandon
  <2> HIDE DEF todo
  <2>2. scorer \in ScorerLocals
    BY DEF TypeOK, ScorerTypeOK, ScorerLocals
  <2>3. CASE scorer' = [scorer EXCEPT !.pc = "publishing", !.todo = todo]
    <3>1. scorer'.pc = "publishing"
      BY <2>2, <2>3 DEF ScorerLocals
    <3> QED BY <3>1
  <2>4. CASE scorer' = Scoring!Reading
    BY <2>4 DEF Scoring!Reading
  <2> QED BY <2>1, <2>3, <2>4
<1>4. \A i : Answered(i)' = Answered(i) /\ Named(i)' = Named(i)
  BY <1>1 DEF Answered, Named, Elements, ResultId
<1> QED BY <1>1, <1>3, <1>4 DEF ScorerCustody, AckedIsAnswered, Scoring!Acked

\* The event about to be acknowledged has its result, or its error entry.
LEMMA PublishResultCustody ==
    ASSUME TypeOK, ScorerCustody, Scoring!PublishResult
    PROVE  ScorerCustody'
<1>1. PICK r \in scorer.todo :
         /\ scoring_results' = scoring_results \/ scoring_results' = Append(scoring_results, r)
         /\ scoring_errors' = scoring_errors \/ scoring_errors' = Append(scoring_errors, r.event)
         /\ \/ /\ scorer' = [scorer EXCEPT !.pc = "acking", !.acking = r.event]
               /\ \/ scoring_results' = Append(scoring_results, r)
                  \/ scoring_errors' = Append(scoring_errors, r.event)
            \/ scorer' = Scoring!Reading
  BY DEF Scoring!PublishResult, Scoring!Abandon
<1>2. /\ r \in Result /\ r.event \in Event
      /\ scoring_results \in Seq(Result) /\ scoring_errors \in Seq(Event)
  BY DEF TypeOK, ScorerTypeOK, Result
<1>3. \A i : Answered(i) => Answered(i)'
  BY <1>1, <1>2, AnsweredStays
<1>4. UNCHANGED <<detection_events, scoring_group>>
  BY DEF Scoring!PublishResult
<1>5. AckedIsAnswered'
  <2>1. \A i : Named(i)' = Named(i)
    BY <1>4 DEF Named
  <2>2. Scoring!Acked(scoring_group)' = Scoring!Acked(scoring_group)
    BY <1>4 DEF Scoring!Acked
  <2> QED BY <1>3, <2>1, <2>2 DEF ScorerCustody, AckedIsAnswered
<1>6. CASE scorer' = [scorer EXCEPT !.pc = "acking", !.acking = r.event]
           /\ scoring_results' = Append(scoring_results, r)
  <2>1. /\ Len(scoring_results') = Len(scoring_results) + 1
        /\ scoring_results'[Len(scoring_results) + 1] = r
        /\ Len(scoring_results) \in Nat
    BY <1>2, <1>6, AppendFacts
  <2>2. Len(scoring_results) + 1 \in 1..Len(scoring_results')
    BY <2>1
  <2>3. Answered(r.event)'
    BY <2>1, <2>2 DEF Answered, ResultId
  <2>4. scorer'.acking = r.event
    BY <1>6 DEF TypeOK, ScorerTypeOK
  <2> QED BY <1>5, <2>3, <2>4 DEF ScorerCustody, Answered
<1>7. CASE scorer' = [scorer EXCEPT !.pc = "acking", !.acking = r.event]
           /\ scoring_errors' = Append(scoring_errors, r.event)
  <2>1. r.event \in Elements(scoring_errors')
    BY <1>2, <1>7, AppendFacts
  <2>2. Answered(r.event)'
    BY <2>1 DEF Answered, Elements
  <2>3. scorer'.acking = r.event
    BY <1>7 DEF TypeOK, ScorerTypeOK
  <2> QED BY <1>5, <2>2, <2>3 DEF ScorerCustody, Answered
<1>8. CASE scorer' = Scoring!Reading
  BY <1>5, <1>8 DEF ScorerCustody, Scoring!Reading
<1> QED BY <1>1, <1>6, <1>7, <1>8

LEMMA AckEventCustody ==
    ASSUME TypeOK, ScorerCustody, Scoring!AckEvent
    PROVE  ScorerCustody'
<1>1. UNCHANGED <<detection_events, scoring_results, scoring_errors>>
  BY DEF Scoring!AckEvent
<1>2. \A i : Answered(i)' = Answered(i)
  BY <1>1 DEF Answered, Elements, ResultId
<1>3. \/ scoring_group' = scoring_group
      \/ scoring_group' = Scoring!XAck(scoring_group, {scorer.acking})
  BY DEF Scoring!AckEvent
<1>4. Answered(scorer.acking)
  BY DEF ScorerCustody, Scoring!AckEvent
<1>5. AckedIsAnswered'
  BY <1>1, <1>2, <1>3, <1>4, AckingAnswered DEF ScorerCustody
<1>6. scorer'.pc # "acking"
  <2> DEFINE left == {r \in scorer.todo : r.event # scorer.acking}
  <2>1. \/ scorer' = Scoring!Reading
        \/ scorer' = [scorer EXCEPT !.pc = "publishing", !.todo = left, !.acking = 0]
    BY DEF Scoring!AckEvent, Scoring!Abandon
  <2> HIDE DEF left
  <2>2. scorer \in ScorerLocals
    BY DEF TypeOK, ScorerTypeOK, ScorerLocals
  <2>3. CASE scorer' = [scorer EXCEPT !.pc = "publishing", !.todo = left, !.acking = 0]
    <3>1. scorer'.pc = "publishing"
      BY <2>2, <2>3 DEF ScorerLocals
    <3> QED BY <3>1
  <2>4. CASE scorer' = Scoring!Reading
    BY <2>4 DEF Scoring!Reading
  <2> QED BY <2>1, <2>3, <2>4
<1> QED BY <1>5, <1>6 DEF ScorerCustody

\* Only these steps touch the detection side; a new event is not yet delivered.
LEMMA OthersScorerCustody ==
    ASSUME TypeOK, ScorerCustody,
           UNCHANGED <<scoring_group, scoring_results, scoring_errors>>,
           scorer' \in {scorer, Scoring!Reading, Scoring!Unstarted},
           \/ detection_events' = detection_events
           \/ \E body \in Scoring!EventBody : detection_events' = Append(detection_events, body)
    PROVE  ScorerCustody'
<1>1. /\ detection_events \in Seq(Scoring!EventBody) /\ Len(detection_events) \in Nat
      /\ scoring_group.last \in 0..Len(detection_events)
  BY DEF TypeOK, ScorerTypeOK
<1>2. \A i \in 1..Len(detection_events) : Named(i)' => Named(i)
  <2>1. \A i \in 1..Len(detection_events) : detection_events'[i] = detection_events[i]
    BY <1>1, AppendFacts
  <2> QED BY <2>1 DEF Named
<1>3. Scoring!Acked(scoring_group) \subseteq 1..Len(detection_events)
  BY <1>1 DEF Scoring!Acked
<1>4. Scoring!Acked(scoring_group)' = Scoring!Acked(scoring_group)
  BY DEF Scoring!Acked
<1>5. \A i : Answered(i)' = Answered(i)
  BY DEF Answered, Elements, ResultId
<1>6. AckedIsAnswered'
  BY <1>2, <1>3, <1>4, <1>5 DEF ScorerCustody, AckedIsAnswered
<1>7. scorer'.pc = "acking" => scorer' = scorer
  BY DEF Scoring!Reading, Scoring!Unstarted
<1>8. scorer'.pc = "acking" => Answered(scorer.acking)'
  BY <1>5, <1>7 DEF ScorerCustody
<1> QED BY <1>6, <1>7, <1>8 DEF ScorerCustody, Answered

LEMMA NextScorerCustody == TypeOK /\ ScorerCustody /\ [Next]_vars => ScorerCustody'
<1> SUFFICES ASSUME TypeOK, ScorerCustody, [Next]_vars PROVE ScorerCustody'
  OBVIOUS
<1>1. CASE PublishEvent \/ StoreSignals \/ UNCHANGED vars
  BY <1>1, OthersScorerCustody DEF PublishEvent, StoreSignals, vars, scorerVars
<1>2. CASE Scoring!ScorerNext
  <2>1. CASE Scoring!RestartScorer
    BY <2>1, OthersScorerCustody DEF Scoring!RestartScorer
  <2> QED BY <1>2, <2>1, ReadEventsCustody, ParseEventsCustody, FetchSignalsCustody,
             PublishResultCustody, AckEventCustody
          DEF Scoring!ScorerNext, Scoring!ScorerStep
<1>3. CASE Bundling!BundlerNext /\ UNCHANGED <<detection_events, scorerVars>>
  <2>1. UNCHANGED scoring_results
    BY <1>3, BundlerKeepsScorerTypes DEF TypeOK
  <2> QED BY <1>3, <2>1, OthersScorerCustody DEF scorerVars
<1> QED BY <1>1, <1>2, <1>3 DEF Next

LEMMA InitScorerCustody == Init => ScorerCustody
BY DEF Init, Scoring!ScorerInit, Scoring!NewGroup, Scoring!Reading, ScorerCustody,
       AckedIsAnswered, Scoring!Acked

\* Whatever call fails and whenever the service restarts, a detection event that
\* names a transaction is acknowledged only once its result, or its entry in the
\* error stream, is out.
THEOREM PipelineAckedIsAnswered == Spec => []AckedIsAnswered
<1>1. TypeOK /\ ScorerCustody /\ [Next]_vars => (TypeOK /\ ScorerCustody)'
  BY NextTypes, NextScorerCustody
<1>2. Init => TypeOK /\ ScorerCustody
  BY InitTypes, InitScorerCustody
<1>3. ScorerCustody => AckedIsAnswered
  BY DEF ScorerCustody
<1> QED BY <1>1, <1>2, <1>3, PTL DEF Spec

-----------------------------------------------------------------------------
\* AnnouncedIsStored and AckedIsKept: a bundle is announced after the rows of its
\* batch are stored, and a result acknowledged after its bundle is reported.

\* In every part of the batch, what is still to be announced is an error bundle, is
\* still to be stored, or is stored.
BatchIsStored ==
    /\ bundler.todo \subseteq bundler.broken \cup bundler.unstored \cup Elements(bundles)
    /\ bundler.pc \in {"announcing", "acking"} => bundler.unstored = {}
    /\ \A k \in bundler.broken : scoring_results[k].tx \in Unextractable

\* The bundle of result k is stored, reported, or an error bundle.
KeptOrLost(k) == k \in Kept \/ scoring_results[k].tx \in Unextractable

AckedIsKeptOrLost == \A k \in Bundling!Acked(bundle_group) : KeptOrLost(k)

BundlerCustody ==
    /\ BatchIsStored
    /\ AnnouncedIsStored
    /\ AckedIsKeptOrLost
    /\ bundler.pc = "acking" => bundler.acking \in ResultId /\ KeptOrLost(bundler.acking)

\* Results, rows and error entries stay.
LEMMA KeptStays ==
    ASSUME TypeOK,
           \A k \in ResultId : scoring_results'[k] = scoring_results[k],
           Elements(bundles) \subseteq Elements(bundles)',
           Elements(bundle_errors) \subseteq Elements(bundle_errors)',
           NEW k \in ResultId, KeptOrLost(k)
    PROVE  KeptOrLost(k)'
BY DEF KeptOrLost, Kept

LEMMA BundlerFacts ==
    ASSUME TypeOK
    PROVE  /\ bundle_group \in [last : 0..Len(scoring_results), pending : SUBSET ResultId]
           /\ bundler \in BundlerLocals
           /\ bundles \in Seq(ResultId)
           /\ bundle_events \in Seq(ResultId)
           /\ bundle_errors \in Seq(ResultId)
           /\ Len(scoring_results) \in Nat
           /\ faults \in Nat
           /\ Bundling!Acked(bundle_group) \subseteq ResultId
<1>1. /\ bundle_group \in [last : 0..Len(scoring_results), pending : SUBSET ResultId]
      /\ bundler \in BundlerLocals
      /\ bundles \in Seq(ResultId)
      /\ bundle_events \in Seq(ResultId)
      /\ bundle_errors \in Seq(ResultId)
      /\ Len(scoring_results) \in Nat
      /\ faults \in Nat
  BY DEF TypeOK, ScorerTypeOK, BundlerTypeOK, BundlerLocals
<1>2. Bundling!Acked(bundle_group) \subseteq ResultId
  BY <1>1 DEF Bundling!Acked, ResultId
<1> QED BY <1>1, <1>2

\* Steps of the bundle consumer: it alone adds faults by one.
LEMMA BundlerStepFacts ==
    ASSUME TypeOK, Bundling!BundlerNext
    PROVE  /\ UNCHANGED scoring_results
           /\ faults' >= faults /\ faults' \in Nat
           /\ ResultId' = ResultId
<1>1. /\ UNCHANGED scoring_results
      /\ faults' = faults \/ Bundling!Fault
  BY DEF Bundling!BundlerNext, Bundling!BundlerStep, Bundling!ReadResults,
         Bundling!AssembleBundles, Bundling!StoreBundle, Bundling!AnnounceBundle,
         Bundling!AckResult, Bundling!RestartBundler
<1>2. faults \in Nat
  BY BundlerFacts
<1> QED BY <1>1, <1>2 DEF Bundling!Fault, ResultId

\* Whatever else it does, a step that acknowledges at most kept results and announces
\* at most stored bundles keeps both properties.
LEMMA OutputsKept ==
    ASSUME TypeOK, BundlerCustody, Bundling!BundlerNext,
           Elements(bundles) \subseteq Elements(bundles)',
           Elements(bundle_errors) \subseteq Elements(bundle_errors)',
           Elements(bundle_events)' \subseteq Elements(bundle_events) \cup Elements(bundles),
           \A k \in Bundling!Acked(bundle_group)' :
              k \in Bundling!Acked(bundle_group) \/ (k \in ResultId /\ KeptOrLost(k))
    PROVE  AnnouncedIsStored' /\ AckedIsKeptOrLost'
<1>1. \A k \in ResultId : KeptOrLost(k) => KeptOrLost(k)'
  BY BundlerStepFacts, KeptStays
<1>2. AckedIsKeptOrLost'
  BY <1>1, BundlerFacts DEF BundlerCustody, AckedIsKeptOrLost
<1>3. AnnouncedIsStored'
  BY DEF BundlerCustody, AnnouncedIsStored
<1> QED BY <1>2, <1>3

\* The consumer is back at its stream: nothing of the batch is left.
LEMMA ReadingIsStored ==
    ASSUME bundler' \in {Bundling!Reading, Bundling!Unstarted}
    PROVE  BatchIsStored' /\ bundler'.pc # "acking"
BY DEF BatchIsStored, Bundling!Reading, Bundling!Unstarted

\* What is delivered is pending: a read acknowledges nothing.
LEMMA ReadResultsAcksNone ==
    ASSUME TypeOK, Bundling!ReadResults
    PROVE  \A k \in Bundling!Acked(bundle_group)' : k \in Bundling!Acked(bundle_group)
<1>1. bundle_group.last < Len(scoring_results)
  BY DEF Bundling!ReadResults, Bundling!Undelivered
<1>2. PICK top \in 1..Len(scoring_results) :
         bundle_group' = [last |-> top,
                          pending |-> bundle_group.pending \cup ((bundle_group.last + 1)..top)]
  <2>1. bundle_group' = Scoring!XReadGroup(bundle_group,
                         Scoring!NextBatch(bundle_group, scoring_results, BundleBatch))
    BY DEF Bundling!ReadResults, Bundling!NextBatch, Scoring!NextBatch,
           Bundling!XReadGroup, Scoring!XReadGroup
  <2>2. bundle_group.last \in 0..Len(scoring_results) /\ Len(scoring_results) \in Nat
    BY BundlerFacts
  <2> QED BY <1>1, <2>1, <2>2, Delivery, PipelineAssumption
<1>3. bundle_group.last \in Nat
  BY BundlerFacts
<1>4. Bundling!Acked(bundle_group)' = Bundling!Acked(bundle_group')
  BY DEF Bundling!Acked
<1> QED BY <1>2, <1>3, <1>4 DEF Bundling!Acked

LEMMA ReadResultsCustody ==
    ASSUME TypeOK, BundlerCustody, Bundling!ReadResults
    PROVE  BundlerCustody'
<1> DEFINE batch == Bundling!NextBatch(bundle_group, scoring_results, BundleBatch)
<1>1. \/ bundler' = [Bundling!Reading EXCEPT !.pc = "assembling", !.batch = batch]
      \/ bundler' = Bundling!Reading
  BY DEF Bundling!ReadResults, Bundling!Abandon
<1> HIDE DEF batch
<1>2. BatchIsStored' /\ bundler'.pc # "acking"
  <2>1. CASE bundler' = [Bundling!Reading EXCEPT !.pc = "assembling", !.batch = batch]
    <3>1. /\ bundler'.pc = "assembling" /\ bundler'.todo = {} /\ bundler'.broken = {}
      BY <2>1 DEF Bundling!Reading
    <3> QED BY <3>1 DEF BatchIsStored
  <2> QED BY <1>1, <2>1, ReadingIsStored
<1>3. UNCHANGED <<bundles, bundle_events, bundle_errors>>
  BY DEF Bundling!ReadResults
<1>4. \A k \in Bundling!Acked(bundle_group)' : k \in Bundling!Acked(bundle_group)
  BY ReadResultsAcksNone
<1>5. AnnouncedIsStored' /\ AckedIsKeptOrLost'
  BY <1>3, <1>4, OutputsKept DEF Bundling!BundlerNext, Bundling!BundlerStep, Elements
<1> QED BY <1>2, <1>5 DEF BundlerCustody

\* Error bundles come from transactions whose signals cannot be read.
LEMMA AssembleBundlesCustody ==
    ASSUME TypeOK, BundlerCustody, Bundling!AssembleBundles
    PROVE  BundlerCustody'
<1> DEFINE kept == Bundling!Latest(bundler.batch)
           sound == kept \ Bundling!ErrorBundles(kept)
<1>1. \/ bundler' = [bundler EXCEPT !.pc = Bundling!Store(sound), !.todo = kept,
                                    !.unstored = sound, !.broken = kept \ sound]
      \/ bundler' = Bundling!Reading
  BY DEF Bundling!AssembleBundles, Bundling!Abandon
<1>2. \A k \in kept \ sound : scoring_results[k].tx \in Unextractable
  BY DEF Bundling!ErrorBundles
<1>3. UNCHANGED <<scoring_results, bundle_group, bundles, bundle_events, bundle_errors>>
  BY DEF Bundling!AssembleBundles
<1>4. Bundling!Store(sound) = IF sound = {} THEN "announcing" ELSE "storing"
  BY DEF Bundling!Store
<1> HIDE DEF kept, sound
<1>5. BatchIsStored' /\ bundler'.pc # "acking"
  <2>1. CASE bundler' = [bundler EXCEPT !.pc = Bundling!Store(sound), !.todo = kept,
                                        !.unstored = sound, !.broken = kept \ sound]
    <3>1. /\ bundler'.pc = Bundling!Store(sound)
          /\ bundler'.todo = kept
          /\ bundler'.unstored = sound
          /\ bundler'.broken = kept \ sound
      BY <2>1, BundlerFacts DEF BundlerLocals
    <3>2. bundler'.pc # "acking"
      BY <1>4, <3>1
    <3>3. bundler'.pc \in {"announcing", "acking"} => bundler'.unstored = {}
      BY <1>4, <3>1
    <3> QED BY <1>2, <1>3, <3>1, <3>2, <3>3 DEF BatchIsStored
  <2> QED BY <1>1, <2>1, ReadingIsStored
<1>6. AnnouncedIsStored' /\ AckedIsKeptOrLost'
  <2>1. Bundling!Acked(bundle_group)' = Bundling!Acked(bundle_group)
    BY <1>3 DEF Bundling!Acked
  <2> QED BY <1>3, <2>1, OutputsKept DEF Bundling!BundlerNext, Bundling!BundlerStep, Elements
<1> QED BY <1>5, <1>6 DEF BundlerCustody

LEMMA StoreBundleCustody ==
    ASSUME TypeOK, BundlerCustody, Bundling!StoreBundle
    PROVE  BundlerCustody'
<1>1. PICK i \in bundler.unstored :
         /\ bundles' = bundles \/ bundles' = Append(bundles, i)
         /\ \/ /\ bundler' = [bundler EXCEPT !.pc = Bundling!Store(bundler.unstored \ {i}),
                                             !.unstored = bundler.unstored \ {i}]
               /\ bundles' = Append(bundles, i)
            \/ bundler' = Bundling!Reading
  BY DEF Bundling!StoreBundle, Bundling!Abandon
<1>2. i \in ResultId /\ bundles \in Seq(ResultId)
  BY BundlerFacts DEF BundlerLocals
<1>3. Elements(Append(bundles, i)) = Elements(bundles) \cup {i}
  BY <1>2, AppendFacts
<1>4. Elements(bundles)' = Elements(bundles')
  BY DEF Elements
<1>5. UNCHANGED <<scoring_results, bundle_group, bundle_events, bundle_errors>>
  BY DEF Bundling!StoreBundle
<1>6. BatchIsStored' /\ bundler'.pc # "acking"
  <2> DEFINE left == bundler.unstored \ {i}
  <2>1. Bundling!Store(left) = IF left = {} THEN "announcing" ELSE "storing"
    BY DEF Bundling!Store
  <2>2. bundler.unstored \subseteq left \cup {i}
    OBVIOUS
  <2>3. \/ /\ bundler' = [bundler EXCEPT !.pc = Bundling!Store(left), !.unstored = left]
           /\ bundles' = Append(bundles, i)
        \/ bundler' = Bundling!Reading
    BY <1>1
  <2> HIDE DEF left
  <2>4. CASE /\ bundler' = [bundler EXCEPT !.pc = Bundling!Store(left), !.unstored = left]
             /\ bundles' = Append(bundles, i)
    <3>1. /\ bundler'.pc = Bundling!Store(left)
          /\ bundler'.todo = bundler.todo
          /\ bundler'.unstored = left
          /\ bundler'.broken = bundler.broken
      BY <2>4, BundlerFacts DEF BundlerLocals
    <3>2. bundler'.pc # "acking"
      BY <2>1, <3>1
    <3>3. bundler'.pc \in {"announcing", "acking"} => bundler'.unstored = {}
      BY <2>1, <3>1
    <3>4. bundler'.todo \subseteq bundler'.broken \cup bundler'.unstored \cup Elements(bundles)'
      BY <1>3, <1>4, <2>2, <2>4, <3>1 DEF BundlerCustody, BatchIsStored
    <3>5. \A k \in bundler'.broken : scoring_results'[k].tx \in Unextractable
      BY <1>5, <3>1 DEF BundlerCustody, BatchIsStored
    <3> QED BY <3>2, <3>3, <3>4, <3>5 DEF BatchIsStored
  <2> QED BY <2>3, <2>4, ReadingIsStored
<1>7. AnnouncedIsStored' /\ AckedIsKeptOrLost'
  <2>1. Bundling!Acked(bundle_group)' = Bundling!Acked(bundle_group)
    BY <1>5 DEF Bundling!Acked
  <2>2. Elements(bundles) \subseteq Elements(bundles)'
    BY <1>1, <1>3, <1>4
  <2>3. /\ Elements(bundle_errors)' = Elements(bundle_errors)
        /\ Elements(bundle_events)' = Elements(bundle_events)
    BY <1>5 DEF Elements
  <2> QED BY <2>1, <2>2, <2>3, OutputsKept DEF Bundling!BundlerNext, Bundling!BundlerStep
<1> QED BY <1>6, <1>7 DEF BundlerCustody

\* A bundle that is announced is not an error bundle, so it is among the stored ones.
LEMMA AnnounceBundleCustody ==
    ASSUME TypeOK, BundlerCustody, Bundling!AnnounceBundle
    PROVE  BundlerCustody'
<1>1. PICK i \in bundler.todo :
         /\ \/ /\ i \notin bundler.broken
               /\ bundle_events' = Append(bundle_events, i)
               /\ UNCHANGED <<bundle_errors, faults>>
            \/ /\ i \in bundler.broken
               /\ bundle_errors' = Append(bundle_errors, i)
               /\ UNCHANGED <<bundle_events, faults>>
            \/ Bundling!Fault /\ UNCHANGED <<bundle_events, bundle_errors>>
         /\ bundler' = [bundler EXCEPT !.pc = "acking", !.acking = i]
  BY DEF Bundling!AnnounceBundle
<1>2. /\ i \in ResultId /\ bundles \in Seq(ResultId)
      /\ bundle_events \in Seq(ResultId) /\ bundle_errors \in Seq(ResultId)
  BY BundlerFacts DEF BundlerLocals
<1>3. UNCHANGED <<scoring_results, bundle_group, bundles>>
  BY DEF Bundling!AnnounceBundle
<1>4. i \in bundler.broken \cup Elements(bundles) /\ bundler.unstored = {}
  BY DEF BundlerCustody, BatchIsStored, Bundling!AnnounceBundle
<1>5. /\ bundler'.todo = bundler.todo
      /\ bundler'.unstored = bundler.unstored
      /\ bundler'.broken = bundler.broken
      /\ bundler'.acking = i
  BY <1>1, BundlerFacts DEF BundlerLocals
<1>6. BatchIsStored'
  BY <1>3, <1>4, <1>5 DEF BundlerCustody, BatchIsStored, Elements
<1>7. /\ Elements(Append(bundle_events, i)) = Elements(bundle_events) \cup {i}
      /\ Elements(Append(bundle_errors, i)) = Elements(bundle_errors) \cup {i}
  BY <1>2, AppendFacts
<1>8. /\ Elements(bundles)' = Elements(bundles)
      /\ Elements(bundle_events)' = Elements(bundle_events')
      /\ Elements(bundle_errors)' = Elements(bundle_errors')
  BY <1>3 DEF Elements
<1>9. AnnouncedIsStored' /\ AckedIsKeptOrLost'
  <2>1. Bundling!Acked(bundle_group)' = Bundling!Acked(bundle_group)
    BY <1>3 DEF Bundling!Acked
  <2>2. Elements(bundle_errors) \subseteq Elements(bundle_errors)'
    BY <1>1, <1>7, <1>8
  <2>3. Elements(bundle_events)' \subseteq Elements(bundle_events) \cup Elements(bundles)
    BY <1>1, <1>4, <1>7, <1>8
  <2> QED BY <1>8, <2>1, <2>2, <2>3, OutputsKept
          DEF Bundling!BundlerNext, Bundling!BundlerStep
<1>10. KeptOrLost(i)'
  <2>1. CASE i \in Elements(bundles)
    BY <1>8, <2>1 DEF KeptOrLost, Kept
  <2>2. CASE i \in bundler.broken /\ bundle_errors' = Append(bundle_errors, i)
    BY <1>7, <1>8, <2>2 DEF KeptOrLost, Kept
  <2>3. CASE i \in bundler.broken /\ Bundling!Fault
    <3>1. scoring_results'[i].tx \in Unextractable
      BY <1>3, <2>3 DEF BundlerCustody, BatchIsStored
    <3> QED BY <3>1 DEF KeptOrLost
  <2> QED BY <1>1, <1>4, <2>1, <2>2, <2>3
<1>11. KeptOrLost(bundler.acking)' /\ bundler'.acking \in ResultId'
  BY <1>2, <1>3, <1>5, <1>10 DEF KeptOrLost, Kept, ResultId
<1> QED BY <1>6, <1>9, <1>11 DEF BundlerCustody

LEMMA AckResultCustody ==
    ASSUME TypeOK, BundlerCustody, Bundling!AckResult
    PROVE  BundlerCustody'
<1> DEFINE left == bundler.todo \ {bundler.acking}
<1>1. \/ bundler' = Bundling!Reading
      \/ bundler' = [bundler EXCEPT !.pc = "announcing", !.todo = left, !.acking = 0]
  BY DEF Bundling!AckResult
<1>2. left \subseteq bundler.todo
  OBVIOUS
<1>3. UNCHANGED <<scoring_results, bundles, bundle_events, bundle_errors>>
  BY DEF Bundling!AckResult
<1>4. bundler.unstored = {} /\ KeptOrLost(bundler.acking) /\ bundler.acking \in ResultId \cup {0}
  BY BundlerFacts DEF BundlerCustody, BatchIsStored, Bundling!AckResult, BundlerLocals
<1> HIDE DEF left
<1>5. BatchIsStored' /\ bundler'.pc # "acking"
  <2>1. CASE bundler' = [bundler EXCEPT !.pc = "announcing", !.todo = left, !.acking = 0]
    <3>1. /\ bundler'.pc = "announcing"
          /\ bundler'.todo = left
          /\ bundler'.unstored = bundler.unstored
          /\ bundler'.broken = bundler.broken
      BY <2>1, BundlerFacts DEF BundlerLocals
    <3> QED BY <1>2, <1>3, <1>4, <3>1 DEF BundlerCustody, BatchIsStored, Elements
  <2> QED BY <1>1, <2>1, ReadingIsStored
<1>6. AnnouncedIsStored' /\ AckedIsKeptOrLost'
  <2>1. \/ bundle_group' = bundle_group
        \/ bundle_group' = Bundling!XAck(bundle_group, {bundler.acking})
    BY DEF Bundling!AckResult
  <2>2. Bundling!Acked(bundle_group)' = Bundling!Acked(bundle_group')
    BY DEF Bundling!Acked
  <2>3. Bundling!Acked(bundle_group')
          \subseteq Bundling!Acked(bundle_group) \cup ({bundler.acking} \cap ResultId)
    BY <2>1, BundlerFacts DEF Bundling!Acked, Bundling!XAck, ResultId
  <2> QED BY <1>3, <1>4, <2>2, <2>3, OutputsKept
          DEF Bundling!BundlerNext, Bundling!BundlerStep, Elements
<1> QED BY <1>5, <1>6 DEF BundlerCustody

LEMMA RestartBundlerCustody ==
    ASSUME TypeOK, BundlerCustody, Bundling!RestartBundler
    PROVE  BundlerCustody'
<1>1. UNCHANGED <<bundle_group, bundles, bundle_events, bundle_errors>>
      /\ bundler' \in {Bundling!Reading, Bundling!Unstarted}
  BY DEF Bundling!RestartBundler
<1>2. Bundling!Acked(bundle_group)' = Bundling!Acked(bundle_group)
  BY <1>1 DEF Bundling!Acked
<1>3. AnnouncedIsStored' /\ AckedIsKeptOrLost'
  BY <1>1, <1>2, OutputsKept DEF Bundling!BundlerNext, Elements
<1> QED BY <1>1, <1>3, ReadingIsStored DEF BundlerCustody

\* The steps that leave the bundle consumer alone only add results and faults.
LEMMA OthersBundlerCustody ==
    ASSUME TypeOK, BundlerCustody, UNCHANGED bundlerVars,
           \A k \in ResultId : scoring_results'[k] = scoring_results[k],
           ResultId \subseteq ResultId',
           faults' >= faults, faults' \in Nat
    PROVE  BundlerCustody'
<1>1. UNCHANGED <<bundle_group, bundler, bundles, bundle_events, bundle_errors>>
  BY DEF bundlerVars
<1>2. /\ Elements(bundles)' = Elements(bundles)
      /\ Elements(bundle_errors)' = Elements(bundle_errors)
      /\ Elements(bundle_events)' = Elements(bundle_events)
      /\ Bundling!Acked(bundle_group)' = Bundling!Acked(bundle_group)
  BY <1>1 DEF Elements, Bundling!Acked
<1>3. \A k \in ResultId : KeptOrLost(k) => KeptOrLost(k)'
  BY <1>2, KeptStays
<1>4. /\ bundler \in BundlerLocals
      /\ Bundling!Acked(bundle_group) \subseteq ResultId
  BY BundlerFacts
<1>5. BatchIsStored'
  BY <1>1, <1>2, <1>4 DEF BundlerCustody, BatchIsStored, BundlerLocals
<1>6. AnnouncedIsStored' /\ AckedIsKeptOrLost'
  BY <1>2, <1>3, <1>4 DEF BundlerCustody, AnnouncedIsStored, AckedIsKeptOrLost
<1> QED BY <1>1, <1>3, <1>5, <1>6 DEF BundlerCustody, KeptOrLost, Kept

LEMMA ScorerStepFacts ==
    ASSUME TypeOK, Scoring!ScorerNext
    PROVE  /\ \A k \in ResultId : scoring_results'[k] = scoring_results[k]
           /\ ResultId \subseteq ResultId'
           /\ faults' >= faults /\ faults' \in Nat
<1>1. \/ scoring_results' = scoring_results
      \/ \E r \in scorer.todo : scoring_results' = Append(scoring_results, r)
  BY DEF Scoring!ScorerNext, Scoring!ScorerStep, Scoring!ReadEvents, Scoring!ParseEvents,
         Scoring!FetchSignals, Scoring!PublishResult, Scoring!AckEvent,
         Scoring!RestartScorer
<1>2. faults' = faults \/ Scoring!Fault(1) \/ Scoring!Fault(2)
  BY DEF Scoring!ScorerNext, Scoring!ScorerStep, Scoring!ReadEvents, Scoring!ParseEvents,
         Scoring!FetchSignals, Scoring!PublishResult, Scoring!AckEvent,
         Scoring!RestartScorer
<1>3. faults \in Nat
  BY BundlerFacts
<1>4. faults' >= faults /\ faults' \in Nat
  BY <1>2, <1>3 DEF Scoring!Fault
<1>5. CASE scoring_results' = scoring_results
  BY <1>4, <1>5 DEF ResultId
<1>6. CASE \E r \in scorer.todo : scoring_results' = Append(scoring_results, r)
  <2>1. PICK r \in scorer.todo : scoring_results' = Append(scoring_results, r)
    BY <1>6
  <2>2. scoring_results \in Seq(Result) /\ r \in Result /\ Len(scoring_results) \in Nat
    BY DEF TypeOK, ScorerTypeOK
  <2>3. /\ Len(scoring_results') = Len(scoring_results) + 1
        /\ \A k \in 1..Len(scoring_results) : scoring_results'[k] = scoring_results[k]
    BY <2>1, <2>2, AppendFacts
  <2>4. ResultId \subseteq ResultId'
    BY <2>2, <2>3 DEF ResultId
  <2> QED BY <1>4, <2>3, <2>4 DEF ResultId
<1> QED BY <1>1, <1>5, <1>6

LEMMA NextBundlerCustody == TypeOK /\ BundlerCustody /\ [Next]_vars => BundlerCustody'
<1> SUFFICES ASSUME TypeOK, BundlerCustody, [Next]_vars PROVE BundlerCustody'
  OBVIOUS
<1>1. CASE PublishEvent \/ StoreSignals \/ UNCHANGED vars
  <2>1. UNCHANGED <<scoring_results, faults>> /\ UNCHANGED bundlerVars
    BY <1>1 DEF PublishEvent, StoreSignals, vars
  <2>2. ResultId' = ResultId /\ faults \in Nat
    BY <2>1, BundlerFacts DEF ResultId
  <2> QED BY <2>1, <2>2, OthersBundlerCustody
<1>2. CASE Scoring!ScorerNext /\ UNCHANGED bundlerVars
  BY <1>2, ScorerStepFacts, OthersBundlerCustody
<1>3. CASE Bundling!BundlerNext
  BY <1>3, ReadResultsCustody, AssembleBundlesCustody, StoreBundleCustody,
     AnnounceBundleCustody, AckResultCustody, RestartBundlerCustody
  DEF Bundling!BundlerNext, Bundling!BundlerStep
<1> QED BY <1>1, <1>2, <1>3 DEF Next

LEMMA InitBundlerCustody == Init => BundlerCustody
<1> SUFFICES ASSUME Init PROVE BundlerCustody
  OBVIOUS
<1>1. /\ bundler = Bundling!Reading
      /\ bundles = <<>> /\ bundle_events = <<>>
      /\ bundle_group = [last |-> 0, pending |-> {}]
  BY DEF Init, Bundling!BundlerInit, Bundling!NewGroup
<1>2. Elements(bundle_events) = {} /\ Bundling!Acked(bundle_group) = {}
  BY <1>1 DEF Elements, Bundling!Acked
<1> QED BY <1>1, <1>2 DEF BundlerCustody, BatchIsStored, AnnouncedIsStored, AckedIsKeptOrLost,
                          Bundling!Reading

LEMMA BundlerCustodyHolds == Spec => []BundlerCustody
<1>1. Init => TypeOK /\ BundlerCustody
  BY InitTypes, InitBundlerCustody
<1>2. TypeOK /\ BundlerCustody /\ [Next]_vars => (TypeOK /\ BundlerCustody)'
  BY NextTypes, NextBundlerCustody
<1> QED BY <1>1, <1>2, PTL DEF Spec

\* Whatever call fails and whenever the service restarts, the row of a bundle is
\* stored before the bundle is announced as ready.
THEOREM PipelineAnnouncedIsStored == Spec => []AnnouncedIsStored
<1>1. BundlerCustody => AnnouncedIsStored
  BY DEF BundlerCustody
<1> QED BY <1>1, BundlerCustodyHolds, PTL

\* The results acknowledged, or about to be, whose bundle is neither stored nor
\* reported.  There are no more of them than faults.
InHand == Bundling!Acked(bundle_group) \cup {k \in {bundler.acking} : bundler.pc = "acking"}
Lost == InHand \ Kept

LostIsCounted == IsFiniteSet(Lost) /\ Cardinality(Lost) <= faults

\* A step that loses no report, or one report by one fault, keeps the count.
LEMMA LostKeepsCount ==
    ASSUME LostIsCounted, faults \in Nat, faults' \in Nat, NEW k,
           \/ Lost' \subseteq Lost /\ faults' >= faults
           \/ Lost' \subseteq Lost \cup {k} /\ faults' = faults + 1
    PROVE  LostIsCounted'
<1>1. IsFiniteSet(Lost) /\ Cardinality(Lost) \in Nat /\ Cardinality(Lost) <= faults
  BY FS_CardinalityType DEF LostIsCounted
<1>2. /\ IsFiniteSet(Lost \cup {k})
      /\ Cardinality(Lost \cup {k}) \in Nat
      /\ Cardinality(Lost \cup {k}) <= Cardinality(Lost) + 1
  <2>1. /\ IsFiniteSet(Lost \cup {k})
        /\ Cardinality(Lost \cup {k})
             = IF k \in Lost THEN Cardinality(Lost) ELSE Cardinality(Lost) + 1
    BY <1>1, FS_AddElement
  <2> QED BY <1>1, <2>1
<1> DEFINE next == Lost'
<1>3. /\ IsFiniteSet(next)
      /\ Cardinality(next) <= faults'
  <2> HIDE DEF next
  <2>1. CASE next \subseteq Lost /\ faults' >= faults
    <3>1. /\ IsFiniteSet(next) /\ Cardinality(next) <= Cardinality(Lost)
          /\ Cardinality(next) \in Nat
      BY <1>1, <2>1, FS_Subset, FS_CardinalityType
    <3> QED BY <1>1, <2>1, <3>1
  <2>2. CASE next \subseteq Lost \cup {k} /\ faults' = faults + 1
    <3>1. /\ IsFiniteSet(next) /\ Cardinality(next) <= Cardinality(Lost \cup {k})
          /\ Cardinality(next) \in Nat
      BY <1>2, <2>2, FS_Subset, FS_CardinalityType
    <3> QED BY <1>1, <1>2, <2>2, <3>1
  <2> QED BY <2>1, <2>2 DEF next
<1> QED BY <1>3 DEF LostIsCounted

\* A step of the consumer that is not an announcement acknowledges at most the
\* result it had in hand, and holds no other afterwards.
LEMMA OutputsLoseNone ==
    ASSUME TypeOK, Bundling!ReadResults \/ Bundling!AssembleBundles \/ Bundling!StoreBundle
                     \/ Bundling!AckResult \/ Bundling!RestartBundler
    PROVE  Lost' \subseteq Lost
<1>1. InHand' \subseteq InHand
  <2>1. bundler'.pc # "acking"
    <3>1. CASE bundler' \in {Bundling!Reading, Bundling!Unstarted}
      BY <3>1 DEF Bundling!Reading, Bundling!Unstarted
    <3>2. CASE bundler' # Bundling!Reading /\ ~Bundling!RestartBundler
      <4>1. \A left : Bundling!Store(left) # "acking"
        BY DEF Bundling!Store
      <4>2. \/ \E batch : bundler' = [Bundling!Reading EXCEPT !.pc = "assembling", !.batch = batch]
            \/ \E left, kept, broken :
                  bundler' = [bundler EXCEPT !.pc = Bundling!Store(left), !.todo = kept,
                                             !.unstored = left, !.broken = broken]
            \/ \E left : bundler' = [bundler EXCEPT !.pc = Bundling!Store(left), !.unstored = left]
            \/ \E left : bundler' = [bundler EXCEPT !.pc = "announcing", !.todo = left,
                                                    !.acking = 0]
        <5>1. CASE Bundling!ReadResults
          BY <3>2, <5>1 DEF Bundling!ReadResults, Bundling!Abandon
        <5>2. CASE Bundling!AssembleBundles
          BY <3>2, <5>2 DEF Bundling!AssembleBundles, Bundling!Abandon
        <5>3. CASE Bundling!StoreBundle
          BY <3>2, <5>3 DEF Bundling!StoreBundle, Bundling!Abandon
        <5>4. CASE Bundling!AckResult
          BY <3>2, <5>4 DEF Bundling!AckResult
        <5> QED BY <3>2, <5>1, <5>2, <5>3, <5>4
      <4> QED BY <4>1, <4>2, BundlerFacts DEF BundlerLocals, Bundling!Reading
    <3> QED BY <3>1, <3>2 DEF Bundling!RestartBundler
  <2>2. Bundling!Acked(bundle_group)' \subseteq InHand
    <3>1. CASE Bundling!ReadResults
      BY <3>1, ReadResultsAcksNone DEF InHand
    <3>2. CASE Bundling!AckResult
      <4>1. bundler.pc = "acking" /\ bundle_group' \in
               {bundle_group, Bundling!XAck(bundle_group, {bundler.acking})}
        BY <3>2 DEF Bundling!AckResult
      <4>2. Bundling!Acked(bundle_group') \subseteq Bundling!Acked(bundle_group) \cup {bundler.acking}
        BY <4>1, BundlerFacts DEF Bundling!Acked, Bundling!XAck
      <4>3. Bundling!Acked(bundle_group)' = Bundling!Acked(bundle_group')
        BY DEF Bundling!Acked
      <4> QED BY <4>1, <4>2, <4>3 DEF InHand
    <3>3. CASE bundle_group' = bundle_group
      BY <3>3 DEF InHand, Bundling!Acked
    <3> QED BY <3>1, <3>2, <3>3
         DEF Bundling!AssembleBundles, Bundling!StoreBundle, Bundling!RestartBundler
  <2> QED BY <2>1, <2>2 DEF InHand
<1>2. Kept \subseteq Kept'
  <2>1. CASE UNCHANGED <<bundles, bundle_errors>>
    BY <2>1 DEF Kept, Elements
  <2>2. CASE Bundling!StoreBundle
    <3>1. PICK i \in bundler.unstored : bundles' = bundles \/ bundles' = Append(bundles, i)
      BY <2>2 DEF Bundling!StoreBundle
    <3>2. i \in ResultId /\ bundles \in Seq(ResultId)
      BY BundlerFacts DEF BundlerLocals
    <3>3. Elements(Append(bundles, i)) = Elements(bundles) \cup {i}
      BY <3>2, AppendFacts
    <3>4. Elements(bundles) \subseteq Elements(bundles')
      BY <3>1, <3>3
    <3> QED BY <2>2, <3>4 DEF Kept, Elements, Bundling!StoreBundle
  <2> QED BY <2>1, <2>2 DEF Bundling!ReadResults, Bundling!AssembleBundles,
                            Bundling!AckResult, Bundling!RestartBundler
<1> QED BY <1>1, <1>2 DEF Lost

\* An announcement takes one result in hand; its report is lost only by a fault.
LEMMA AnnounceLosesOne ==
    ASSUME TypeOK, BundlerCustody, Bundling!AnnounceBundle
    PROVE  \E k : \/ Lost' \subseteq Lost /\ faults' >= faults
                  \/ Lost' \subseteq Lost \cup {k} /\ faults' = faults + 1
<1>1. PICK i \in bundler.todo :
         /\ \/ i \notin bundler.broken /\ UNCHANGED <<bundle_errors, faults>>
            \/ bundle_errors' = Append(bundle_errors, i) /\ UNCHANGED faults
            \/ Bundling!Fault /\ UNCHANGED bundle_errors
         /\ bundler' = [bundler EXCEPT !.pc = "acking", !.acking = i]
  BY DEF Bundling!AnnounceBundle
<1>2. /\ i \in ResultId /\ bundle_errors \in Seq(ResultId) /\ faults \in Nat
  BY BundlerFacts DEF BundlerLocals
<1>3. Elements(Append(bundle_errors, i)) = Elements(bundle_errors) \cup {i}
  BY <1>2, AppendFacts
<1>4. UNCHANGED <<bundle_group, bundles>>
  BY DEF Bundling!AnnounceBundle
<1>5. InHand' \subseteq InHand \cup {i}
  <2>1. bundler'.acking = i
    BY <1>1, BundlerFacts DEF BundlerLocals
  <2> QED BY <1>4, <2>1 DEF InHand, Bundling!Acked
<1>6. /\ Elements(bundles)' = Elements(bundles)
      /\ Elements(bundle_errors)' = Elements(bundle_errors')
  BY <1>4 DEF Elements
<1>7. Kept \subseteq Kept'
  BY <1>1, <1>3, <1>6 DEF Kept
<1>8. CASE i \in bundler.todo \ bundler.broken /\ faults' = faults
  <2>1. i \in Kept
    BY <1>8 DEF BundlerCustody, BatchIsStored, Bundling!AnnounceBundle, Kept
  <2> QED BY <1>2, <1>5, <1>7, <1>8, <2>1 DEF Lost
<1>9. CASE bundle_errors' = Append(bundle_errors, i) /\ faults' = faults
  <2>1. i \in Kept'
    BY <1>3, <1>6, <1>9 DEF Kept
  <2> QED BY <1>2, <1>5, <1>7, <1>9, <2>1 DEF Lost
<1>10. CASE Bundling!Fault
  BY <1>5, <1>7, <1>10 DEF Lost, Bundling!Fault
<1> QED BY <1>1, <1>8, <1>9, <1>10

LEMMA NextLostIsCounted ==
    TypeOK /\ BundlerCustody /\ LostIsCounted /\ [Next]_vars => LostIsCounted'
<1> SUFFICES ASSUME TypeOK, BundlerCustody, LostIsCounted, [Next]_vars
             PROVE  LostIsCounted'
  OBVIOUS
<1>1. faults \in Nat /\ TypeOK'
  BY BundlerFacts, NextTypes
<1>2. faults' \in Nat
  BY <1>1 DEF TypeOK, ScorerTypeOK
<1>3. UNCHANGED bundlerVars => Lost' \subseteq Lost
  BY DEF bundlerVars, Lost, InHand, Kept, Elements, Bundling!Acked
<1>4. CASE PublishEvent \/ StoreSignals \/ UNCHANGED vars
  <2>1. faults' = faults /\ UNCHANGED bundlerVars
    BY <1>4 DEF PublishEvent, StoreSignals, vars
  <2> QED BY <1>1, <1>2, <1>3, <2>1, LostKeepsCount
<1>5. CASE Scoring!ScorerNext /\ UNCHANGED bundlerVars
  BY <1>1, <1>2, <1>3, <1>5, ScorerStepFacts, LostKeepsCount
<1>6. CASE Bundling!BundlerNext
  <2>1. faults' >= faults
    BY <1>6, BundlerStepFacts
  <2>2. CASE Bundling!AnnounceBundle
    BY <1>1, <1>2, <2>2, AnnounceLosesOne, LostKeepsCount
  <2>3. CASE ~Bundling!AnnounceBundle
    <3>1. Lost' \subseteq Lost
      BY <1>6, <2>3, OutputsLoseNone DEF Bundling!BundlerNext, Bundling!BundlerStep
    <3> QED BY <1>1, <1>2, <2>1, <3>1, LostKeepsCount
  <2> QED BY <2>2, <2>3
<1> QED BY <1>4, <1>5, <1>6 DEF Next

LEMMA InitLostIsCounted == Init => LostIsCounted
<1> SUFFICES ASSUME Init PROVE LostIsCounted
  OBVIOUS
<1>1. /\ bundler.pc = "reading"
      /\ bundle_group = [last |-> 0, pending |-> {}]
      /\ faults = 0
  BY DEF Init, Bundling!BundlerInit, Bundling!NewGroup, Bundling!Reading
<1>2. Lost = {}
  BY <1>1 DEF Lost, InHand, Bundling!Acked
<1> QED BY <1>1, <1>2, FS_EmptySet DEF LostIsCounted

LEMMA LostIsCountedHolds == Spec => []LostIsCounted
<1>1. Init => TypeOK /\ BundlerCustody /\ LostIsCounted
  BY InitTypes, InitBundlerCustody, InitLostIsCounted
<1>2. TypeOK /\ BundlerCustody /\ LostIsCounted /\ [Next]_vars
        => (TypeOK /\ BundlerCustody /\ LostIsCounted)'
  BY NextTypes, NextBundlerCustody, NextLostIsCounted
<1> QED BY <1>1, <1>2, PTL DEF Spec

\* Whatever call fails and whenever the service restarts, a result is acknowledged
\* only when its bundle is stored or reported as an error; the reports that may be
\* lost are those of error bundles, each by a fault of its own.
THEOREM PipelineAckedIsKept == Spec => []AckedIsKept
<1>1. TypeOK /\ BundlerCustody /\ LostIsCounted => AckedIsKept
  <2> SUFFICES ASSUME TypeOK, BundlerCustody, LostIsCounted PROVE AckedIsKept
    OBVIOUS
  <2> DEFINE lost == Bundling!Acked(bundle_group) \ Kept
  <2>1. \A k \in lost : scoring_results[k].tx \in Unextractable
    BY DEF BundlerCustody, AckedIsKeptOrLost, KeptOrLost
  <2>2. lost \subseteq Lost
    BY DEF Lost, InHand
  <2> HIDE DEF lost
  <2>3. Cardinality(lost) <= faults
    <3>1. /\ Cardinality(lost) \in Nat /\ Cardinality(Lost) \in Nat
          /\ Cardinality(lost) <= Cardinality(Lost)
      BY <2>2, FS_Subset, FS_CardinalityType DEF LostIsCounted
    <3> QED BY <3>1, BundlerFacts DEF LostIsCounted
  <2> QED BY <2>1, <2>3 DEF AckedIsKept, lost
<1> QED BY <1>1, BundlerCustodyHolds, LostIsCountedHolds, PipelineTypes, PTL

-----------------------------------------------------------------------------
\* OrderKept: what a consumer still has to publish is newer, transaction by
\* transaction, than what it published.

\* The results of the batch that are not out yet.
Unpublished == {r \in scorer.todo : scorer.pc = "acking" => r.event # scorer.acking}

\* Results are of delivered events; a batch just delivered is newer than every result;
\* the results of a batch are of different transactions.
ScorerOrder ==
    /\ ResultsInOrder
    /\ \A k \in ResultId : scoring_results[k].event <= scoring_group.last
    /\ \A i \in scorer.batch : i <= scoring_group.last
    /\ scorer.pc \in {"parsing", "fetching"} =>
          \A k \in ResultId, i \in scorer.batch : scoring_results[k].event < i
    /\ \A r \in scorer.todo : r.event <= scoring_group.last
    /\ \A r, s \in scorer.todo : r.tx = s.tx => r = s
    /\ \A r \in Unpublished, k \in ResultId :
          scoring_results[k].tx = r.tx => scoring_results[k].event < r.event

LEMMA ScorerFacts ==
    ASSUME TypeOK
    PROVE  /\ Len(detection_events) \in Nat /\ Event \subseteq Nat
           /\ scoring_group \in [last : 0..Len(detection_events), pending : SUBSET Event]
           /\ scoring_group.last \in Nat
           /\ scorer \in ScorerLocals
           /\ scorer.batch \subseteq Event
           /\ \A r \in scorer.todo : r \in Result /\ r.event \in Nat
           /\ scoring_results \in Seq(Result)
           /\ Len(scoring_results) \in Nat
           /\ \A k \in ResultId : scoring_results[k] \in Result /\ scoring_results[k].event \in Nat
<1>1. /\ Len(detection_events) \in Nat
      /\ scoring_group \in [last : 0..Len(detection_events), pending : SUBSET Event]
      /\ scorer \in ScorerLocals
      /\ scoring_results \in Seq(Result)
  BY DEF TypeOK, ScorerTypeOK, ScorerLocals
<1>2. Event \subseteq Nat
  BY PipelineAssumption DEF Event
<1>3. \A r \in Result : r.event \in Nat
  BY <1>2 DEF Result
<1>4. \A k \in ResultId : scoring_results[k] \in Result
  BY <1>1 DEF ResultId
<1>5. scorer.batch \subseteq Event /\ scorer.todo \subseteq Result
  BY <1>1 DEF ScorerLocals
<1> QED BY <1>1, <1>2, <1>3, <1>4, <1>5

\* The order of results is kept by a step that publishes nothing and whose batch, if it
\* has one, is newer than the results or has nothing to publish that it had not before.
LEMMA SameResultsOrder ==
    ASSUME TypeOK, ScorerOrder, UNCHANGED scoring_results,
           scoring_group'.last \in Nat, scoring_group.last <= scoring_group'.last,
           \A i \in scorer'.batch : i <= scoring_group'.last,
           scorer'.pc \in {"parsing", "fetching"} =>
              \A k \in ResultId, i \in scorer'.batch : scoring_results[k].event < i,
           Unpublished' \subseteq Unpublished,
           scorer'.todo \subseteq scorer.todo
    PROVE  ScorerOrder'
<1>1. ResultId' = ResultId
  BY DEF ResultId
<1>2. ResultsInOrder'
  BY <1>1 DEF ScorerOrder, ResultsInOrder
<1>3. \A k \in ResultId : scoring_results[k].event <= scoring_group'.last
  BY ScorerFacts DEF ScorerOrder
<1>4. \A r \in scorer'.todo : r.event <= scoring_group'.last
  BY ScorerFacts DEF ScorerOrder
<1>5. \A r, s \in scorer'.todo : r.tx = s.tx => r = s
  BY DEF ScorerOrder
<1>6. \A r \in Unpublished', k \in ResultId :
         scoring_results[k].tx = r.tx => scoring_results[k].event < r.event
  BY DEF ScorerOrder
<1> QED BY <1>1, <1>2, <1>3, <1>4, <1>5, <1>6 DEF ScorerOrder

LEMMA ReadingIsEmpty ==
    ASSUME scorer' \in {Scoring!Reading, Scoring!Unstarted}
    PROVE  /\ scorer'.pc \in {"reading", "unstarted"}
           /\ scorer'.batch = {} /\ scorer'.todo = {}
           /\ Unpublished' = {}
BY DEF Scoring!Reading, Scoring!Unstarted, Unpublished

\* The consumer gives up or ends its batch.
LEMMA AbandonOrder ==
    ASSUME TypeOK, ScorerOrder, UNCHANGED scoring_results,
           scoring_group'.last = scoring_group.last,
           scorer' \in {Scoring!Reading, Scoring!Unstarted}
    PROVE  ScorerOrder'
<1>1. scoring_group'.last \in Nat /\ scoring_group.last <= scoring_group'.last
  BY ScorerFacts
<1> QED BY <1>1, ReadingIsEmpty, SameResultsOrder

LEMMA ReadEventsOrder ==
    ASSUME TypeOK, ScorerOrder, Scoring!ReadEvents
    PROVE  ScorerOrder'
<1>1. /\ Len(detection_events) \in Nat
      /\ scoring_group.last \in 0..Len(detection_events)
      /\ scoring_group.last < Len(detection_events)
  BY DEF TypeOK, ScorerTypeOK, Scoring!ReadEvents, Scoring!Undelivered
<1>2. PICK top \in 1..Len(detection_events) :
         /\ scoring_group.last < top
         /\ Scoring!NextBatch(scoring_group, detection_events, ScoringBatch)
               = (scoring_group.last + 1)..top
         /\ scoring_group' = [last |-> top,
                              pending |-> scoring_group.pending \cup ((scoring_group.last + 1)..top)]
  BY <1>1, Delivery, PipelineAssumption DEF Scoring!ReadEvents
<1> DEFINE batch == (scoring_group.last + 1)..top
<1>3. /\ scoring_group'.last = top /\ top \in Nat /\ scoring_group.last <= top
      /\ \A i \in batch : i <= top
      /\ \A k \in ResultId, i \in batch : scoring_results[k].event < i
  BY <1>1, <1>2, ScorerFacts DEF ScorerOrder
<1>4. UNCHANGED scoring_results
  BY DEF Scoring!ReadEvents
<1>5. \/ scorer' = [Scoring!Reading EXCEPT !.pc = "parsing", !.batch = batch]
      \/ scorer' = Scoring!Reading
  BY <1>2 DEF Scoring!ReadEvents, Scoring!Abandon
<1> HIDE DEF batch
<1>6. CASE scorer' = [Scoring!Reading EXCEPT !.pc = "parsing", !.batch = batch]
  <2>1. scorer'.todo = {} /\ scorer'.batch = batch /\ Unpublished' = {}
    BY <1>6 DEF Scoring!Reading, Unpublished
  <2> QED BY <1>3, <1>4, <2>1, SameResultsOrder
<1>7. CASE scorer' = Scoring!Reading
  BY <1>3, <1>4, <1>7, ReadingIsEmpty, SameResultsOrder
<1> QED BY <1>5, <1>6, <1>7

LEMMA ParseEventsOrder ==
    ASSUME TypeOK, ScorerOrder, Scoring!ParseEvents
    PROVE  ScorerOrder'
<1>1. PICK ids : scoring_group' = Scoring!XAck(scoring_group, ids)
  BY DEF Scoring!ParseEvents
<1>2. scoring_group'.last = scoring_group.last /\ scoring_group.last \in Nat
  BY <1>1, ScorerFacts DEF Scoring!XAck
<1>3. UNCHANGED scoring_results /\ scorer.pc = "parsing"
  BY DEF Scoring!ParseEvents
<1>4. scorer' = Scoring!Reading \/ scorer' = [scorer EXCEPT !.pc = "fetching"]
  BY DEF Scoring!ParseEvents, Scoring!Abandon
<1>5. CASE scorer' = [scorer EXCEPT !.pc = "fetching"]
  <2>1. /\ scorer'.pc = "fetching" /\ scorer'.batch = scorer.batch
        /\ scorer'.todo = scorer.todo
    BY <1>5, ScorerFacts DEF ScorerLocals
  <2>2. Unpublished' = Unpublished
    BY <1>3, <2>1 DEF Unpublished
  <2>3. /\ \A i \in scorer.batch : i <= scoring_group.last
        /\ \A k \in ResultId, i \in scorer.batch : scoring_results[k].event < i
    BY <1>3 DEF ScorerOrder
  <2>4. scoring_group'.last \in Nat /\ scoring_group.last <= scoring_group'.last
    BY <1>2
  <2> QED BY <1>2, <1>3, <2>1, <2>2, <2>3, <2>4, SameResultsOrder
<1> QED BY <1>2, <1>3, <1>4, <1>5, AbandonOrder

\* One result for each transaction of the batch, that of its last event.
LEMMA FetchSignalsOrder ==
    ASSUME TypeOK, ScorerOrder, Scoring!FetchSignals
    PROVE  ScorerOrder'
<1> DEFINE results == {Scoring!ScoreResult(i) : i \in Scoring!Latest(scorer.batch)}
<1>1. UNCHANGED <<scoring_group, scoring_results>> /\ scorer.pc = "fetching"
  BY DEF Scoring!FetchSignals
<1>2. \/ scorer' = [scorer EXCEPT !.pc = "publishing", !.todo = results]
      \/ scorer' = Scoring!Reading
  BY DEF Scoring!FetchSignals, Scoring!Abandon
<1>3. \A r \in results : \E i \in Scoring!Latest(scorer.batch) :
         r = Scoring!ScoreResult(i) /\ r.event = i /\ r.tx = detection_events[i]
  BY DEF Scoring!ScoreResult
<1>4. /\ Scoring!Latest(scorer.batch) \subseteq scorer.batch
      /\ \A i, j \in Scoring!Latest(scorer.batch) :
            detection_events[i] = detection_events[j] => i <= j
  BY DEF Scoring!Latest, Scoring!Named
<1>5. \A r \in results : r.event \in scorer.batch
  BY <1>3, <1>4
<1>6. \A r, s \in results : r.tx = s.tx => r = s
  <2> SUFFICES ASSUME NEW r \in results, NEW s \in results, r.tx = s.tx PROVE r = s
    OBVIOUS
  <2>1. PICK i \in Scoring!Latest(scorer.batch) :
           r = Scoring!ScoreResult(i) /\ r.tx = detection_events[i]
    BY <1>3
  <2>2. PICK j \in Scoring!Latest(scorer.batch) :
           s = Scoring!ScoreResult(j) /\ s.tx = detection_events[j]
    BY <1>3
  <2>3. i <= j /\ j <= i /\ i \in Nat /\ j \in Nat
    BY <1>4, <2>1, <2>2, ScorerFacts
  <2>4. i = j
    BY <2>3
  <2> QED BY <2>1, <2>2, <2>4
<1> HIDE DEF results
<1>7. CASE scorer' = [scorer EXCEPT !.pc = "publishing", !.todo = results]
  <2>1. scorer'.pc = "publishing" /\ scorer'.batch = scorer.batch /\ scorer'.todo = results
    BY <1>7, ScorerFacts DEF ScorerLocals
  <2>2. Unpublished' = results /\ ResultId' = ResultId
    BY <1>1, <2>1 DEF Unpublished, ResultId
  <2>3. \A r \in results : r.event <= scoring_group.last
    BY <1>5 DEF ScorerOrder
  <2>4. \A r \in results, k \in ResultId : scoring_results[k].event < r.event
    BY <1>1, <1>5 DEF ScorerOrder
  <2>5. ResultsInOrder'
    BY <1>1, <2>2 DEF ScorerOrder, ResultsInOrder
  <2> QED BY <1>1, <1>6, <2>1, <2>2, <2>3, <2>4, <2>5 DEF ScorerOrder
<1> QED BY <1>1, <1>2, <1>7, AbandonOrder

\* The result published is newer than those of its transaction, and the only one of
\* the batch for it.
LEMMA PublishResultOrder ==
    ASSUME TypeOK, ScorerOrder, Scoring!PublishResult
    PROVE  ScorerOrder'
<1>1. PICK r \in scorer.todo :
         /\ scoring_results' \in {scoring_results, Append(scoring_results, r)}
         /\ \/ scorer' = [scorer EXCEPT !.pc = "acking", !.acking = r.event]
            \/ scorer' = Scoring!Reading
  BY DEF Scoring!PublishResult, Scoring!Abandon
<1>2. UNCHANGED scoring_group /\ scorer.pc = "publishing"
  BY DEF Scoring!PublishResult
<1>3. r \in Unpublished /\ Unpublished = scorer.todo /\ r \in Result
  BY <1>2, ScorerFacts DEF Unpublished
<1> DEFINE n == Len(scoring_results)
<1>4. /\ n \in Nat /\ ResultId = 1..n
      /\ \A k \in ResultId : scoring_results'[k] = scoring_results[k]
      /\ \/ ResultId' = ResultId
         \/ ResultId' = ResultId \cup {n + 1} /\ scoring_results'[n + 1] = r
  <2>1. n \in Nat /\ ResultId = 1..n
    BY ScorerFacts DEF ResultId
  <2>2. CASE scoring_results' = scoring_results
    BY <2>1, <2>2 DEF ResultId
  <2>3. CASE scoring_results' = Append(scoring_results, r)
    <3>1. /\ Len(scoring_results') = n + 1
          /\ scoring_results'[n + 1] = r
          /\ \A k \in 1..n : scoring_results'[k] = scoring_results[k]
      BY <1>3, <2>3, ScorerFacts, AppendFacts
    <3>2. ResultId' = ResultId \cup {n + 1}
      BY <2>1, <3>1 DEF ResultId
    <3> QED BY <2>1, <3>1, <3>2
  <2> QED BY <1>1, <2>2, <2>3
<1>5. \A k \in ResultId' : \/ k \in ResultId /\ scoring_results'[k] = scoring_results[k]
                           \/ k = n + 1 /\ scoring_results'[k] = r
  BY <1>4
<1>6. ResultsInOrder'
  <2> SUFFICES ASSUME NEW k \in ResultId', NEW l \in ResultId', k < l,
                      scoring_results'[k].tx = scoring_results'[l].tx
               PROVE  scoring_results'[k].event < scoring_results'[l].event
    BY DEF ResultsInOrder
  <2>1. k \in ResultId /\ scoring_results'[k] = scoring_results[k]
    BY <1>4, <1>5
  <2>2. CASE l \in ResultId /\ scoring_results'[l] = scoring_results[l]
    BY <2>1, <2>2 DEF ScorerOrder, ResultsInOrder
  <2>3. CASE scoring_results'[l] = r
    BY <1>3, <2>1, <2>3 DEF ScorerOrder
  <2> QED BY <1>5, <2>2, <2>3
<1>7. \A k \in ResultId' : scoring_results'[k].event <= scoring_group'.last
  BY <1>2, <1>5 DEF ScorerOrder
<1>8. CASE scorer' = [scorer EXCEPT !.pc = "acking", !.acking = r.event]
  <2>1. /\ scorer'.pc = "acking" /\ scorer'.acking = r.event
        /\ scorer'.batch = scorer.batch /\ scorer'.todo = scorer.todo
    BY <1>8, ScorerFacts DEF ScorerLocals
  <2>2. Unpublished' = {s \in scorer.todo : s.event # r.event}
    BY <2>1 DEF Unpublished
  <2>3. \A s \in Unpublished', k \in ResultId' :
           scoring_results'[k].tx = s.tx => scoring_results'[k].event < s.event
    <3> SUFFICES ASSUME NEW s \in scorer.todo, s.event # r.event, NEW k \in ResultId',
                        scoring_results'[k].tx = s.tx
                 PROVE  scoring_results'[k].event < s.event
      BY <2>2
    <3>1. s.tx # r.tx
      BY DEF ScorerOrder
    <3> QED BY <1>3, <1>5, <3>1 DEF ScorerOrder
  <2> QED BY <1>2, <1>6, <1>7, <2>1, <2>3 DEF ScorerOrder
<1>9. CASE scorer' = Scoring!Reading
  BY <1>6, <1>7, <1>9, ReadingIsEmpty DEF ScorerOrder
<1> QED BY <1>1, <1>8, <1>9

LEMMA AckEventOrder ==
    ASSUME TypeOK, ScorerOrder, Scoring!AckEvent
    PROVE  ScorerOrder'
<1> DEFINE left == {r \in scorer.todo : r.event # scorer.acking}
<1>1. UNCHANGED scoring_results /\ scorer.pc = "acking"
  BY DEF Scoring!AckEvent
<1>2. \/ scoring_group' = scoring_group
      \/ scoring_group' = Scoring!XAck(scoring_group, {scorer.acking})
  BY DEF Scoring!AckEvent
<1>3. scoring_group'.last = scoring_group.last /\ scoring_group.last \in Nat
  BY <1>2, ScorerFacts DEF Scoring!XAck
<1>4. \/ scorer' = Scoring!Reading
      \/ scorer' = [scorer EXCEPT !.pc = "publishing", !.todo = left, !.acking = 0]
  BY DEF Scoring!AckEvent, Scoring!Abandon
<1>5. left = Unpublished /\ left \subseteq scorer.todo
  BY <1>1 DEF Unpublished
<1> HIDE DEF left
<1>6. CASE scorer' = [scorer EXCEPT !.pc = "publishing", !.todo = left, !.acking = 0]
  <2>1. scorer'.pc = "publishing" /\ scorer'.batch = scorer.batch /\ scorer'.todo = left
    BY <1>6, ScorerFacts DEF ScorerLocals
  <2>2. Unpublished' = left
    BY <2>1 DEF Unpublished
  <2>3. \A i \in scorer.batch : i <= scoring_group'.last
    BY <1>3 DEF ScorerOrder
  <2>4. scoring_group'.last \in Nat /\ scoring_group.last <= scoring_group'.last
    BY <1>3
  <2> QED BY <1>1, <1>5, <2>1, <2>2, <2>3, <2>4, SameResultsOrder
<1> QED BY <1>1, <1>3, <1>4, <1>6, AbandonOrder

LEMMA NextScorerOrder == TypeOK /\ ScorerOrder /\ [Next]_vars => ScorerOrder'
<1> SUFFICES ASSUME TypeOK, ScorerOrder, [Next]_vars PROVE ScorerOrder'
  OBVIOUS
<1>1. CASE UNCHANGED <<scoring_group, scorer, scoring_results>>
  <2>1. Unpublished' = Unpublished /\ scoring_group'.last \in Nat
    BY <1>1, ScorerFacts DEF Unpublished
  <2> QED BY <1>1, <2>1, SameResultsOrder DEF ScorerOrder
<1>2. CASE Scoring!ScorerNext
  <2>1. CASE Scoring!RestartScorer
    BY <2>1, AbandonOrder DEF Scoring!RestartScorer
  <2> QED BY <1>2, <2>1, ReadEventsOrder, ParseEventsOrder, FetchSignalsOrder,
             PublishResultOrder, AckEventOrder
          DEF Scoring!ScorerNext, Scoring!ScorerStep
<1>3. CASE Bundling!BundlerNext /\ UNCHANGED <<detection_events, scorerVars>>
  <2>1. UNCHANGED scoring_results
    BY <1>3, BundlerKeepsScorerTypes DEF TypeOK
  <2> QED BY <1>1, <1>3, <2>1 DEF scorerVars
<1>4. CASE PublishEvent \/ StoreSignals \/ UNCHANGED vars
  BY <1>1, <1>4 DEF PublishEvent, StoreSignals, vars, scorerVars
<1> QED BY <1>2, <1>3, <1>4 DEF Next

LEMMA InitScorerOrder == Init => ScorerOrder
<1> SUFFICES ASSUME Init PROVE ScorerOrder
  OBVIOUS
<1>1. scorer = Scoring!Reading /\ scoring_results = <<>>
  BY DEF Init, Scoring!ScorerInit
<1>2. ResultId = {}
  BY <1>1 DEF ResultId
<1> QED BY <1>1, <1>2 DEF ScorerOrder, ResultsInOrder, Unpublished, Scoring!Reading

\* Bundles are of delivered results; a batch just delivered is newer than every
\* bundle; the bundles still to be stored are of different transactions, each newer
\* than the stored ones of its transaction.
BundlerOrder ==
    /\ BundlesInOrder
    /\ \A k \in DOMAIN bundles : bundles[k] <= bundle_group.last
    /\ \A i \in bundler.batch : i <= bundle_group.last
    /\ bundler.pc = "assembling" =>
          \A k \in DOMAIN bundles, i \in bundler.batch : bundles[k] < i
    /\ bundler.unstored \subseteq bundler.batch
    /\ \A i, j \in bundler.unstored : scoring_results[i].tx = scoring_results[j].tx => i = j
    /\ \A i \in bundler.unstored, k \in DOMAIN bundles :
          scoring_results[bundles[k]].tx = scoring_results[i].tx => bundles[k] < i

LEMMA BundleFacts ==
    ASSUME TypeOK
    PROVE  /\ \A k \in DOMAIN bundles : bundles[k] \in ResultId /\ bundles[k] \in Nat
           /\ DOMAIN bundles = 1..Len(bundles) /\ Len(bundles) \in Nat
           /\ bundler.batch \subseteq ResultId /\ bundler.unstored \subseteq ResultId
           /\ ResultId \subseteq Nat
           /\ bundle_group.last \in Nat /\ bundle_group.last <= Len(scoring_results)
<1>1. ResultId \subseteq Nat
  BY BundlerFacts DEF ResultId
<1>2. bundler.batch \subseteq ResultId /\ bundler.unstored \subseteq ResultId
  BY BundlerFacts DEF BundlerLocals
<1>3. /\ \A k \in DOMAIN bundles : bundles[k] \in ResultId
      /\ DOMAIN bundles = 1..Len(bundles) /\ Len(bundles) \in Nat
  BY BundlerFacts
<1>4. bundle_group.last \in Nat /\ bundle_group.last <= Len(scoring_results)
  BY BundlerFacts
<1> QED BY <1>1, <1>2, <1>3, <1>4

\* The order of bundles is kept by a step that stores none and whose batch, if it is
\* to be assembled, is newer than the bundles.
LEMMA SameBundlesOrder ==
    ASSUME TypeOK, BundlerOrder, UNCHANGED bundles,
           \A k \in ResultId : scoring_results'[k] = scoring_results[k],
           bundle_group'.last \in Nat, bundle_group.last <= bundle_group'.last,
           \A i \in bundler'.batch : i <= bundle_group'.last,
           bundler'.pc = "assembling" =>
              \A k \in DOMAIN bundles, i \in bundler'.batch : bundles[k] < i,
           bundler'.unstored \subseteq bundler'.batch,
           bundler'.unstored \subseteq bundler.unstored
    PROVE  BundlerOrder'
<1>1. BundlesInOrder'
  BY BundleFacts DEF BundlerOrder, BundlesInOrder
<1>2. \A k \in DOMAIN bundles : bundles[k] <= bundle_group'.last
  BY BundleFacts DEF BundlerOrder
<1>3. \A i, j \in bundler'.unstored : scoring_results'[i].tx = scoring_results'[j].tx => i = j
  BY BundleFacts DEF BundlerOrder
<1>4. \A i \in bundler'.unstored, k \in DOMAIN bundles :
         scoring_results'[bundles[k]].tx = scoring_results'[i].tx => bundles[k] < i
  BY BundleFacts DEF BundlerOrder
<1> QED BY <1>1, <1>2, <1>3, <1>4 DEF BundlerOrder

LEMMA BundlerReadingIsEmpty ==
    ASSUME bundler' \in {Bundling!Reading, Bundling!Unstarted}
    PROVE  /\ bundler'.pc \in {"reading", "unstarted"}
           /\ bundler'.batch = {} /\ bundler'.unstored = {}
BY DEF Bundling!Reading, Bundling!Unstarted

\* The consumer gives up or ends its batch.
LEMMA BundlerAbandonOrder ==
    ASSUME TypeOK, BundlerOrder, UNCHANGED <<bundles, scoring_results>>,
           bundle_group'.last = bundle_group.last,
           bundler' \in {Bundling!Reading, Bundling!Unstarted}
    PROVE  BundlerOrder'
<1>1. bundle_group'.last \in Nat /\ bundle_group.last <= bundle_group'.last
  BY BundleFacts
<1> QED BY <1>1, BundlerReadingIsEmpty, SameBundlesOrder

LEMMA ReadResultsOrder ==
    ASSUME TypeOK, BundlerOrder, Bundling!ReadResults
    PROVE  BundlerOrder'
<1>1. /\ bundle_group.last < Len(scoring_results)
      /\ UNCHANGED <<bundles, scoring_results>>
  BY DEF Bundling!ReadResults, Bundling!Undelivered
<1>2. PICK top \in 1..Len(scoring_results) :
         /\ bundle_group.last < top
         /\ Bundling!NextBatch(bundle_group, scoring_results, BundleBatch)
               = (bundle_group.last + 1)..top
         /\ bundle_group' = [last |-> top,
                             pending |-> bundle_group.pending \cup ((bundle_group.last + 1)..top)]
  <2>1. /\ Bundling!NextBatch(bundle_group, scoring_results, BundleBatch)
              = Scoring!NextBatch(bundle_group, scoring_results, BundleBatch)
        /\ bundle_group' = Scoring!XReadGroup(bundle_group,
                             Scoring!NextBatch(bundle_group, scoring_results, BundleBatch))
    BY DEF Bundling!ReadResults, Bundling!NextBatch, Scoring!NextBatch,
           Bundling!XReadGroup, Scoring!XReadGroup
  <2>2. bundle_group.last \in 0..Len(scoring_results) /\ Len(scoring_results) \in Nat
    BY BundlerFacts
  <2>3. \E top \in 1..Len(scoring_results) :
           /\ bundle_group.last < top
           /\ Scoring!NextBatch(bundle_group, scoring_results, BundleBatch)
                 = (bundle_group.last + 1)..top
           /\ Scoring!XReadGroup(bundle_group,
                                 Scoring!NextBatch(bundle_group, scoring_results, BundleBatch))
                 = [last |-> top,
                    pending |-> bundle_group.pending \cup ((bundle_group.last + 1)..top)]
    BY <1>1, <2>2, Delivery, PipelineAssumption
  <2> QED BY <2>1, <2>3
<1> DEFINE batch == (bundle_group.last + 1)..top
<1>3. /\ bundle_group'.last = top /\ top \in Nat /\ bundle_group.last <= top
      /\ \A i \in batch : i <= top
      /\ \A k \in DOMAIN bundles, i \in batch : bundles[k] < i
  BY <1>1, <1>2, BundleFacts, BundlerFacts DEF BundlerOrder
<1>4. \/ bundler' = [Bundling!Reading EXCEPT !.pc = "assembling", !.batch = batch]
      \/ bundler' = Bundling!Reading
  BY <1>2 DEF Bundling!ReadResults, Bundling!Abandon
<1> HIDE DEF batch
<1>5. CASE bundler' = [Bundling!Reading EXCEPT !.pc = "assembling", !.batch = batch]
  <2>1. bundler'.unstored = {} /\ bundler'.batch = batch
    BY <1>5 DEF Bundling!Reading
  <2> QED BY <1>1, <1>3, <2>1, SameBundlesOrder
<1>6. CASE bundler' = Bundling!Reading
  BY <1>1, <1>3, <1>6, BundlerReadingIsEmpty, SameBundlesOrder
<1> QED BY <1>4, <1>5, <1>6

\* One bundle for each transaction of the batch, of its last result.
LEMMA AssembleBundlesOrder ==
    ASSUME TypeOK, BundlerOrder, Bundling!AssembleBundles
    PROVE  BundlerOrder'
<1> DEFINE kept == Bundling!Latest(bundler.batch)
           sound == kept \ Bundling!ErrorBundles(kept)
<1>1. /\ UNCHANGED <<scoring_results, bundle_group, bundles>>
      /\ bundler.pc = "assembling"
  BY DEF Bundling!AssembleBundles
<1>2. \/ bundler' = [bundler EXCEPT !.pc = Bundling!Store(sound), !.todo = kept,
                                    !.unstored = sound, !.broken = kept \ sound]
      \/ bundler' = Bundling!Reading
  BY DEF Bundling!AssembleBundles, Bundling!Abandon
<1>3. /\ sound \subseteq bundler.batch
      /\ \A i, j \in sound : scoring_results[i].tx = scoring_results[j].tx => i <= j
  BY DEF Bundling!Latest
<1>4. \A i, j \in sound : scoring_results[i].tx = scoring_results[j].tx => i = j
  <2> SUFFICES ASSUME NEW i \in sound, NEW j \in sound,
                      scoring_results[i].tx = scoring_results[j].tx
               PROVE  i = j
    OBVIOUS
  <2>1. i <= j /\ j <= i
    BY <1>3
  <2>2. i \in Nat /\ j \in Nat
    BY <1>3, BundleFacts
  <2> QED BY <2>1, <2>2
<1>5. Bundling!Store(sound) \in {"announcing", "storing"}
  BY DEF Bundling!Store
<1> HIDE DEF kept, sound
<1>6. CASE bundler' = [bundler EXCEPT !.pc = Bundling!Store(sound), !.todo = kept,
                                      !.unstored = sound, !.broken = kept \ sound]
  <2>1. /\ bundler'.pc # "assembling" /\ bundler'.batch = bundler.batch
        /\ bundler'.unstored = sound
    BY <1>5, <1>6, BundlerFacts DEF BundlerLocals
  <2>2. \A i \in sound, k \in DOMAIN bundles : bundles[k] < i
    BY <1>1, <1>3 DEF BundlerOrder
  <2>3. BundlesInOrder'
    BY <1>1 DEF BundlerOrder, BundlesInOrder
  <2> QED BY <1>1, <1>3, <1>4, <2>1, <2>2, <2>3 DEF BundlerOrder
<1>7. CASE bundler' = Bundling!Reading
  BY <1>1, <1>7, BundlerAbandonOrder
<1> QED BY <1>2, <1>6, <1>7

\* The bundle stored is newer than those of its transaction, and the only one of the
\* batch for it.
LEMMA StoreBundleOrder ==
    ASSUME TypeOK, BundlerOrder, Bundling!StoreBundle
    PROVE  BundlerOrder'
<1>1. PICK i \in bundler.unstored :
         /\ bundles' \in {bundles, Append(bundles, i)}
         /\ \/ bundler' = [bundler EXCEPT !.pc = Bundling!Store(bundler.unstored \ {i}),
                                          !.unstored = bundler.unstored \ {i}]
            \/ bundler' = Bundling!Reading
  BY DEF Bundling!StoreBundle, Bundling!Abandon
<1>2. UNCHANGED <<scoring_results, bundle_group>>
  BY DEF Bundling!StoreBundle
<1>3. i \in ResultId /\ i \in Nat /\ i <= bundle_group.last
  BY BundleFacts DEF BundlerOrder
<1> DEFINE n == Len(bundles)
<1>4. /\ DOMAIN bundles = 1..n /\ n \in Nat
      /\ \A k \in DOMAIN bundles' : \/ k \in DOMAIN bundles /\ bundles'[k] = bundles[k]
                                    \/ k = n + 1 /\ bundles'[k] = i
  <2>1. n \in Nat /\ DOMAIN bundles = 1..n
    BY BundleFacts
  <2>2. CASE bundles' = bundles
    BY <2>1, <2>2
  <2>3. CASE bundles' = Append(bundles, i)
    <3>1. /\ Len(bundles') = n + 1 /\ DOMAIN bundles' = 1..(n + 1)
          /\ bundles'[n + 1] = i
          /\ \A k \in 1..n : bundles'[k] = bundles[k]
      BY <1>3, <2>3, BundlerFacts, AppendFacts
    <3> QED BY <2>1, <3>1
  <2> QED BY <1>1, <2>2, <2>3
<1>5. \A k \in DOMAIN bundles' : bundles'[k] <= bundle_group.last
  BY <1>3, <1>4 DEF BundlerOrder
<1>6. BundlesInOrder'
  <2> SUFFICES ASSUME NEW k \in DOMAIN bundles', NEW l \in DOMAIN bundles', k < l,
                      scoring_results[bundles'[k]].tx = scoring_results[bundles'[l]].tx
               PROVE  bundles'[k] < bundles'[l]
    BY <1>2 DEF BundlesInOrder
  <2>1. k \in DOMAIN bundles /\ bundles'[k] = bundles[k]
    BY <1>4
  <2>2. CASE l \in DOMAIN bundles /\ bundles'[l] = bundles[l]
    BY <2>1, <2>2 DEF BundlerOrder, BundlesInOrder
  <2>3. CASE bundles'[l] = i
    BY <2>1, <2>3 DEF BundlerOrder
  <2> QED BY <1>4, <2>2, <2>3
<1>7. CASE bundler' = [bundler EXCEPT !.pc = Bundling!Store(bundler.unstored \ {i}),
                                      !.unstored = bundler.unstored \ {i}]
  <2>1. /\ bundler'.pc = Bundling!Store(bundler.unstored \ {i})
        /\ bundler'.batch = bundler.batch
        /\ bundler'.unstored = bundler.unstored \ {i}
    BY <1>7, BundlerFacts DEF BundlerLocals
  <2>2. bundler'.pc # "assembling"
    BY <2>1 DEF Bundling!Store
  <2>3. \A j \in bundler'.unstored, k \in DOMAIN bundles' :
           scoring_results[bundles'[k]].tx = scoring_results[j].tx => bundles'[k] < j
    <3> SUFFICES ASSUME NEW j \in bundler.unstored, j # i, NEW k \in DOMAIN bundles',
                        scoring_results[bundles'[k]].tx = scoring_results[j].tx
                 PROVE  bundles'[k] < j
      BY <2>1
    <3>1. scoring_results[j].tx # scoring_results[i].tx
      BY DEF BundlerOrder
    <3>2. k \in DOMAIN bundles /\ bundles'[k] = bundles[k]
      BY <1>4, <3>1
    <3> QED BY <3>2 DEF BundlerOrder
  <2> QED BY <1>2, <1>5, <1>6, <2>1, <2>2, <2>3 DEF BundlerOrder
<1>8. CASE bundler' = Bundling!Reading
  BY <1>2, <1>5, <1>6, <1>8, BundlerReadingIsEmpty DEF BundlerOrder
<1> QED BY <1>1, <1>7, <1>8

\* Announcing and acknowledging publish no bundle row.
LEMMA OutputsOrder ==
    ASSUME TypeOK, BundlerOrder, Bundling!AnnounceBundle \/ Bundling!AckResult
    PROVE  BundlerOrder'
<1>1. UNCHANGED <<bundles, scoring_results>>
  BY DEF Bundling!AnnounceBundle, Bundling!AckResult
<1>2. bundle_group' = bundle_group \/ bundle_group' = Bundling!XAck(bundle_group, {bundler.acking})
  BY DEF Bundling!AnnounceBundle, Bundling!AckResult
<1>3. bundle_group'.last = bundle_group.last
  BY <1>2, BundlerFacts DEF Bundling!XAck
<1>4. \/ bundler' = Bundling!Reading
      \/ /\ bundler'.pc \in {"acking", "announcing"}
         /\ bundler'.batch = bundler.batch
         /\ bundler'.unstored = bundler.unstored
  <2>1. CASE Bundling!AnnounceBundle
    <3>1. PICK i \in bundler.todo : bundler' = [bundler EXCEPT !.pc = "acking", !.acking = i]
      BY <2>1 DEF Bundling!AnnounceBundle
    <3> QED BY <3>1, BundlerFacts DEF BundlerLocals
  <2>2. CASE Bundling!AckResult
    <3> DEFINE left == bundler.todo \ {bundler.acking}
    <3>1. \/ bundler' = Bundling!Reading
          \/ bundler' = [bundler EXCEPT !.pc = "announcing", !.todo = left, !.acking = 0]
      BY <2>2 DEF Bundling!AckResult
    <3> HIDE DEF left
    <3> QED BY <3>1, BundlerFacts DEF BundlerLocals
  <2> QED BY <2>1, <2>2
<1>5. CASE /\ bundler'.pc \in {"acking", "announcing"}
           /\ bundler'.batch = bundler.batch
           /\ bundler'.unstored = bundler.unstored
  <2>1. bundle_group'.last \in Nat /\ bundle_group.last <= bundle_group'.last
    BY <1>3, BundleFacts
  <2>2. /\ \A i \in bundler.batch : i <= bundle_group.last
        /\ bundler.unstored \subseteq bundler.batch
    BY DEF BundlerOrder
  <2> QED BY <1>1, <1>3, <1>5, <2>1, <2>2, SameBundlesOrder
<1> QED BY <1>1, <1>3, <1>4, <1>5, BundlerAbandonOrder

\* The steps that leave the bundle consumer alone only add results.
LEMMA OthersBundlerOrder ==
    ASSUME TypeOK, BundlerOrder, UNCHANGED bundlerVars,
           \A k \in ResultId : scoring_results'[k] = scoring_results[k]
    PROVE  BundlerOrder'
<1>1. UNCHANGED <<bundle_group, bundler, bundles>>
  BY DEF bundlerVars
<1>2. bundle_group'.last \in Nat /\ bundle_group.last <= bundle_group'.last
  BY <1>1, BundleFacts
<1> QED BY <1>1, <1>2, SameBundlesOrder DEF BundlerOrder

LEMMA NextBundlerOrder == TypeOK /\ BundlerOrder /\ [Next]_vars => BundlerOrder'
<1> SUFFICES ASSUME TypeOK, BundlerOrder, [Next]_vars PROVE BundlerOrder'
  OBVIOUS
<1>1. CASE PublishEvent \/ StoreSignals \/ UNCHANGED vars
  BY <1>1, OthersBundlerOrder DEF PublishEvent, StoreSignals, vars
<1>2. CASE Scoring!ScorerNext /\ UNCHANGED bundlerVars
  BY <1>2, ScorerStepFacts, OthersBundlerOrder
<1>3. CASE Bundling!BundlerNext
  <2>1. CASE Bundling!RestartBundler
    BY <2>1, BundlerAbandonOrder DEF Bundling!RestartBundler
  <2> QED BY <1>3, <2>1, ReadResultsOrder, AssembleBundlesOrder, StoreBundleOrder,
             OutputsOrder
          DEF Bundling!BundlerNext, Bundling!BundlerStep
<1> QED BY <1>1, <1>2, <1>3 DEF Next

LEMMA InitBundlerOrder == Init => BundlerOrder
<1> SUFFICES ASSUME Init PROVE BundlerOrder
  OBVIOUS
<1>1. bundler = Bundling!Reading /\ bundles = <<>>
  BY DEF Init, Bundling!BundlerInit
<1> QED BY <1>1 DEF BundlerOrder, BundlesInOrder, Bundling!Reading

\* Whatever fails and whenever the services restart, the results of a transaction are
\* published in the order of its events, its bundles stored in the order of its
\* results, and none of them twice.
THEOREM PipelineOrderKept == Spec => []OrderKept
<1>1. Init => TypeOK /\ ScorerOrder /\ BundlerOrder
  BY InitTypes, InitScorerOrder, InitBundlerOrder
<1>2. /\ TypeOK /\ ScorerOrder /\ BundlerOrder
      /\ [Next]_vars
      => (TypeOK /\ ScorerOrder /\ BundlerOrder)'
  BY NextTypes, NextScorerOrder, NextBundlerOrder
<1>3. ScorerOrder /\ BundlerOrder => OrderKept
  BY DEF ScorerOrder, BundlerOrder, OrderKept
<1> QED BY <1>1, <1>2, <1>3, PTL DEF Spec
=============================================================================
