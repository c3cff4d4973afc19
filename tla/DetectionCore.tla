---------------------------- MODULE DetectionCore ----------------------------
(***************************************************************************)
(* DetectionOrchestrator, DetectorRunner, SignalCollector, SignalService   *)
(* and EventPublisher of detection_core.  process_transaction runs all     *)
(* detectors for a transaction, gathers their signals in the collector     *)
(* that all calls share, saves the group and publishes events about it.    *)
(*                                                                         *)
(* The calls are coroutines of one event loop: a step ends where one of    *)
(* them awaits the semaphore, Redis, a detector or a retry delay.          *)
(* save_signals awaits nothing, so collecting, grouping and saving are one *)
(* step.                                                                   *)
(***************************************************************************)
EXTENDS Naturals, FiniteSets, Sequences

CONSTANTS
    Call,           \* calls of process_transaction
    Transaction,    \* transaction ids
    NoTransaction,  \* stands for none
    Detector,       \* ids in the registry
    Runnable,       \* those get_detector makes an instance of
    MaxRetries,     \* settings.MAX_RETRIES
    MaxConcurrent   \* settings.MAX_CONCURRENT_TRANSACTIONS

ASSUME DetectionCoreAssumption ==
    /\ NoTransaction \notin Transaction
    /\ Runnable \subseteq Detector
    /\ IsFiniteSet(Call)
    /\ MaxRetries \in Nat
    /\ MaxConcurrent \in Nat \ {0}

VARIABLES
    calls,      \* per call: where it is and its transaction
    runs,       \* per call and detector: DetectorExecution
    waiting,    \* the waiters of _semaphore, first come first served
    permits,    \* the value of _semaphore
    collector,  \* SignalCollector.signals: transaction -> signals
    saved,      \* SignalService: the groups in the order they were saved
    announced,  \* the signals_generated events in the stream EVENT_STREAM
    crossed     \* history: calls that met another one in the collector

vars == <<calls, runs, waiting, permits, collector, saved, announced, crossed>>

Pc == {"new", "waiting", "starting", "running", "announcing", "completing", "done"}

\* Calls inside `async with self._semaphore`.
InFlight == {"starting", "running", "announcing", "completing"}

\* Calls whose signals are grouped and that have not reached `finally`.
Publishing == {"announcing", "completing"}

\* A detector yields one signal for a call; signal ids are fresh.
Signal == [call : Call, detector : Detector]

NewRun == [status |-> "pending", retry |-> 0]

Init ==
    /\ calls = [c \in Call |-> [pc |-> "new", tx |-> NoTransaction]]
    /\ runs = [c \in Call |-> [d \in Detector |-> NewRun]]
    /\ waiting = <<>>
    /\ permits = MaxConcurrent
    /\ collector = [t \in Transaction |-> {}]
    /\ saved = <<>>
    /\ announced = {}
    /\ crossed = {}

Goto(c, pc) == calls' = [calls EXCEPT ![c].pc = pc]

\* publish_signals_generated; EventPublisher.publish swallows an exception of xadd.
\* What the started and completed events say is not modelled.
Publish(event) == announced' = announced \cup {event} \/ UNCHANGED announced

\* process_transaction up to the semaphore.
Submit(c, t) ==
    /\ calls[c].pc = "new"
    /\ calls' = [calls EXCEPT ![c] = [pc |-> "waiting", tx |-> t]]
    /\ waiting' = Append(waiting, c)
    /\ UNCHANGED <<runs, permits, collector, saved, announced, crossed>>

\* The first waiter takes a permit.
Acquire(c) ==
    /\ permits > 0
    /\ waiting # <<>> /\ c = Head(waiting)
    /\ waiting' = Tail(waiting)
    /\ permits' = permits - 1
    /\ Goto(c, "starting")
    /\ UNCHANGED <<runs, collector, saved, announced, crossed>>

\* publish_detection_started returns and the detectors start in parallel; one
\* without an instance has failed at once.
StartDetectors(c) ==
    /\ calls[c].pc = "starting"
    /\ runs' = [runs EXCEPT ![c] =
          [d \in Detector |->
              [NewRun EXCEPT !.status = IF d \in Runnable THEN "running" ELSE "failed"]]]
    /\ Goto(c, "running")
    /\ UNCHANGED <<waiting, permits, collector, saved, announced, crossed>>

\* detect() returns and its result makes a signal.
DetectorCompletes(c, d) ==
    /\ runs[c][d].status = "running"
    /\ runs' = [runs EXCEPT ![c][d].status = "completed"]
    /\ UNCHANGED <<calls, waiting, permits, collector, saved, announced, crossed>>

\* Mutant: the retries are not counted.
AfterFailureForever(run) == [run EXCEPT !.status = "sleeping"]

\* The end of the loop body of run_single_detector: `retry_count <= max_retries`.
AfterFailure(run) ==
    [retry |-> run.retry + 1,
     status |-> IF run.retry + 1 <= MaxRetries THEN "sleeping" ELSE "failed"]

\* detect() raises or wait_for times out, or the result makes no valid signal.
DetectorFails(c, d) ==
    /\ runs[c][d].status = "running"
    /\ runs' = [runs EXCEPT ![c][d] = AfterFailure(runs[c][d])]
    /\ UNCHANGED <<calls, waiting, permits, collector, saved, announced, crossed>>

\* sleep(RETRY_DELAY_SECONDS) is over.
DetectorRetries(c, d) ==
    /\ runs[c][d].status = "sleeping"
    /\ runs' = [runs EXCEPT ![c][d].status = "running"]
    /\ UNCHANGED <<calls, waiting, permits, collector, saved, announced, crossed>>

\* The signals run_all_detectors returns to call c.
Own(c) == {[call |-> c, detector |-> d] : d \in {e \in Detector : runs[c][e].status = "completed"}}

\* The calls whose signals are in the collector for transaction t now.
OthersOf(t) == {c \in Call : calls[c].pc \in Publishing /\ calls[c].tx = t}

\* Mutant: the group is made before the call's own signals are added.
GroupBefore(c) == collector[calls[c].tx]

\* get_signal_group after add_signal for each of the call's signals.
Group(c) == collector[calls[c].tx] \cup Own(c)

\* gather returns: add the signals, group them, save the group.  The signals of
\* other calls for the same transaction are grouped too.
Collect(c) ==
    LET t == calls[c].tx
    IN  /\ calls[c].pc = "running"
        /\ \A d \in Detector : runs[c][d].status \in {"completed", "failed"}
        /\ collector' = [collector EXCEPT ![t] = @ \cup Own(c)]
        /\ IF Group(c) = {}
           THEN Goto(c, "completing") /\ UNCHANGED saved
           ELSE /\ Goto(c, "announcing")
                /\ saved' = Append(saved, [call |-> c, signals |-> Group(c)])
        /\ crossed' = crossed \cup (IF OthersOf(t) = {} THEN {} ELSE OthersOf(t) \cup {c})
        /\ UNCHANGED <<runs, waiting, permits, announced>>

\* The group call c saved.
SavedBy(c) == {i \in DOMAIN saved : saved[i].call = c}

\* publish_signals_generated with the group this call saved.
AnnounceSignals(c) ==
    /\ calls[c].pc = "announcing"
    /\ \E i \in SavedBy(c) :
          Publish([call |-> c, signals |-> saved[i].signals])
    /\ Goto(c, "completing")
    /\ UNCHANGED <<runs, waiting, permits, collector, saved, crossed>>

\* Mutant: a call with signals leaves them in the collector.
ClearedWithoutSignals(c) ==
    IF Own(c) = {} THEN [collector EXCEPT ![calls[c].tx] = {}] ELSE collector

\* __aexit__ of the semaphore.
Released(c) == permits + 1

\* collector.clear(transaction_id) removes the signals of all calls for it.
Cleared(c) == [collector EXCEPT ![calls[c].tx] = {}]

\* publish_detection_completed, release of the semaphore, `finally`.
Finish(c) ==
    /\ calls[c].pc = "completing"
    /\ permits' = Released(c)
    /\ collector' = Cleared(c)
    /\ Goto(c, "done")
    /\ UNCHANGED <<runs, waiting, saved, announced, crossed>>

DetectorStep(c, d) == DetectorCompletes(c, d) \/ DetectorFails(c, d) \/ DetectorRetries(c, d)

CallStep(c) ==
    \/ Acquire(c) \/ StartDetectors(c) \/ Collect(c) \/ AnnounceSignals(c) \/ Finish(c)
    \/ \E d \in Detector : DetectorStep(c, d)

\* All calls are made and over.
Idle == (\A c \in Call : calls[c].pc = "done") /\ UNCHANGED vars

Next ==
    \/ \E c \in Call, t \in Transaction : Submit(c, t)
    \/ \E c \in Call : CallStep(c)
    \/ Idle

Spec == Init /\ [][Next]_vars

\* The event loop runs what is ready, wait_for ends every attempt of a detector
\* and Redis answers or raises.
FairSpec ==
    /\ Spec
    /\ \A c \in Call : WF_vars(Acquire(c) \/ StartDetectors(c) \/ Collect(c)
                               \/ AnnounceSignals(c) \/ Finish(c))
    /\ \A c \in Call, d \in Detector : WF_vars(DetectorStep(c, d))

-----------------------------------------------------------------------------
\* Every variable stays in its range.
TypeOK ==
    /\ calls \in [Call -> [pc : Pc, tx : Transaction \cup {NoTransaction}]]
    /\ \A c \in Call : calls[c].pc # "new" => calls[c].tx \in Transaction
    /\ runs \in [Call -> [Detector -> [status : {"pending", "running", "sleeping",
                                                 "completed", "failed"},
                                       retry : 0 .. MaxRetries + 1]]]
    /\ waiting \in Seq(Call)
    /\ permits \in 0 .. MaxConcurrent
    /\ collector \in [Transaction -> SUBSET Signal]
    /\ saved \in Seq([call : Call, signals : SUBSET Signal])
    /\ announced \subseteq [call : Call, signals : SUBSET Signal]
    /\ crossed \subseteq Call

\* The collector holds signals of calls that are still publishing and of no
\* others: whatever ends a call leaves nothing behind for the next one.
CollectedIsInFlight ==
    \A t \in Transaction : \A s \in collector[t] :
        calls[s.call].pc \in Publishing /\ calls[s.call].tx = t

\* A call that met no other one for its transaction has each of its signals saved
\* exactly once, in a group with no signal of anyone else.
SavedOnce ==
    \A c \in Call \ crossed :
        calls[c].pc \in Publishing \cup {"done"} =>
            /\ Own(c) # {} => Cardinality(SavedBy(c)) = 1
            /\ \A i \in DOMAIN saved :
                  /\ saved[i].call = c => saved[i].signals = Own(c)
                  /\ saved[i].signals \cap Own(c) # {} => saved[i].call = c

\* Also a call that met others saves all its signals, and what it saves beside
\* them belongs to calls of the same transaction.
NothingUnsaved ==
    \A c \in Call :
        calls[c].pc \in Publishing \cup {"done"} /\ Own(c) # {} =>
            \E i \in SavedBy(c) :
                /\ Own(c) \subseteq saved[i].signals
                /\ \A s \in saved[i].signals : calls[s.call].tx = calls[c].tx

\* The signals_generated event of a call carries the group that call saved, also
\* when another call for the transaction has changed the collector meanwhile.
AnnouncedIsSaved ==
    \A e \in announced : \E i \in SavedBy(e.call) : saved[i].signals = e.signals

\* What becomes of a call's signals: saved, and announced as they were saved.
SignalsAreSaved == SavedOnce /\ NothingUnsaved /\ AnnouncedIsSaved

\* A semaphore slot belongs to exactly the calls inside, on every path out.
SlotsHeld ==
    permits + Cardinality({c \in Call : calls[c].pc \in InFlight}) = MaxConcurrent

\* A detector that fails for good was tried MaxRetries + 1 times.
RetriesSpent ==
    \A c \in Call, d \in Runnable :
        runs[c][d].status = "failed" => runs[c][d].retry = MaxRetries + 1

\* Whatever its detectors do, a call that waits for the semaphore ends.
EveryCallEnds == \A c \in Call : (calls[c].pc = "waiting") ~> (calls[c].pc = "done")
=============================================================================
