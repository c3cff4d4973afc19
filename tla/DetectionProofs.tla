---------------------------- MODULE DetectionProofs ----------------------------
(***************************************************************************)
(* Theorems about the two detection services.  DetectionCore, for any      *)
(* number of calls, transactions and detectors, any retry limit and any    *)
(* size of the semaphore: its types, what the shared collector holds, that *)
(* the signals of a call are saved and announced, the semaphore's count    *)
(* and the number of retries.  ContractSplitting, for any purchase orders, *)
(* thresholds, window and minimum: its types, that the groups divide the   *)
(* orders by time, and that splits and nothing else are grouped.           *)
(***************************************************************************)
EXTENDS DetectionCore, ContractSplitting, FiniteSetTheorems, WellFoundedInduction, TLAPS

\* Calls whose detectors have ended for good.
Past == Publishing \cup {"done"}

CallRec == [pc : Pc, tx : Transaction \cup {NoTransaction}]

Status == {"pending", "running", "sleeping", "completed", "failed"}

RunRec == [status : Status, retry : 0 .. MaxRetries + 1]

GroupRec == [call : Call, signals : SUBSET Signal]

\* A call has reached Collect.
IsPast(c) == calls[c].pc \in Past

\* The queue of the semaphore names calls that wait, none of them twice.
Waiters ==
    /\ \A i \in DOMAIN waiting : calls[waiting[i]].pc = "waiting"
    /\ \A i, j \in DOMAIN waiting : waiting[i] = waiting[j] => i = j

\* Collect waits for every detector.
RunsEnded ==
    \A c \in Call : IsPast(c) =>
        \A d \in Detector : runs[c][d].status \in {"completed", "failed"}

\* An attempt is made only while the retry limit allows it.
RetryBound ==
    \A c \in Call, d \in Detector :
        runs[c][d].status \in {"running", "sleeping"} => runs[c][d].retry <= MaxRetries

\* The collector holds signals their own call has produced.
Collected ==
    \A t \in Transaction : \A s \in collector[t] :
        /\ s \in Own(s.call)
        /\ calls[s.call].pc \in Publishing
        /\ calls[s.call].tx = t

\* What the groups saved so far are made of.
SavedGroups ==
    /\ \A i \in DOMAIN saved : IsPast(saved[i].call)
    /\ \A i, j \in DOMAIN saved : saved[i].call = saved[j].call => i = j
    /\ \A i \in DOMAIN saved : \A s \in saved[i].signals :
          /\ s \in Own(s.call)
          /\ IsPast(s.call)
          /\ calls[s.call].tx = calls[saved[i].call].tx

\* Every call past Collect has its own signals saved under its name.
OwnSaved ==
    \A c \in Call : IsPast(c) /\ Own(c) # {} =>
        \E i \in DOMAIN saved : saved[i].call = c /\ Own(c) \subseteq saved[i].signals

\* A call that met no other one: nobody else's signals in its group and none of
\* its signals in another group.
AloneSaved ==
    \A c \in Call \ crossed : IsPast(c) =>
        \A i \in DOMAIN saved :
            /\ saved[i].call = c => saved[i].signals = Own(c)
            /\ saved[i].signals \cap Own(c) # {} => saved[i].call = c

\* The inductive invariant.
IInv ==
    /\ TypeOK
    /\ Waiters
    /\ SlotsHeld
    /\ RunsEnded
    /\ RetryBound
    /\ RetriesSpent
    /\ Collected
    /\ SavedGroups
    /\ OwnSaved
    /\ AloneSaved
    /\ AnnouncedIsSaved

-----------------------------------------------------------------------------
\* Facts about the parts of a state.

\* Where each call is, as one function.
LEMMA CallFacts ==
    ASSUME TypeOK, NEW c \in Call
    PROVE  /\ calls[c] \in CallRec
           /\ calls[c].pc \in Pc /\ calls[c].tx \in Transaction \cup {NoTransaction}
           /\ calls[c].pc # "new" => calls[c].tx \in Transaction
           /\ \A pc : calls[c].pc # "new" /\ pc # "new" /\ pc \in Pc
                 => [calls[c] EXCEPT !.pc = pc] \in CallRec
BY DEF TypeOK, CallRec

\* A detector's run is a record.
LEMMA RunFacts ==
    ASSUME TypeOK, NEW c \in Call, NEW d \in Detector
    PROVE  /\ runs[c][d] \in RunRec
           /\ runs[c][d].status \in Status
           /\ runs[c][d].retry \in 0 .. MaxRetries + 1
<1>1. runs[c][d] \in RunRec
  BY DEF TypeOK, RunRec, Status
<1> QED BY <1>1 DEF RunRec

\* The effect of Goto.
LEMMA GotoFacts ==
    ASSUME TypeOK, NEW c \in Call, NEW pc \in Pc, pc # "new", calls[c].pc # "new",
           Goto(c, pc)
    PROVE  /\ calls' \in [Call -> CallRec]
           /\ \A b \in Call : calls'[b].pc # "new" => calls'[b].tx \in Transaction
           /\ calls'[c].pc = pc
           /\ \A b \in Call : b # c => calls'[b] = calls[b]
           /\ \A b \in Call : calls'[b].tx = calls[b].tx
<1>1. calls \in [Call -> CallRec]
  BY DEF TypeOK, CallRec
<1>2. calls[c] \in CallRec /\ [calls[c] EXCEPT !.pc = pc] \in CallRec
  BY CallFacts
<1>3. calls' = [calls EXCEPT ![c] = [calls[c] EXCEPT !.pc = pc]]
  BY <1>1 DEF Goto
<1>4. calls'[c] = [calls[c] EXCEPT !.pc = pc] /\ \A b \in Call : b # c => calls'[b] = calls[b]
  BY <1>1, <1>3
<1>5. calls'[c].pc = pc /\ calls'[c].tx = calls[c].tx
  BY <1>2, <1>4 DEF CallRec
<1>6. \A b \in Call : calls[b].pc # "new" => calls[b].tx \in Transaction
  BY DEF TypeOK
<1> QED BY <1>1, <1>2, <1>3, <1>4, <1>5, <1>6

\* What a call's detectors have produced are signals of that call.
LEMMA OwnFacts ==
    ASSUME NEW c \in Call
    PROVE  /\ Own(c) \in SUBSET Signal
           /\ \A s \in Own(c) : s.call = c
           /\ \A s \in Signal : s \in Own(c) <=> s.call = c /\ runs[c][s.detector].status = "completed"
BY DEF Own, Signal

\* The groups saved are records.
LEMMA SavedFacts ==
    ASSUME TypeOK
    PROVE  /\ saved \in Seq(GroupRec)
           /\ \A i \in DOMAIN saved : saved[i] \in GroupRec
           /\ \A i \in DOMAIN saved : saved[i].call \in Call /\ saved[i].signals \in SUBSET Signal
<1>1. saved \in Seq(GroupRec)
  BY DEF TypeOK, GroupRec
<1>2. \A i \in DOMAIN saved : saved[i] \in GroupRec
  BY <1>1
<1>3. \A g \in GroupRec : g.call \in Call /\ g.signals \in SUBSET Signal
  BY DEF GroupRec
<1> QED BY <1>1, <1>2, <1>3

\* Appending a group.
LEMMA AppendGroup ==
    ASSUME NEW S, NEW q \in Seq(S), NEW x \in S
    PROVE  /\ Append(q, x) \in Seq(S)
           /\ DOMAIN Append(q, x) = DOMAIN q \cup {Len(q) + 1}
           /\ Len(q) + 1 \notin DOMAIN q
           /\ \A i \in DOMAIN q : Append(q, x)[i] = q[i] /\ q[i] \in S
           /\ Append(q, x)[Len(q) + 1] = x
<1>1. /\ Append(q, x) \in Seq(S)
      /\ Len(q) \in Nat
      /\ Len(Append(q, x)) = Len(q) + 1
      /\ DOMAIN q = 1 .. Len(q)
      /\ DOMAIN Append(q, x) = 1 .. (Len(q) + 1)
      /\ \A i \in 1 .. Len(q) : Append(q, x)[i] = q[i] /\ q[i] \in S
      /\ Append(q, x)[Len(q) + 1] = x
  OBVIOUS
<1> QED BY <1>1

-----------------------------------------------------------------------------
\* Type correctness.

LEMMA InitTypes == Init => TypeOK
BY DetectionCoreAssumption DEF Init, TypeOK, Pc, NewRun, Signal

\* What a step that only moves call c leaves of the types.
LEMMA MoveTypes ==
    ASSUME TypeOK, NEW c \in Call, NEW pc \in Pc, pc # "new", calls[c].pc # "new",
           Goto(c, pc),
           runs' \in [Call -> [Detector -> RunRec]],
           waiting' \in Seq(Call),
           permits' \in 0 .. MaxConcurrent,
           collector' \in [Transaction -> SUBSET Signal],
           saved' \in Seq(GroupRec),
           announced' \subseteq GroupRec,
           crossed' \subseteq Call
    PROVE  TypeOK'
<1>1. /\ calls' \in [Call -> CallRec]
      /\ \A b \in Call : calls'[b].pc # "new" => calls'[b].tx \in Transaction
  BY GotoFacts
<1> QED BY <1>1 DEF TypeOK, CallRec, RunRec, Status, GroupRec

LEMMA SubmitTypes ==
    ASSUME TypeOK, NEW c \in Call, NEW t \in Transaction, Submit(c, t)
    PROVE  TypeOK'
<1>1. calls' \in [Call -> [pc : Pc, tx : Transaction \cup {NoTransaction}]]
  BY DEF TypeOK, Submit, Pc
<1>2. \A b \in Call : calls'[b].pc # "new" => calls'[b].tx \in Transaction
  BY DEF TypeOK, Submit
<1>3. waiting' \in Seq(Call)
  BY DEF TypeOK, Submit
<1>4. UNCHANGED <<runs, permits, collector, saved, announced, crossed>>
  BY DEF Submit
<1> QED BY <1>1, <1>2, <1>3, <1>4 DEF TypeOK

LEMMA AcquireTypes ==
    ASSUME TypeOK, Waiters, NEW c \in Call, Acquire(c)
    PROVE  TypeOK'
<1>1. calls[c].pc = "waiting"
  BY DEF TypeOK, Waiters, Acquire
<1>2. Goto(c, "starting") /\ waiting' \in Seq(Call)
      /\ UNCHANGED <<runs, collector, saved, announced, crossed>>
  BY DEF TypeOK, Acquire
<1>3. permits' \in 0 .. MaxConcurrent
  BY DetectionCoreAssumption DEF TypeOK, Acquire
<1>4. "starting" \in Pc
  BY DEF Pc
<1> QED BY <1>1, <1>2, <1>3, <1>4, MoveTypes DEF TypeOK, RunRec, Status, GroupRec

LEMMA StartTypes ==
    ASSUME TypeOK, NEW c \in Call, StartDetectors(c)
    PROVE  TypeOK'
<1>1. calls[c].pc # "new" /\ Goto(c, "running")
      /\ UNCHANGED <<waiting, permits, collector, saved, announced, crossed>>
  BY DEF StartDetectors
<1>2. runs' \in [Call -> [Detector -> RunRec]]
  <2> DEFINE started == [d \in Detector |->
                [NewRun EXCEPT !.status = IF d \in Runnable THEN "running" ELSE "failed"]]
  <2>1. started \in [Detector -> RunRec]
    <3>1. \A st \in Status : [NewRun EXCEPT !.status = st] \in RunRec
      BY DetectionCoreAssumption DEF NewRun, RunRec
    <3> QED BY <3>1 DEF Status
  <2>2. runs' = [runs EXCEPT ![c] = started]
    BY DEF StartDetectors
  <2>3. runs \in [Call -> [Detector -> RunRec]]
    BY DEF TypeOK, RunRec, Status
  <2> HIDE DEF started
  <2> QED BY <2>1, <2>2, <2>3
<1>3. "running" \in Pc
  BY DEF Pc
<1> QED BY <1>1, <1>2, <1>3, MoveTypes DEF TypeOK, GroupRec

\* A step of one detector of one call.
LEMMA DetectorStepRun ==
    ASSUME TypeOK, RetryBound, NEW c \in Call, NEW d \in Detector, DetectorStep(c, d)
    PROVE  \E run \in RunRec :
              /\ runs' = [runs EXCEPT ![c] = [runs[c] EXCEPT ![d] = run]]
              /\ runs[c][d].status \in {"running", "sleeping"}
              /\ run.status \in {"running", "sleeping"} => run.retry <= MaxRetries
              /\ run.status = "failed" => run.retry = MaxRetries + 1
              /\ UNCHANGED <<calls, waiting, permits, collector, saved, announced, crossed>>
<1>1. runs[c][d] \in RunRec /\ runs[c][d].retry \in 0 .. MaxRetries + 1
  BY RunFacts
<1>2. runs \in [Call -> [Detector -> RunRec]]
  BY DEF TypeOK, RunRec, Status
<1>3. MaxRetries \in Nat
  BY DetectionCoreAssumption
<1>4. CASE DetectorCompletes(c, d)
  <2> DEFINE run == [runs[c][d] EXCEPT !.status = "completed"]
  <2>1. run \in RunRec /\ run.status = "completed"
    BY <1>1 DEF RunRec, Status
  <2>2. runs' = [runs EXCEPT ![c] = [runs[c] EXCEPT ![d] = run]]
    BY <1>2, <1>4 DEF DetectorCompletes
  <2>3. runs[c][d].status = "running"
        /\ UNCHANGED <<calls, waiting, permits, collector, saved, announced, crossed>>
    BY <1>4 DEF DetectorCompletes
  <2> HIDE DEF run
  <2> QED BY <2>1, <2>2, <2>3
<1>5. CASE DetectorFails(c, d)
  <2> DEFINE run == AfterFailure(runs[c][d])
  <2>1. runs[c][d].status = "running" /\ runs[c][d].retry <= MaxRetries
        /\ UNCHANGED <<calls, waiting, permits, collector, saved, announced, crossed>>
    BY <1>5 DEF DetectorFails, RetryBound
  <2>2. run \in RunRec /\ (run.status \in {"running", "sleeping"} => run.retry <= MaxRetries)
        /\ (run.status = "failed" => run.retry = MaxRetries + 1)
    BY <1>1, <1>3, <2>1 DEF AfterFailure, RunRec, Status
  <2>3. runs' = [runs EXCEPT ![c] = [runs[c] EXCEPT ![d] = run]]
    BY <1>2, <1>5 DEF DetectorFails
  <2> HIDE DEF run
  <2> QED BY <2>1, <2>2, <2>3
<1>6. CASE DetectorRetries(c, d)
  <2> DEFINE run == [runs[c][d] EXCEPT !.status = "running"]
  <2>1. runs[c][d].status = "sleeping" /\ runs[c][d].retry <= MaxRetries
        /\ UNCHANGED <<calls, waiting, permits, collector, saved, announced, crossed>>
    BY <1>6 DEF DetectorRetries, RetryBound
  <2>2. run \in RunRec /\ run.status = "running" /\ run.retry = runs[c][d].retry
    BY <1>1 DEF RunRec, Status
  <2>3. runs' = [runs EXCEPT ![c] = [runs[c] EXCEPT ![d] = run]]
    BY <1>2, <1>6 DEF DetectorRetries
  <2> HIDE DEF run
  <2> QED BY <2>1, <2>2, <2>3
<1> QED BY <1>4, <1>5, <1>6 DEF DetectorStep

LEMMA DetectorTypes ==
    ASSUME TypeOK, RetryBound, NEW c \in Call, NEW d \in Detector, DetectorStep(c, d)
    PROVE  TypeOK'
<1>1. PICK run \in RunRec :
         /\ runs' = [runs EXCEPT ![c] = [runs[c] EXCEPT ![d] = run]]
         /\ UNCHANGED <<calls, waiting, permits, collector, saved, announced, crossed>>
  BY DetectorStepRun
<1>2. runs \in [Call -> [Detector -> RunRec]]
  BY DEF TypeOK, RunRec, Status
<1>3. runs' \in [Call -> [Detector -> RunRec]]
  BY <1>1, <1>2
<1> QED BY <1>1, <1>3 DEF TypeOK, RunRec, Status

\* What Collect does to the shared state.
LEMMA CollectFacts ==
    ASSUME TypeOK, NEW c \in Call, Collect(c)
    PROVE  /\ calls[c].pc = "running"
           /\ calls[c].tx \in Transaction
           /\ Group(c) \in SUBSET Signal
           /\ collector' = [collector EXCEPT ![calls[c].tx] = collector[calls[c].tx] \cup Own(c)]
           /\ \E pc \in Publishing : Goto(c, pc)
           /\ Group(c) = {} => saved' = saved
           /\ Group(c) # {} => saved' = Append(saved, [call |-> c, signals |-> Group(c)])
           /\ OthersOf(calls[c].tx) = {} => crossed' = crossed
           /\ OthersOf(calls[c].tx) # {} => crossed' = crossed \cup OthersOf(calls[c].tx) \cup {c}
           /\ UNCHANGED <<runs, waiting, permits, announced>>
<1>1. calls[c].pc = "running" /\ calls[c].tx \in Transaction
  BY DEF Collect, TypeOK
<1>2. Group(c) \in SUBSET Signal
  BY <1>1, OwnFacts DEF Group, TypeOK
<1> QED BY <1>1, <1>2 DEF Collect, Publishing

LEMMA CollectTypes ==
    ASSUME TypeOK, NEW c \in Call, Collect(c)
    PROVE  TypeOK'
<1>1. calls[c].pc = "running" /\ calls[c].tx \in Transaction /\ Group(c) \in SUBSET Signal
      /\ UNCHANGED <<runs, waiting, permits, announced>>
  BY CollectFacts
<1>2. collector' \in [Transaction -> SUBSET Signal]
  <2>1. collector \in [Transaction -> SUBSET Signal]
    BY DEF TypeOK
  <2>2. collector[calls[c].tx] \cup Own(c) \in SUBSET Signal
    BY <1>1, <2>1, OwnFacts
  <2>3. collector' = [collector EXCEPT ![calls[c].tx] = collector[calls[c].tx] \cup Own(c)]
    BY CollectFacts
  <2> QED BY <2>1, <2>2, <2>3
<1>3. saved' \in Seq(GroupRec)
  <2>1. saved \in Seq(GroupRec)
    BY DEF TypeOK, GroupRec
  <2>2. [call |-> c, signals |-> Group(c)] \in GroupRec
    BY <1>1 DEF GroupRec
  <2> QED BY <2>1, <2>2, AppendGroup, CollectFacts
<1>4. crossed' \subseteq Call
  BY CollectFacts DEF TypeOK, OthersOf
<1>5. PICK pc \in Publishing : Goto(c, pc)
  BY CollectFacts
<1>6. pc \in Pc /\ pc # "new" /\ calls[c].pc # "new"
  BY <1>1 DEF Publishing, Pc
<1> QED BY <1>1, <1>2, <1>3, <1>4, <1>5, <1>6, MoveTypes DEF TypeOK, RunRec, Status, GroupRec

\* What AnnounceSignals may add.
LEMMA AnnounceFacts ==
    ASSUME TypeOK, NEW c \in Call, AnnounceSignals(c)
    PROVE  /\ calls[c].pc = "announcing" /\ Goto(c, "completing")
           /\ UNCHANGED <<runs, waiting, permits, collector, saved, crossed>>
           /\ \/ UNCHANGED announced
              \/ \E i \in DOMAIN saved :
                    /\ saved[i].call = c
                    /\ saved[i] \in GroupRec
                    /\ announced' = announced \cup {[call |-> c, signals |-> saved[i].signals]}
<1>1. \A i \in DOMAIN saved : saved[i] \in GroupRec
  BY SavedFacts
<1> QED BY <1>1 DEF AnnounceSignals, SavedBy, Publish

LEMMA AnnounceTypes ==
    ASSUME TypeOK, NEW c \in Call, AnnounceSignals(c)
    PROVE  TypeOK'
<1>1. announced' \subseteq GroupRec
  <2>1. announced \subseteq GroupRec
    BY DEF TypeOK, GroupRec
  <2>2. \A i \in DOMAIN saved : saved[i] \in GroupRec =>
            [call |-> c, signals |-> saved[i].signals] \in GroupRec
    BY DEF GroupRec
  <2> QED BY <2>1, <2>2, AnnounceFacts
<1>2. "completing" \in Pc /\ calls[c].pc # "new"
  BY AnnounceFacts DEF Pc
<1>3. Goto(c, "completing") /\ UNCHANGED <<runs, waiting, permits, collector, saved, crossed>>
  BY AnnounceFacts
<1> QED BY <1>1, <1>2, <1>3, MoveTypes DEF TypeOK, RunRec, Status, GroupRec

\* While a call is inside the semaphore a permit is missing.
LEMMA FinishTypes ==
    ASSUME TypeOK, SlotsHeld, NEW c \in Call, Finish(c)
    PROVE  TypeOK'
<1>1. calls[c].pc = "completing" /\ permits' = permits + 1
      /\ collector' = [collector EXCEPT ![calls[c].tx] = {}]
      /\ Goto(c, "done") /\ UNCHANGED <<runs, waiting, saved, announced, crossed>>
  BY DEF Finish, Released, Cleared
<1>2. permits' \in 0 .. MaxConcurrent
  <2> DEFINE inside == {b \in Call : calls[b].pc \in InFlight}
  <2>1. c \in inside
    BY <1>1 DEF InFlight
  <2>2. IsFiniteSet(inside)
    BY DetectionCoreAssumption, FS_Subset
  <2>3. permits + Cardinality(inside) = MaxConcurrent
    BY DEF SlotsHeld
  <2> HIDE DEF inside
  <2>4. Cardinality(inside) \in Nat /\ inside # {}
    BY <2>1, <2>2, FS_CardinalityType
  <2>5. Cardinality(inside) # 0
    BY <2>2, <2>4, FS_EmptySet
  <2> QED BY <1>1, <2>3, <2>4, <2>5, DetectionCoreAssumption DEF TypeOK
<1>3. collector' \in [Transaction -> SUBSET Signal]
  BY <1>1 DEF TypeOK
<1>4. "done" \in Pc /\ calls[c].pc # "new"
  BY <1>1 DEF Pc
<1> QED BY <1>1, <1>2, <1>3, <1>4, MoveTypes DEF TypeOK, RunRec, Status, GroupRec

LEMMA StutterTypes == ASSUME TypeOK, UNCHANGED vars PROVE TypeOK'
BY DEF TypeOK, vars

-----------------------------------------------------------------------------
\* The semaphore: its queue and its count.

\* A step that moves a call outside the queue leaves the queue in order.
LEMMA MoveWaiters ==
    ASSUME TypeOK, Waiters, NEW c \in Call, NEW pc \in Pc, pc # "new",
           calls[c].pc # "new", calls[c].pc # "waiting",
           Goto(c, pc), UNCHANGED waiting
    PROVE  Waiters'
<1>1. \A b \in Call : b # c => calls'[b] = calls[b]
  BY GotoFacts
<1>2. \A i \in DOMAIN waiting : waiting[i] \in Call /\ waiting[i] # c
  BY DEF TypeOK, Waiters
<1> QED BY <1>1, <1>2 DEF Waiters

LEMMA SubmitWaiters ==
    ASSUME TypeOK, Waiters, NEW c \in Call, NEW t \in Transaction, Submit(c, t)
    PROVE  Waiters'
<1>1. waiting \in Seq(Call) /\ waiting' = Append(waiting, c) /\ calls[c].pc = "new"
  BY DEF TypeOK, Submit
<1>2. /\ DOMAIN waiting' = DOMAIN waiting \cup {Len(waiting) + 1}
      /\ \A i \in DOMAIN waiting : waiting'[i] = waiting[i] /\ waiting[i] \in Call
      /\ waiting'[Len(waiting) + 1] = c
  BY <1>1, AppendGroup
<1>3. calls'[c].pc = "waiting" /\ \A b \in Call : b # c => calls'[b] = calls[b]
  BY DEF TypeOK, Submit
<1>4. \A i \in DOMAIN waiting : waiting[i] # c
  BY <1>1 DEF Waiters
<1> QED BY <1>2, <1>3, <1>4 DEF Waiters

LEMMA AcquireWaiters ==
    ASSUME TypeOK, Waiters, NEW c \in Call, Acquire(c)
    PROVE  /\ Waiters'
           /\ calls[c].pc = "waiting"
           /\ Goto(c, "starting")
<1>1. waiting \in Seq(Call) /\ waiting # <<>> /\ c = waiting[1] /\ waiting' = Tail(waiting)
      /\ Goto(c, "starting")
  BY DEF TypeOK, Acquire
<1>2. \A i \in DOMAIN waiting' : i + 1 \in DOMAIN waiting /\ waiting'[i] = waiting[i + 1]
                                 /\ i \in Nat /\ i # 0 /\ waiting[i + 1] \in Call
  BY <1>1
<1>3. 1 \in DOMAIN waiting
  BY <1>1
<1>4. calls[c].pc = "waiting" /\ "starting" \in Pc
  BY <1>1, <1>3 DEF Waiters, Pc
<1>5. \A b \in Call : b # c => calls'[b] = calls[b]
  BY <1>1, <1>4, GotoFacts
<1>6. \A i \in DOMAIN waiting' : waiting[i + 1] # c
  <2> SUFFICES ASSUME NEW i \in DOMAIN waiting', waiting[i + 1] = c PROVE FALSE
    OBVIOUS
  <2>1. i + 1 = 1
    BY <1>1, <1>2, <1>3 DEF Waiters
  <2> QED BY <1>2, <2>1
<1>7. \A i \in DOMAIN waiting' : calls'[waiting'[i]].pc = "waiting"
  BY <1>2, <1>5, <1>6 DEF Waiters
<1>8. \A i, j \in DOMAIN waiting' : waiting'[i] = waiting'[j] => i = j
  <2> SUFFICES ASSUME NEW i \in DOMAIN waiting', NEW j \in DOMAIN waiting',
                      waiting'[i] = waiting'[j]
               PROVE  i = j
    OBVIOUS
  <2>1. i + 1 = j + 1
    BY <1>2 DEF Waiters
  <2> QED BY <1>2, <2>1
<1> QED BY <1>1, <1>4, <1>7, <1>8 DEF Waiters

\* The calls inside the semaphore.
Inside == {b \in Call : calls[b].pc \in InFlight}

LEMMA InsideFacts == IsFiniteSet(Inside) /\ Cardinality(Inside) \in Nat
<1>1. IsFiniteSet(Inside)
  BY DetectionCoreAssumption, FS_Subset DEF Inside
<1> QED BY <1>1, FS_CardinalityType

\* A step inside, or outside, the semaphore.
LEMMA MoveSlots ==
    ASSUME TypeOK, SlotsHeld, NEW c \in Call, NEW pc \in Pc, pc # "new",
           calls[c].pc # "new", Goto(c, pc), UNCHANGED permits,
           calls[c].pc \in InFlight, pc \in InFlight
    PROVE  SlotsHeld'
<1>1. calls'[c].pc = pc /\ \A b \in Call : b # c => calls'[b] = calls[b]
  BY GotoFacts
<1>2. \A b \in Call : calls'[b].pc \in InFlight <=> calls[b].pc \in InFlight
  BY <1>1
<1>3. Inside' = Inside
  BY <1>2 DEF Inside
<1> QED BY <1>3 DEF SlotsHeld, Inside

LEMMA SubmitSlots ==
    ASSUME TypeOK, SlotsHeld, NEW c \in Call, NEW t \in Transaction, Submit(c, t)
    PROVE  SlotsHeld'
<1>1. calls[c].pc = "new" /\ calls'[c].pc = "waiting" /\ UNCHANGED permits
      /\ \A b \in Call : b # c => calls'[b] = calls[b]
  BY DEF TypeOK, Submit
<1>2. \A b \in Call : calls'[b].pc \in InFlight <=> calls[b].pc \in InFlight
  BY <1>1 DEF InFlight
<1>3. Inside' = Inside
  BY <1>2 DEF Inside
<1> QED BY <1>1, <1>3 DEF SlotsHeld, Inside

LEMMA AcquireSlots ==
    ASSUME TypeOK, Waiters, SlotsHeld, NEW c \in Call, Acquire(c)
    PROVE  SlotsHeld'
<1>1. calls[c].pc = "waiting" /\ Goto(c, "starting") /\ permits' = permits - 1 /\ permits > 0
  BY AcquireWaiters DEF Acquire
<1>2. "starting" \in Pc /\ "starting" \in InFlight /\ "waiting" \notin InFlight
  BY DEF Pc, InFlight
<1>3. calls'[c].pc = "starting" /\ \A b \in Call : b # c => calls'[b] = calls[b]
  BY <1>1, <1>2, GotoFacts
<1>4. c \notin Inside /\ Inside' = Inside \cup {c}
  BY <1>1, <1>2, <1>3 DEF Inside
<1>5. Cardinality(Inside') = Cardinality(Inside) + 1
  BY <1>4, InsideFacts, FS_AddElement
<1>6. permits + Cardinality(Inside) = MaxConcurrent /\ permits \in Nat /\ MaxConcurrent \in Nat
  BY DetectionCoreAssumption DEF SlotsHeld, Inside, TypeOK
<1>7. permits' + Cardinality(Inside') = MaxConcurrent
  BY <1>1, <1>5, <1>6, InsideFacts
<1> QED BY <1>7 DEF SlotsHeld, Inside

LEMMA FinishSlots ==
    ASSUME TypeOK, SlotsHeld, NEW c \in Call, Finish(c)
    PROVE  SlotsHeld'
<1>1. calls[c].pc = "completing" /\ Goto(c, "done") /\ permits' = permits + 1
  BY DEF Finish, Released
<1>2. "done" \in Pc /\ "done" \notin InFlight /\ "completing" \in InFlight
  BY DEF Pc, InFlight
<1>3. calls'[c].pc = "done" /\ \A b \in Call : b # c => calls'[b] = calls[b]
  BY <1>1, <1>2, GotoFacts
<1>4. c \in Inside /\ Inside' = Inside \ {c}
  BY <1>1, <1>2, <1>3 DEF Inside
<1>5. Cardinality(Inside') = Cardinality(Inside) - 1
  BY <1>4, InsideFacts, FS_RemoveElement
<1>6. permits + Cardinality(Inside) = MaxConcurrent /\ permits \in Nat /\ MaxConcurrent \in Nat
  BY DetectionCoreAssumption DEF SlotsHeld, Inside, TypeOK
<1>7. permits' + Cardinality(Inside') = MaxConcurrent
  BY <1>1, <1>5, <1>6, InsideFacts
<1> QED BY <1>7 DEF SlotsHeld, Inside

-----------------------------------------------------------------------------
\* Which calls are past Collect, and that their own state then stays as it is.

\* A call past Collect keeps its signals and its transaction.
Settled(b) == calls'[b].tx = calls[b].tx /\ runs'[b] = runs[b]

\* A step other than Collect takes no call past Collect and leaves the groups.
Quiet ==
    /\ UNCHANGED <<saved, crossed>>
    /\ \A b \in Call : calls'[b].pc \in Past <=> calls[b].pc \in Past
    /\ \A b \in Call : IsPast(b) => Settled(b)

LEMMA SubmitIsQuiet ==
    ASSUME TypeOK, NEW c \in Call, NEW t \in Transaction, Submit(c, t)
    PROVE  Quiet
<1>1. calls[c].pc = "new" /\ calls'[c].pc = "waiting" /\ UNCHANGED <<runs, saved, crossed>>
      /\ \A b \in Call : b # c => calls'[b] = calls[b]
  BY DEF TypeOK, Submit
<1> QED BY <1>1 DEF Quiet, Settled, IsPast, Past, Publishing

\* A call moves, all before Collect or all after it.
LEMMA MoveIsQuiet ==
    ASSUME TypeOK, NEW c \in Call, NEW pc \in Pc, pc # "new", calls[c].pc # "new",
           Goto(c, pc), calls[c].pc \in Past <=> pc \in Past,
           UNCHANGED <<saved, crossed>>,
           runs' = runs \/ (StartDetectors(c) /\ calls[c].pc \notin Past)
    PROVE  Quiet
<1>1. /\ calls'[c].pc = pc
      /\ \A b \in Call : b # c => calls'[b] = calls[b]
      /\ \A b \in Call : calls'[b].tx = calls[b].tx
  BY GotoFacts
<1>2. \A b \in Call : IsPast(b) => runs'[b] = runs[b]
  BY DEF StartDetectors, TypeOK, IsPast
<1> QED BY <1>1, <1>2 DEF Quiet, Settled

LEMMA DetectorIsQuiet ==
    ASSUME TypeOK, RetryBound, RunsEnded, NEW c \in Call, NEW d \in Detector, DetectorStep(c, d)
    PROVE  Quiet
<1>1. PICK run \in RunRec :
         /\ runs' = [runs EXCEPT ![c] = [runs[c] EXCEPT ![d] = run]]
         /\ runs[c][d].status \in {"running", "sleeping"}
         /\ UNCHANGED <<calls, waiting, permits, collector, saved, announced, crossed>>
  BY DetectorStepRun
<1>2. ~ IsPast(c)
  BY <1>1 DEF RunsEnded
<1>3. \A b \in Call : b # c => runs'[b] = runs[b]
  BY <1>1 DEF TypeOK
<1> QED BY <1>1, <1>2, <1>3 DEF Quiet, Settled

\* The moves of one call: where it was and where it goes.
LEMMA CallMoves ==
    ASSUME TypeOK, Waiters, NEW c \in Call
    PROVE  /\ Acquire(c) => /\ calls[c].pc = "waiting" /\ Goto(c, "starting")
                            /\ UNCHANGED <<runs, collector, saved, announced, crossed>>
           /\ StartDetectors(c) => /\ calls[c].pc = "starting" /\ Goto(c, "running")
                                   /\ UNCHANGED <<waiting, permits, collector, saved, announced, crossed>>
           /\ AnnounceSignals(c) => /\ calls[c].pc = "announcing" /\ Goto(c, "completing")
                                    /\ UNCHANGED <<runs, waiting, permits, collector, saved, crossed>>
           /\ Finish(c) => /\ calls[c].pc = "completing" /\ Goto(c, "done")
                           /\ UNCHANGED <<runs, waiting, saved, announced, crossed>>
<1>1. Acquire(c) => calls[c].pc = "waiting"
  BY AcquireWaiters
<1> QED BY <1>1 DEF Acquire, StartDetectors, AnnounceSignals, Finish

LEMMA QuietSteps ==
    ASSUME TypeOK, Waiters, NEW c \in Call,
           Acquire(c) \/ StartDetectors(c) \/ AnnounceSignals(c) \/ Finish(c)
    PROVE  Quiet
<1> USE DEF Pc, Past, Publishing
<1>1. CASE Acquire(c)
  BY <1>1, CallMoves, MoveIsQuiet
<1>2. CASE StartDetectors(c)
  BY <1>2, CallMoves, MoveIsQuiet
<1>3. CASE AnnounceSignals(c)
  BY <1>3, CallMoves, MoveIsQuiet
<1>4. CASE Finish(c)
  BY <1>4, CallMoves, MoveIsQuiet
<1> QED BY <1>1, <1>2, <1>3, <1>4

-----------------------------------------------------------------------------
\* The runs of the detectors.

RunsInv == RunsEnded /\ RetryBound /\ RetriesSpent

\* A step that leaves the runs alone and takes no call past Collect.
LEMMA SameRuns ==
    ASSUME RunsInv, UNCHANGED runs,
           \A b \in Call : calls'[b].pc \in Past => calls[b].pc \in Past
    PROVE  RunsInv'
BY DEF RunsInv, RunsEnded, RetryBound, RetriesSpent, IsPast

LEMMA StartRuns ==
    ASSUME TypeOK, RunsInv, NEW c \in Call, StartDetectors(c)
    PROVE  RunsInv'
<1>1. \A b \in Call : b # c => runs'[b] = runs[b]
  BY DEF TypeOK, StartDetectors
<1>2. \A d \in Detector : /\ runs'[c][d].status = IF d \in Runnable THEN "running" ELSE "failed"
                          /\ runs'[c][d].retry = 0
  BY DEF TypeOK, StartDetectors, NewRun
<1>3. calls'[c].pc = "running" /\ \A b \in Call : b # c => calls'[b] = calls[b]
  BY DEF TypeOK, StartDetectors, Goto
<1>4. RunsEnded'
  BY <1>1, <1>3 DEF RunsInv, RunsEnded, IsPast, Past, Publishing
<1>5. RetryBound'
  BY <1>1, <1>2, DetectionCoreAssumption DEF RunsInv, RetryBound
<1>6. RetriesSpent'
  BY <1>1, <1>2, DetectionCoreAssumption DEF RunsInv, RetriesSpent
<1> QED BY <1>4, <1>5, <1>6 DEF RunsInv

LEMMA DetectorRuns ==
    ASSUME TypeOK, RunsInv, NEW c \in Call, NEW d \in Detector, DetectorStep(c, d)
    PROVE  RunsInv'
<1>1. PICK run \in RunRec :
         /\ runs' = [runs EXCEPT ![c] = [runs[c] EXCEPT ![d] = run]]
         /\ runs[c][d].status \in {"running", "sleeping"}
         /\ run.status \in {"running", "sleeping"} => run.retry <= MaxRetries
         /\ run.status = "failed" => run.retry = MaxRetries + 1
         /\ UNCHANGED <<calls, waiting, permits, collector, saved, announced, crossed>>
  BY DetectorStepRun DEF RunsInv
<1>2. /\ runs'[c][d] = run
      /\ \A b \in Call, e \in Detector : b # c \/ e # d => runs'[b][e] = runs[b][e]
  BY <1>1 DEF TypeOK
<1>3. ~ IsPast(c)
  BY <1>1 DEF RunsInv, RunsEnded
<1>4. RunsEnded'
  BY <1>1, <1>2, <1>3 DEF RunsInv, RunsEnded, IsPast
<1>5. RetryBound'
  BY <1>1, <1>2 DEF RunsInv, RetryBound
<1>6. RetriesSpent'
  BY <1>1, <1>2, DetectionCoreAssumption DEF RunsInv, RetriesSpent
<1> QED BY <1>4, <1>5, <1>6 DEF RunsInv

\* What Collect does to the calls.
LEMMA CollectMoves ==
    ASSUME TypeOK, NEW c \in Call, Collect(c)
    PROVE  /\ ~ IsPast(c)
           /\ calls'[c].pc \in Publishing
           /\ \A b \in Call : b # c => calls'[b] = calls[b]
           /\ \A b \in Call : calls'[b].tx = calls[b].tx
           /\ UNCHANGED runs
<1>1. PICK pc \in Publishing : Goto(c, pc)
  BY CollectFacts
<1>2. pc \in Pc /\ pc # "new" /\ calls[c].pc = "running" /\ calls[c].pc # "new"
  BY CollectFacts DEF Publishing, Pc
<1>3. /\ calls'[c].pc = pc
      /\ \A b \in Call : b # c => calls'[b] = calls[b]
      /\ \A b \in Call : calls'[b].tx = calls[b].tx
  BY <1>1, <1>2, GotoFacts
<1>4. ~ IsPast(c)
  BY <1>2 DEF IsPast, Past, Publishing
<1> QED BY <1>3, <1>4, CollectFacts

LEMMA CollectRuns ==
    ASSUME TypeOK, RunsInv, NEW c \in Call, Collect(c)
    PROVE  RunsInv'
<1>1. \A d \in Detector : runs[c][d].status \in {"completed", "failed"}
  BY DEF Collect
<1>2. UNCHANGED runs /\ \A b \in Call : b # c => calls'[b] = calls[b]
  BY CollectMoves
<1> QED BY <1>1, <1>2 DEF RunsInv, RunsEnded, RetryBound, RetriesSpent, IsPast

-----------------------------------------------------------------------------
\* The shared collector.

\* A settled call's signals are the same in the next state.
LEMMA SettledOwn ==
    ASSUME NEW b \in Call, Settled(b)
    PROVE  Own(b)' = Own(b)
BY DEF Own, Settled

\* A signal's call is a call.
LEMMA SignalCall == \A s \in Signal : s.call \in Call /\ s.detector \in Detector
BY DEF Signal

\* A quiet step that clears nothing and ends no call.
LEMMA QuietCollected ==
    ASSUME TypeOK, Collected, Quiet, UNCHANGED collector,
           \A b \in Call : calls[b].pc \in Publishing => calls'[b].pc \in Publishing
    PROVE  Collected'
<1> SUFFICES ASSUME NEW t \in Transaction, NEW s \in collector[t]
             PROVE  (s \in Own(s.call) /\ calls[s.call].pc \in Publishing /\ calls[s.call].tx = t)'
  BY DEF Collected
<1>1. s \in Own(s.call) /\ calls[s.call].pc \in Publishing /\ calls[s.call].tx = t
  BY DEF Collected
<1>2. s.call \in Call
  BY SignalCall DEF TypeOK
<1>3. Settled(s.call)
  BY <1>1, <1>2 DEF Quiet, IsPast, Past
<1>4. Own(s.call)' = Own(s.call)
  BY <1>2, <1>3, SettledOwn
<1> QED BY <1>1, <1>2, <1>3, <1>4 DEF Settled

\* Collect adds the signals of the call that collects.
LEMMA CollectCollected ==
    ASSUME TypeOK, Collected, NEW c \in Call, Collect(c)
    PROVE  Collected'
<1> SUFFICES ASSUME NEW t \in Transaction, NEW s \in collector'[t]
             PROVE  (s \in Own(s.call) /\ calls[s.call].pc \in Publishing /\ calls[s.call].tx = t)'
  BY DEF Collected
<1>1. collector' = [collector EXCEPT ![calls[c].tx] = collector[calls[c].tx] \cup Own(c)]
      /\ UNCHANGED runs
  BY CollectFacts
<1>2. \A b \in Call : Own(b)' = Own(b)
  BY <1>1 DEF Own
<1>3. CASE s \in collector[t]
  <2>1. s \in Own(s.call) /\ calls[s.call].pc \in Publishing /\ calls[s.call].tx = t
        /\ s.call \in Call
    BY <1>3, SignalCall DEF Collected, TypeOK
  <2>2. s.call # c
    BY <2>1, CollectMoves DEF IsPast, Past
  <2> QED BY <1>2, <2>1, <2>2, CollectMoves
<1>4. CASE s \notin collector[t]
  <2>1. s \in Own(c) /\ t = calls[c].tx
    BY <1>1, <1>4 DEF TypeOK
  <2>2. s.call = c
    BY <2>1, OwnFacts
  <2> QED BY <1>2, <2>1, <2>2, CollectMoves
<1> QED BY <1>3, <1>4

\* Finish clears the transaction of the call that ends: no other transaction holds
\* a signal of that call.
LEMMA FinishCollected ==
    ASSUME TypeOK, Waiters, Collected, NEW c \in Call, Finish(c)
    PROVE  Collected'
<1> SUFFICES ASSUME NEW t \in Transaction, NEW s \in collector'[t]
             PROVE  (s \in Own(s.call) /\ calls[s.call].pc \in Publishing /\ calls[s.call].tx = t)'
  BY DEF Collected
<1>1. calls[c].pc = "completing" /\ Goto(c, "done") /\ "done" \in Pc /\ UNCHANGED runs
      /\ collector' = [collector EXCEPT ![calls[c].tx] = {}]
  BY DEF Finish, Cleared, Pc
<1>2. t # calls[c].tx /\ s \in collector[t]
  BY <1>1 DEF TypeOK
<1>3. s \in Own(s.call) /\ calls[s.call].pc \in Publishing /\ calls[s.call].tx = t
      /\ s.call \in Call
  BY <1>2, SignalCall DEF Collected, TypeOK
<1>4. s.call # c
  BY <1>2, <1>3
<1>5. calls'[s.call] = calls[s.call]
  BY <1>1, <1>3, <1>4, GotoFacts
<1>6. Own(s.call)' = Own(s.call)
  BY <1>1 DEF Own
<1> QED BY <1>3, <1>5, <1>6

-----------------------------------------------------------------------------
\* The groups that are saved.

SavedInv == SavedGroups /\ OwnSaved /\ AloneSaved

LEMMA QuietSaved ==
    ASSUME TypeOK, SavedInv, Quiet
    PROVE  SavedInv'
<1>1. UNCHANGED <<saved, crossed>>
  BY DEF Quiet
<1>2. \A b \in Call : IsPast(b)' <=> IsPast(b)
  BY DEF Quiet, IsPast
<1>3. \A b \in Call : IsPast(b) => Own(b)' = Own(b) /\ calls'[b].tx = calls[b].tx
  <2> SUFFICES ASSUME NEW b \in Call, IsPast(b)
               PROVE  Own(b)' = Own(b) /\ calls'[b].tx = calls[b].tx
    OBVIOUS
  <2>1. Settled(b)
    BY DEF Quiet
  <2> QED BY <2>1, SettledOwn DEF Settled
<1>4. \A i \in DOMAIN saved : saved[i].call \in Call /\ saved[i].signals \in SUBSET Signal
  BY SavedFacts
<1>5. SavedGroups'
  <2>1. \A i \in DOMAIN saved : IsPast(saved[i].call)'
    BY <1>1, <1>2, <1>4 DEF SavedInv, SavedGroups
  <2>2. \A i \in DOMAIN saved : \A s \in saved[i].signals :
           (s \in Own(s.call) /\ IsPast(s.call) /\ calls[s.call].tx = calls[saved[i].call].tx)'
    <3> SUFFICES ASSUME NEW i \in DOMAIN saved, NEW s \in saved[i].signals
                 PROVE  (s \in Own(s.call) /\ IsPast(s.call)
                         /\ calls[s.call].tx = calls[saved[i].call].tx)'
      OBVIOUS
    <3>1. s.call \in Call /\ saved[i].call \in Call
      BY <1>4, SignalCall
    <3>2. s \in Own(s.call) /\ IsPast(s.call) /\ calls[s.call].tx = calls[saved[i].call].tx
          /\ IsPast(saved[i].call)
      BY DEF SavedInv, SavedGroups
    <3> QED BY <1>1, <1>2, <1>3, <3>1, <3>2
  <2>3. \A i, j \in DOMAIN saved : saved[i].call = saved[j].call => i = j
    BY DEF SavedInv, SavedGroups
  <2> QED BY <1>1, <2>1, <2>2, <2>3 DEF SavedGroups
<1>6. OwnSaved'
  BY <1>1, <1>2, <1>3 DEF SavedInv, OwnSaved
<1>7. AloneSaved'
  BY <1>1, <1>2, <1>3 DEF SavedInv, AloneSaved
<1> QED BY <1>5, <1>6, <1>7 DEF SavedInv

\* The signals Collect groups are those of past calls and of the collecting one.
LEMMA GroupFacts ==
    ASSUME TypeOK, Collected, NEW c \in Call, Collect(c)
    PROVE  /\ Own(c) \subseteq Group(c)
           /\ \A s \in Group(c) :
                 /\ s.call \in Call
                 /\ s \in Own(s.call)
                 /\ calls[s.call].tx = calls[c].tx
                 /\ s.call # c => s.call \in OthersOf(calls[c].tx)
<1>1. calls[c].tx \in Transaction
  BY CollectFacts
<1>2. \A s \in Own(c) : s.call = c
  BY OwnFacts
<1>3. \A s \in collector[calls[c].tx] :
         s.call \in Call /\ s \in Own(s.call) /\ calls[s.call].tx = calls[c].tx
         /\ s.call \in OthersOf(calls[c].tx)
  BY <1>1, SignalCall DEF Collected, TypeOK, OthersOf
<1> QED BY <1>2, <1>3 DEF Group

\* Collect makes the collecting call past, with its signals as they are, and keeps
\* every other call.
LEMMA CollectPast ==
    ASSUME TypeOK, NEW c \in Call, Collect(c)
    PROVE  /\ IsPast(c)'
           /\ \A b \in Call : b # c => (IsPast(b)' <=> IsPast(b))
           /\ \A b \in Call : Own(b)' = Own(b) /\ calls'[b].tx = calls[b].tx
           /\ \A b \in OthersOf(calls[c].tx) : b \in Call /\ IsPast(b) /\ b # c
BY CollectMoves DEF IsPast, Past, Own, OthersOf

\* When nothing is grouped the call has no signals and nothing is saved.
LEMMA CollectNothing ==
    ASSUME TypeOK, SavedInv, NEW c \in Call, Collect(c), Group(c) = {}
    PROVE  SavedInv'
<1>1. Own(c) = {} /\ saved' = saved
  BY CollectFacts DEF Group
<1>2. \A i \in DOMAIN saved : /\ saved[i].call \in Call /\ saved[i].call # c
                              /\ \A s \in saved[i].signals : s.call \in Call /\ s.call # c
  BY SavedFacts, SignalCall, CollectMoves DEF SavedInv, SavedGroups
<1>3. crossed \subseteq crossed'
  BY CollectFacts
<1>4. SavedGroups'
  BY <1>1, <1>2, CollectPast DEF SavedInv, SavedGroups
<1>5. OwnSaved'
  BY <1>1, <1>2, CollectPast DEF SavedInv, OwnSaved
<1>6. AloneSaved'
  <2> SUFFICES ASSUME NEW b \in Call \ crossed', IsPast(b)', NEW i \in DOMAIN saved
               PROVE  /\ saved[i].call = b => saved[i].signals = Own(b)
                      /\ saved[i].signals \cap Own(b) # {} => saved[i].call = b
    BY <1>1, CollectPast DEF AloneSaved
  <2>1. CASE b = c
    BY <1>1, <1>2, <2>1
  <2>2. CASE b # c
    BY <1>3, <2>2, CollectPast DEF SavedInv, AloneSaved
  <2> QED BY <2>1, <2>2
<1> QED BY <1>4, <1>5, <1>6 DEF SavedInv

\* The group Collect saves, seen from the groups saved before.
LEMMA CollectSome ==
    ASSUME TypeOK, Collected, SavedInv, NEW c \in Call, Collect(c), Group(c) # {}
    PROVE  SavedInv'
<1> DEFINE n == Len(saved) + 1
           new == [call |-> c, signals |-> Group(c)]
<1>1. /\ DOMAIN saved' = DOMAIN saved \cup {n}
      /\ n \notin DOMAIN saved
      /\ \A i \in DOMAIN saved : saved'[i] = saved[i]
      /\ saved'[n] = new
  <2>1. new \in GroupRec /\ saved \in Seq(GroupRec)
    BY CollectFacts, SavedFacts DEF GroupRec
  <2>2. saved' = Append(saved, new)
    BY CollectFacts
  <2> QED BY <2>1, <2>2, AppendGroup
<1>2. new.call = c /\ new.signals = Group(c)
  OBVIOUS
<1> HIDE DEF new, n
<1>3. \A i \in DOMAIN saved : /\ saved[i].call \in Call /\ saved[i].call # c
                              /\ \A s \in saved[i].signals : s.call \in Call /\ s.call # c
  BY SavedFacts, SignalCall, CollectMoves DEF SavedInv, SavedGroups
<1>4. crossed \subseteq crossed' /\ OthersOf(calls[c].tx) \subseteq crossed'
      /\ (OthersOf(calls[c].tx) # {} => c \in crossed')
  BY CollectFacts
<1>5. SavedGroups'
  <2>1. \A i \in DOMAIN saved' : calls'[saved'[i].call].pc \in Past
    <3>1. calls'[c].pc \in Past /\ \A b \in Call : b # c => calls'[b] = calls[b]
      BY CollectMoves DEF Past
    <3>2. \A i \in DOMAIN saved : calls[saved[i].call].pc \in Past
      BY DEF SavedInv, SavedGroups, IsPast
    <3> QED BY <1>1, <1>2, <1>3, <3>1, <3>2
  <2>2. \A i, j \in DOMAIN saved' : saved'[i].call = saved'[j].call => i = j
    BY <1>1, <1>2, <1>3 DEF SavedInv, SavedGroups
  <2>3. \A i \in DOMAIN saved' : \A s \in saved'[i].signals :
           (s \in Own(s.call) /\ IsPast(s.call) /\ calls[s.call].tx = calls[saved[i].call].tx)'
    <3> SUFFICES ASSUME NEW i \in DOMAIN saved', NEW s \in saved'[i].signals
                 PROVE  (s \in Own(s.call) /\ IsPast(s.call)
                         /\ calls[s.call].tx = calls[saved[i].call].tx)'
      OBVIOUS
    <3>1. CASE i = n
      <4>1. s \in Group(c) /\ saved'[i].call = c
        BY <1>1, <1>2, <3>1
      <4>2. /\ s.call \in Call /\ s \in Own(s.call) /\ calls[s.call].tx = calls[c].tx
            /\ s.call # c => s.call \in OthersOf(calls[c].tx)
        BY <4>1, GroupFacts
      <4> QED BY <4>1, <4>2, CollectPast
    <3>2. CASE i # n
      <4>1. i \in DOMAIN saved /\ saved'[i] = saved[i]
        BY <1>1, <3>2
      <4>2. s \in Own(s.call) /\ IsPast(s.call) /\ calls[s.call].tx = calls[saved[i].call].tx
            /\ s.call \in Call /\ s.call # c /\ saved[i].call \in Call
        BY <1>3, <4>1 DEF SavedInv, SavedGroups
      <4> QED BY <4>1, <4>2, CollectPast
    <3> QED BY <3>1, <3>2
  <2>4. \A i \in DOMAIN saved' : IsPast(saved[i].call)'
    BY <2>1 DEF IsPast
  <2> QED BY <2>2, <2>3, <2>4 DEF SavedGroups
<1>6. OwnSaved'
  <2> SUFFICES ASSUME NEW b \in Call, IsPast(b)', Own(b) # {}
               PROVE  \E i \in DOMAIN saved' : saved'[i].call = b /\ Own(b) \subseteq saved'[i].signals
    BY CollectPast DEF OwnSaved
  <2>1. CASE b = c
    BY <1>1, <1>2, <2>1, GroupFacts
  <2>2. CASE b # c
    <3>1. IsPast(b)
      BY <2>2, CollectPast
    <3> QED BY <1>1, <3>1 DEF SavedInv, OwnSaved
  <2> QED BY <2>1, <2>2
<1>7. AloneSaved'
  <2> SUFFICES ASSUME NEW b \in Call \ crossed', IsPast(b)', NEW i \in DOMAIN saved'
               PROVE  /\ saved'[i].call = b => saved'[i].signals = Own(b)
                      /\ saved'[i].signals \cap Own(b) # {} => saved'[i].call = b
    BY CollectPast DEF AloneSaved
  <2>1. CASE i = n /\ b = c
    <3>1. OthersOf(calls[c].tx) = {}
      BY <1>4, <2>1
    <3>2. \A s \in Group(c) : s.call = c /\ s \in Own(c)
      BY <3>1, GroupFacts
    <3>3. Group(c) = Own(c)
      BY <3>2, GroupFacts
    <3> QED BY <1>1, <1>2, <2>1, <3>3
  <2>2. CASE i = n /\ b # c
    <3>1. b \notin OthersOf(calls[c].tx)
      BY <1>4
    <3>2. \A s \in Own(b) : s.call = b
      BY OwnFacts
    <3>3. Group(c) \cap Own(b) = {}
      BY <2>2, <3>1, <3>2, GroupFacts
    <3> QED BY <1>1, <1>2, <2>2, <3>3
  <2>3. CASE i # n /\ b = c
    <3>1. i \in DOMAIN saved /\ saved'[i] = saved[i]
      BY <1>1, <2>3
    <3>2. \A s \in Own(b) : s.call = c
      BY <2>3, OwnFacts
    <3> QED BY <1>3, <2>3, <3>1, <3>2
  <2>4. CASE i # n /\ b # c
    <3>1. i \in DOMAIN saved /\ saved'[i] = saved[i]
      BY <1>1, <2>4
    <3>2. IsPast(b) /\ b \in Call \ crossed
      BY <1>4, <2>4, CollectPast
    <3> QED BY <3>1, <3>2 DEF SavedInv, AloneSaved
  <2> QED BY <2>1, <2>2, <2>3, <2>4
<1> QED BY <1>5, <1>6, <1>7 DEF SavedInv

-----------------------------------------------------------------------------
\* What was announced is in the groups: they are only added to.

LEMMA AnnouncedKept ==
    ASSUME TypeOK, AnnouncedIsSaved, UNCHANGED announced,
           DOMAIN saved \subseteq DOMAIN saved',
           \A i \in DOMAIN saved : saved'[i] = saved[i]
    PROVE  AnnouncedIsSaved'
BY DEF AnnouncedIsSaved, SavedBy

LEMMA CollectAnnounced ==
    ASSUME TypeOK, AnnouncedIsSaved, NEW c \in Call, Collect(c)
    PROVE  AnnouncedIsSaved'
<1>1. CASE Group(c) = {}
  <2>1. UNCHANGED saved /\ UNCHANGED announced
    BY <1>1, CollectFacts
  <2> QED BY <2>1, AnnouncedKept
<1>2. CASE Group(c) # {}
  <2>1. [call |-> c, signals |-> Group(c)] \in GroupRec /\ saved \in Seq(GroupRec)
    BY CollectFacts, SavedFacts DEF GroupRec
  <2>2. UNCHANGED announced /\ saved' = Append(saved, [call |-> c, signals |-> Group(c)])
    BY <1>2, CollectFacts
  <2>3. DOMAIN saved \subseteq DOMAIN saved' /\ \A i \in DOMAIN saved : saved'[i] = saved[i]
    BY <2>1, <2>2, AppendGroup
  <2> QED BY <2>2, <2>3, AnnouncedKept
<1> QED BY <1>1, <1>2

LEMMA AnnounceAnnounced ==
    ASSUME TypeOK, AnnouncedIsSaved, NEW c \in Call, AnnounceSignals(c)
    PROVE  AnnouncedIsSaved'
<1>1. UNCHANGED saved
  BY AnnounceFacts
<1>2. CASE UNCHANGED announced
  BY <1>1, <1>2, AnnouncedKept
<1>3. CASE ~ UNCHANGED announced
  <2>1. PICK i \in DOMAIN saved :
           /\ saved[i].call = c
           /\ announced' = announced \cup {[call |-> c, signals |-> saved[i].signals]}
    BY <1>3, AnnounceFacts
  <2> QED BY <1>1, <2>1 DEF AnnouncedIsSaved, SavedBy
<1> QED BY <1>2, <1>3

-----------------------------------------------------------------------------
\* The inductive invariant.

LEMMA InitIInv == Init => IInv
<1> SUFFICES ASSUME Init PROVE IInv
  OBVIOUS
<1>1. TypeOK
  BY InitTypes
<1>2. Waiters /\ SavedGroups /\ AnnouncedIsSaved
  BY DEF Init, Waiters, SavedGroups, AnnouncedIsSaved
<1>3. \A c \in Call : calls[c].pc = "new" /\ ~ IsPast(c)
  BY DEF Init, IsPast, Past, Publishing
<1>4. SlotsHeld
  <2>1. Inside = {}
    BY <1>3 DEF InFlight, Inside
  <2>2. Cardinality(Inside) = 0
    BY <2>1, FS_EmptySet
  <2>3. permits + Cardinality(Inside) = MaxConcurrent
    BY <2>2, DetectionCoreAssumption DEF Init
  <2> QED BY <2>3 DEF SlotsHeld, Inside
<1>5. RunsEnded /\ OwnSaved /\ AloneSaved
  BY <1>3 DEF RunsEnded, OwnSaved, AloneSaved
<1>6. RetryBound /\ RetriesSpent
  BY DetectionCoreAssumption DEF Init, NewRun, RetryBound, RetriesSpent
<1>7. Collected
  BY DEF Init, Collected
<1> QED BY <1>1, <1>2, <1>4, <1>5, <1>6, <1>7 DEF IInv

\* A quiet step that keeps the types, the queue, the slots, the runs and the
\* collector keeps the whole invariant.
LEMMA QuietIInv ==
    ASSUME IInv, Quiet, TypeOK', Waiters', SlotsHeld', RunsInv', Collected', AnnouncedIsSaved'
    PROVE  IInv'
<1>1. SavedInv'
  BY QuietSaved DEF IInv, SavedInv
<1> QED BY <1>1 DEF IInv, SavedInv, RunsInv

LEMMA SubmitIInv ==
    ASSUME IInv, NEW c \in Call, NEW t \in Transaction, Submit(c, t)
    PROVE  IInv'
<1> USE DEF IInv
<1>1. TypeOK' /\ Waiters' /\ SlotsHeld' /\ Quiet
  BY SubmitTypes, SubmitWaiters, SubmitSlots, SubmitIsQuiet
<1>2. UNCHANGED <<runs, collector, saved, announced>>
  BY DEF Submit
<1>3. RunsInv'
  BY <1>1, <1>2, SameRuns DEF RunsInv, Quiet
<1>4. Collected'
  <2>1. calls[c].pc = "new" /\ \A b \in Call : b # c => calls'[b] = calls[b]
    BY DEF Submit, TypeOK
  <2>2. \A b \in Call : calls[b].pc \in Publishing => calls'[b].pc \in Publishing
    BY <2>1 DEF Publishing
  <2> QED BY <1>1, <1>2, <2>2, QuietCollected
<1>5. AnnouncedIsSaved'
  BY <1>2, AnnouncedKept
<1> USE DEF RunsInv
<1> QED BY <1>1, <1>3, <1>4, <1>5, QuietIInv

\* The moves before and after Collect, without the end of the call.
LEMMA MoveIInv ==
    ASSUME IInv, NEW c \in Call, Acquire(c) \/ StartDetectors(c) \/ AnnounceSignals(c)
    PROVE  IInv'
<1>0. TypeOK /\ Waiters /\ SlotsHeld /\ RunsInv /\ Collected /\ AnnouncedIsSaved
  BY DEF IInv, RunsInv
<1>1. Quiet
  BY <1>0, QuietSteps
<1>2. TypeOK'
  BY <1>0, AcquireTypes, StartTypes, AnnounceTypes
<1>3. Waiters' /\ SlotsHeld'
  <2>1. CASE Acquire(c)
    BY <1>0, <2>1, AcquireWaiters, AcquireSlots
  <2>2. CASE StartDetectors(c)
    <3>1. "running" \in Pc /\ "running" \in InFlight /\ "starting" \in InFlight
      BY DEF Pc, InFlight
    <3> QED BY <1>0, <2>2, <3>1, CallMoves, MoveWaiters, MoveSlots
  <2>3. CASE AnnounceSignals(c)
    <3>1. "completing" \in Pc /\ "completing" \in InFlight /\ "announcing" \in InFlight
      BY DEF Pc, InFlight
    <3> QED BY <1>0, <2>3, <3>1, CallMoves, MoveWaiters, MoveSlots
  <2> QED BY <2>1, <2>2, <2>3
<1>4. RunsInv'
  <2>1. CASE StartDetectors(c)
    BY <1>0, <2>1, StartRuns
  <2>2. CASE ~ StartDetectors(c)
    <3>1. UNCHANGED runs
      BY <1>0, <2>2, CallMoves
    <3> QED BY <1>0, <1>1, <3>1, SameRuns DEF Quiet
  <2> QED BY <2>1, <2>2
<1>5. Collected'
  <2>1. /\ UNCHANGED collector
        /\ \E pc \in Pc : pc # "new" /\ Goto(c, pc)
             /\ (calls[c].pc \in Publishing => pc \in Publishing) /\ calls[c].pc # "new"
    BY <1>0, CallMoves DEF Pc, Publishing
  <2>2. \A b \in Call : calls[b].pc \in Publishing => calls'[b].pc \in Publishing
    BY <1>0, <2>1, GotoFacts
  <2> QED BY <1>0, <1>1, <2>1, <2>2, QuietCollected
<1>6. AnnouncedIsSaved'
  <2>1. CASE AnnounceSignals(c)
    BY <1>0, <2>1, AnnounceAnnounced
  <2>2. CASE ~ AnnounceSignals(c)
    <3>1. UNCHANGED <<announced, saved>>
      BY <1>0, <2>2, CallMoves
    <3> QED BY <1>0, <3>1, AnnouncedKept
  <2> QED BY <2>1, <2>2
<1> QED BY <1>1, <1>2, <1>3, <1>4, <1>5, <1>6, QuietIInv

LEMMA FinishIInv ==
    ASSUME IInv, NEW c \in Call, Finish(c)
    PROVE  IInv'
<1>0. TypeOK /\ Waiters /\ SlotsHeld /\ RunsInv /\ Collected /\ AnnouncedIsSaved
  BY DEF IInv, RunsInv
<1>1. Quiet
  BY <1>0, QuietSteps
<1>2. TypeOK' /\ SlotsHeld' /\ Collected'
  BY <1>0, FinishTypes, FinishSlots, FinishCollected
<1>3. Waiters'
  <2>1. "done" \in Pc
    BY DEF Pc
  <2> QED BY <1>0, <2>1, CallMoves, MoveWaiters
<1>4. UNCHANGED <<runs, saved, announced>>
  BY <1>0, CallMoves
<1>5. RunsInv'
  BY <1>0, <1>1, <1>4, SameRuns DEF Quiet
<1>6. AnnouncedIsSaved'
  BY <1>0, <1>4, AnnouncedKept
<1> QED BY <1>1, <1>2, <1>3, <1>5, <1>6, QuietIInv

LEMMA CollectIInv ==
    ASSUME IInv, NEW c \in Call, Collect(c)
    PROVE  IInv'
<1>0. TypeOK /\ Waiters /\ SlotsHeld /\ RunsInv /\ Collected /\ SavedInv /\ AnnouncedIsSaved
  BY DEF IInv, RunsInv, SavedInv
<1>1. TypeOK' /\ RunsInv' /\ Collected' /\ AnnouncedIsSaved'
  BY <1>0, CollectTypes, CollectRuns, CollectCollected, CollectAnnounced
<1>2. SavedInv'
  BY <1>0, CollectNothing, CollectSome
<1>3. PICK pc \in Publishing : Goto(c, pc)
  BY <1>0, CollectFacts
<1>4. pc \in Pc /\ pc # "new" /\ pc \in InFlight /\ calls[c].pc = "running"
      /\ calls[c].pc \in InFlight /\ UNCHANGED <<waiting, permits>>
  BY <1>0, CollectFacts DEF Publishing, Pc, InFlight
<1>5. Waiters' /\ SlotsHeld'
  BY <1>0, <1>3, <1>4, MoveWaiters, MoveSlots
<1> QED BY <1>1, <1>2, <1>5 DEF IInv, RunsInv, SavedInv

LEMMA DetectorIInv ==
    ASSUME IInv, NEW c \in Call, NEW d \in Detector, DetectorStep(c, d)
    PROVE  IInv'
<1>0. TypeOK /\ Waiters /\ SlotsHeld /\ RunsInv /\ RunsEnded /\ RetryBound /\ Collected
      /\ AnnouncedIsSaved
  BY DEF IInv, RunsInv
<1>1. TypeOK' /\ RunsInv' /\ Quiet
  BY <1>0, DetectorTypes, DetectorRuns, DetectorIsQuiet
<1>2. UNCHANGED <<calls, waiting, permits, collector, saved, announced>>
  BY <1>0, DetectorStepRun
<1>3. Waiters' /\ SlotsHeld'
  BY <1>0, <1>2 DEF Waiters, SlotsHeld
<1>4. Collected'
  BY <1>0, <1>1, <1>2, QuietCollected
<1>5. AnnouncedIsSaved'
  BY <1>0, <1>2, AnnouncedKept
<1> QED BY <1>1, <1>3, <1>4, <1>5, QuietIInv

LEMMA StutterIInv == ASSUME IInv, UNCHANGED vars PROVE IInv'
<1>1. UNCHANGED <<calls, runs, waiting, permits, collector, saved, announced, crossed>>
  BY DEF vars
<1>2. TypeOK' /\ Waiters' /\ SlotsHeld'
  BY <1>1 DEF IInv, TypeOK, Waiters, SlotsHeld
<1>3. RunsInv'
  BY <1>1, SameRuns DEF IInv, RunsInv
<1>4. Quiet
  BY <1>1 DEF Quiet, Settled
<1>5. Collected'
  BY <1>1, <1>4, QuietCollected DEF IInv
<1>6. AnnouncedIsSaved'
  BY <1>1, AnnouncedKept DEF IInv
<1> QED BY <1>2, <1>3, <1>4, <1>5, <1>6, QuietIInv

LEMMA NextIInv == IInv /\ [Next]_vars => IInv'
<1> SUFFICES ASSUME IInv, [Next]_vars PROVE IInv'
  OBVIOUS
<1>1. ASSUME NEW c \in Call, NEW t \in Transaction, Submit(c, t) PROVE IInv'
  BY <1>1, SubmitIInv
<1>2. ASSUME NEW c \in Call, CallStep(c) PROVE IInv'
  BY <1>2, MoveIInv, FinishIInv, CollectIInv, DetectorIInv DEF CallStep
<1>3. CASE UNCHANGED vars
  BY <1>3, StutterIInv
<1> QED BY <1>1, <1>2, <1>3 DEF Next, Idle

-----------------------------------------------------------------------------
\* What follows from the invariant.

LEMMA CollectedFollows == IInv => CollectedIsInFlight
BY DEF IInv, Collected, CollectedIsInFlight

\* A call that met no other one saved its signals in exactly one group.
LEMMA OneGroup ==
    ASSUME IInv, NEW c \in Call, IsPast(c), Own(c) # {}
    PROVE  /\ \E i \in SavedBy(c) : Own(c) \subseteq saved[i].signals
           /\ Cardinality(SavedBy(c)) = 1
<1>1. PICK i \in DOMAIN saved : saved[i].call = c /\ Own(c) \subseteq saved[i].signals
  BY DEF IInv, OwnSaved
<1>2. SavedBy(c) = {i}
  BY <1>1 DEF IInv, SavedGroups, SavedBy
<1>3. Cardinality(SavedBy(c)) = 1
  BY <1>2, FS_Singleton
<1> QED BY <1>1, <1>2, <1>3

LEMMA SavedFollows == IInv => SignalsAreSaved
<1> SUFFICES ASSUME IInv PROVE SignalsAreSaved
  OBVIOUS
<1>1. SavedOnce
  BY OneGroup DEF IInv, AloneSaved, SavedOnce, IsPast, Past
<1>2. NothingUnsaved
  <2> SUFFICES ASSUME NEW c \in Call, IsPast(c), Own(c) # {}
               PROVE  \E i \in SavedBy(c) :
                         /\ Own(c) \subseteq saved[i].signals
                         /\ \A s \in saved[i].signals : calls[s.call].tx = calls[c].tx
    BY DEF NothingUnsaved, IsPast, Past
  <2>1. PICK i \in SavedBy(c) : Own(c) \subseteq saved[i].signals
    BY OneGroup
  <2> QED BY <2>1 DEF IInv, SavedGroups, SavedBy
<1> QED BY <1>1, <1>2 DEF IInv, SignalsAreSaved

-----------------------------------------------------------------------------
\* The state of the orchestrator, the runner and the collector is always typed,
\* however many calls, transactions and detectors there are.
THEOREM DetectionTypes == Spec => []TypeOK
<1>1. Init => IInv
  BY InitIInv
<1>2. IInv /\ [Next]_vars => IInv'
  BY NextIInv
<1>3. IInv => TypeOK
  BY DEF IInv
<1> QED BY <1>1, <1>2, <1>3, PTL DEF Spec

\* The semaphore of process_transaction neither leaks a slot nor lends one twice.
THEOREM DetectionSlotsHeld == Spec => []SlotsHeld
<1>1. Init => IInv
  BY InitIInv
<1>2. IInv /\ [Next]_vars => IInv'
  BY NextIInv
<1>3. IInv => SlotsHeld
  BY DEF IInv
<1> QED BY <1>1, <1>2, <1>3, PTL DEF Spec

\* A detector that run_single_detector gives up was tried once more than MAX_RETRIES.
THEOREM DetectionRetriesSpent == Spec => []RetriesSpent
<1>1. Init => IInv
  BY InitIInv
<1>2. IInv /\ [Next]_vars => IInv'
  BY NextIInv
<1>3. IInv => RetriesSpent
  BY DEF IInv
<1> QED BY <1>1, <1>2, <1>3, PTL DEF Spec

\* The collector that all calls share never holds a signal of a call that is over,
\* or of one for another transaction.
THEOREM DetectionCollectedIsInFlight == Spec => []CollectedIsInFlight
<1>1. Init => IInv
  BY InitIInv
<1>2. IInv /\ [Next]_vars => IInv'
  BY NextIInv
<1> QED BY <1>1, <1>2, CollectedFollows, PTL DEF Spec

\* Every signal of a call is saved with that call, exactly once unless calls for one
\* transaction met in the collector, and announced as it was saved.
THEOREM DetectionSignalsAreSaved == Spec => []SignalsAreSaved
<1>1. Init => IInv
  BY InitIInv
<1>2. IInv /\ [Next]_vars => IInv'
  BY NextIInv
<1> QED BY <1>1, <1>2, SavedFollows, PTL DEF Spec

-----------------------------------------------------------------------------
\* Least elements.

LEMMA LeastNatural ==
    ASSUME NEW S, S \subseteq Nat, S # {}
    PROVE  \E n \in S : \A m \in S : n <= m
  <1>1. PICK n \in S : \A m \in S : ~(<<m, n>> \in OpToRel(<, Nat))
    BY NatLessThanWellFounded, WFMin
  <1>2. \A m \in S : ~(m < n)
    BY <1>1 DEF OpToRel
  <1> QED  BY <1>2

LEMMA MinIsLeast ==
    ASSUME NEW S, S \subseteq Nat, S # {}
    PROVE  Min(S) \in S /\ \A m \in S : Min(S) <= m
  BY LeastNatural DEF Min

\* A nonempty family of subsets of a finite set has a smallest member.
LEMMA Smallest ==
    ASSUME NEW S, IsFiniteSet(S), NEW U \in SUBSET (SUBSET S), U # {}
    PROVE  \E t \in U : \A s \in U : Cardinality(t) <= Cardinality(s)
  <1> DEFINE N == {Cardinality(s) : s \in U}
  <1>1. \A s \in U : Cardinality(s) \in Nat
    BY FS_Subset, FS_CardinalityType
  <1>2. N \subseteq Nat /\ N # {}
    BY <1>1
  <1>3. PICK n \in N : \A m \in N : n <= m
    BY <1>2, LeastNatural
  <1> QED  BY <1>3

-----------------------------------------------------------------------------
\* Sums over finite sets.

\* The recursive function MapThenSumSet takes its value from.
Summed(g, s) ==
    IF s = {} THEN 0
    ELSE LET x == CHOOSE y \in s : TRUE IN Amount(x) + g[s \ {x}]

IsSum(g, S) == g = [s \in SUBSET S |-> Summed(g, s)]

Summable(S) == IsFiniteSet(S) /\ \A k \in S : Amount(k) \in Nat

LEMMA TotalIsSum ==
    ASSUME NEW S
    PROVE  Total(S) = (CHOOSE g : IsSum(g, S))[S]
  BY DEF Total, MapThenSumSet, MapThenFoldSet, IsSum, Summed

\* Taking out the chosen element leaves a smaller set.
LEMMA ChosenTaken ==
    ASSUME NEW S, IsFiniteSet(S), NEW s \in SUBSET S, s # {}
    PROVE  LET x == CHOOSE y \in s : TRUE
           IN  /\ x \in s
               /\ s \ {x} \in SUBSET S
               /\ Cardinality(s) \in Nat
               /\ Cardinality(s \ {x}) \in Nat
               /\ Cardinality(s \ {x}) = Cardinality(s) - 1
  <1>1. IsFiniteSet(s)
    BY FS_Subset
  <1> DEFINE x == CHOOSE y \in s : TRUE
  <1>2. x \in s
    OBVIOUS
  <1>3. IsFiniteSet(s \ {x}) /\ Cardinality(s \ {x}) = Cardinality(s) - 1
    BY <1>1, <1>2, FS_RemoveElement
  <1> QED  BY <1>1, <1>2, <1>3, FS_CardinalityType

LEMMA SumExists ==
    ASSUME NEW S, Summable(S)
    PROVE  \E g \in [SUBSET S -> Nat] : IsSum(g, S)
  <1> DEFINE Small(n) == {s \in SUBSET S : Cardinality(s) <= n}
             Good(n) == \E g \in [Small(n) -> Nat] : \A s \in Small(n) : g[s] = Summed(g, s)
             Bad == {n \in Nat : ~Good(n)}
  <1>0. IsFiniteSet(S) /\ \A k \in S : Amount(k) \in Nat
    BY DEF Summable
  <1>a. \A s \in SUBSET S : Cardinality(s) \in Nat /\ (Cardinality(s) = 0 => s = {})
    BY <1>0, FS_Subset, FS_CardinalityType, FS_EmptySet
  <1>1. Good(0)
    <2> DEFINE g == [s \in Small(0) |-> 0]
    <2>1. \A s \in Small(0) : s = {}
      BY <1>a
    <2>2. g \in [Small(0) -> Nat] /\ \A s \in Small(0) : g[s] = Summed(g, s)
      BY <2>1 DEF Summed
    <2> QED  BY <2>2
  <1>2. ASSUME NEW n \in Nat, Good(n)
        PROVE  Good(n + 1)
    <2>1. PICK g \in [Small(n) -> Nat] : \A s \in Small(n) : g[s] = Summed(g, s)
      BY <1>2
    <2> DEFINE h == [s \in Small(n + 1) |-> Summed(g, s)]
    <2>2. ASSUME NEW s \in Small(n + 1)
          PROVE  Summed(g, s) \in Nat /\ Summed(h, s) = Summed(g, s)
      <3>1. CASE s = {}
        BY <3>1 DEF Summed
      <3>2. CASE s # {}
        <4> DEFINE x == CHOOSE y \in s : TRUE
        <4>1. /\ x \in s /\ s \ {x} \in SUBSET S
              /\ Cardinality(s) \in Nat /\ Cardinality(s \ {x}) \in Nat
              /\ Cardinality(s \ {x}) = Cardinality(s) - 1
          BY <1>0, <3>2, ChosenTaken
        <4>2. s \ {x} \in Small(n) /\ s \ {x} \in Small(n + 1)
          BY <4>1
        <4>3. h[s \ {x}] = g[s \ {x}] /\ g[s \ {x}] \in Nat
          BY <2>1, <4>2
        <4>4. Amount(x) \in Nat
          BY <1>0, <4>1
        <4>5. Summed(g, s) = Amount(x) + g[s \ {x}] /\ Summed(h, s) = Amount(x) + h[s \ {x}]
          BY <3>2 DEF Summed
        <4> HIDE DEF x, h
        <4> QED  BY <4>3, <4>4, <4>5
      <3> QED  BY <3>1, <3>2
    <2>3. h \in [Small(n + 1) -> Nat] /\ \A s \in Small(n + 1) : h[s] = Summed(h, s)
      BY <2>2
    <2> QED  BY <2>3
  <1>3. Bad = {}
    <2> SUFFICES ASSUME Bad # {} PROVE FALSE
      OBVIOUS
    <2>1. Bad \subseteq Nat
      OBVIOUS
    <2>2. PICK n \in Bad : \A m \in Bad : n <= m
      BY <2>1, LeastNatural
    <2> HIDE DEF Good
    <2>3. n \in Nat \ {0} /\ n - 1 \in Nat /\ n - 1 \notin Bad
      BY <1>1, <2>2
    <2>4. Good(n - 1)
      BY <2>3
    <2>5. Good((n - 1) + 1)
      BY <1>2, <2>3, <2>4
    <2> QED  BY <2>2, <2>3, <2>5
  <1>4. Good(Cardinality(S))
    BY <1>3, <1>a
  <1>5. Small(Cardinality(S)) = SUBSET S
    BY <1>0, <1>a, FS_Subset
  <1> QED  BY <1>4, <1>5 DEF IsSum

\* Sums over the subsets of two sets agree.
LEMMA SumsAgree ==
    ASSUME NEW S, Summable(S), NEW T \in SUBSET S, NEW g, NEW h, IsSum(g, S), IsSum(h, T)
    PROVE  \A s \in SUBSET T : g[s] = h[s]
  <1> DEFINE U == {s \in SUBSET T : g[s] # h[s]}
  <1> SUFFICES ASSUME U # {} PROVE FALSE
    OBVIOUS
  <1>0. IsFiniteSet(S)
    BY DEF Summable
  <1>1. PICK s \in U : \A t \in U : Cardinality(s) <= Cardinality(t)
    <2>1. U \in SUBSET (SUBSET S)
      OBVIOUS
    <2> HIDE DEF U
    <2> QED  BY <1>0, <2>1, Smallest
  <1>2. g[s] = Summed(g, s) /\ h[s] = Summed(h, s)
    <2>1. s \in SUBSET T /\ s \in SUBSET S
      BY <1>1
    <2> QED  BY <2>1 DEF IsSum
  <1>3. s # {}
    BY <1>1, <1>2 DEF Summed
  <1> DEFINE x == CHOOSE y \in s : TRUE
  <1>4. /\ x \in s /\ s \ {x} \in SUBSET S
        /\ Cardinality(s) \in Nat /\ Cardinality(s \ {x}) \in Nat
        /\ Cardinality(s \ {x}) = Cardinality(s) - 1
    BY <1>0, <1>3, ChosenTaken
  <1>5. s \ {x} \notin U
    BY <1>1, <1>4
  <1>6. g[s \ {x}] = h[s \ {x}]
    BY <1>1, <1>5
  <1> QED  BY <1>1, <1>2, <1>3, <1>6 DEF Summed

LEMMA TotalFacts ==
    ASSUME NEW S, Summable(S), NEW s \in SUBSET S
    PROVE  /\ Total(s) \in Nat
           /\ s # {} => LET x == CHOOSE y \in s : TRUE IN Total(s) = Amount(x) + Total(s \ {x})
  <1>1. PICK g \in [SUBSET S -> Nat] : IsSum(g, S)
    BY SumExists
  <1>2. ASSUME NEW t \in SUBSET S PROVE g[t] = Total(t)
    <2>1. Summable(t)
      BY FS_Subset DEF Summable
    <2>2. \E h : IsSum(h, t)
      BY <2>1, SumExists
    <2> DEFINE h == CHOOSE f : IsSum(f, t)
    <2>3. IsSum(h, t)
      BY <2>2
    <2>4. Total(t) = h[t]
      BY TotalIsSum
    <2> HIDE DEF h
    <2> QED  BY <1>1, <2>3, <2>4, SumsAgree
  <1>3. g[s] = Summed(g, s)
    BY <1>1 DEF IsSum
  <1>4. Total(s) = Summed(g, s) /\ Total(s) \in Nat
    BY <1>1, <1>2, <1>3
  <1>5. ASSUME s # {}
        PROVE  LET x == CHOOSE y \in s : TRUE IN Total(s) = Amount(x) + Total(s \ {x})
    <2> DEFINE x == CHOOSE y \in s : TRUE
    <2>1. Summed(g, s) = Amount(x) + g[s \ {x}]
      BY <1>5 DEF Summed
    <2>2. g[s \ {x}] = Total(s \ {x})
      BY <1>2
    <2> QED  BY <1>4, <2>1, <2>2
  <1> QED  BY <1>4, <1>5

\* Any element may be taken out of a sum.
LEMMA TotalRemove ==
    ASSUME NEW S, Summable(S), NEW s \in SUBSET S, NEW x \in s
    PROVE  Total(s) = Amount(x) + Total(s \ {x})
  <1> DEFINE U == {t \in SUBSET S : \E y \in t : Total(t) # Amount(y) + Total(t \ {y})}
  <1> SUFFICES ASSUME U # {} PROVE FALSE
    OBVIOUS
  <1>0. IsFiniteSet(S) /\ \A k \in S : Amount(k) \in Nat
    BY DEF Summable
  <1>1. PICK t \in U : \A r \in U : Cardinality(t) <= Cardinality(r)
    <2>1. U \in SUBSET (SUBSET S)
      OBVIOUS
    <2> HIDE DEF U
    <2> QED  BY <1>0, <2>1, Smallest
  <1>2. PICK y \in t : Total(t) # Amount(y) + Total(t \ {y})
    BY <1>1
  <1> DEFINE c == CHOOSE z \in t : TRUE
  <1>3. t \in SUBSET S /\ t # {} /\ c \in t
    BY <1>1, <1>2
  <1>4. Total(t) = Amount(c) + Total(t \ {c})
    BY <1>3, TotalFacts
  <1> HIDE DEF c
  <1>5. y # c
    BY <1>2, <1>4
  <1>6. ASSUME NEW z \in t, NEW w \in t, w # z
        PROVE  Total(t \ {z}) = Amount(w) + Total((t \ {z}) \ {w})
    <2>1. t \ {z} \in SUBSET S
      BY <1>3
    <2>2. Cardinality(t \ {z}) < Cardinality(t)
      <3>1. IsFiniteSet(t)
        BY <1>0, <1>3, FS_Subset
      <3>2. Cardinality(t) \in Nat /\ Cardinality(t \ {z}) = Cardinality(t) - 1
        BY <3>1, FS_RemoveElement, FS_CardinalityType
      <3> QED  BY <3>2
    <2>3. t \ {z} \notin U
      <3>1. Cardinality(t) \in Nat /\ Cardinality(t \ {z}) \in Nat
        BY <1>0, <1>3, <2>1, FS_Subset, FS_CardinalityType
      <3> HIDE DEF U
      <3> QED  BY <1>1, <2>2, <3>1
    <2> QED  BY <1>6, <2>1, <2>3
  <1>7. Total(t \ {c}) = Amount(y) + Total((t \ {c}) \ {y})
    BY <1>3, <1>5, <1>6
  <1>8. Total(t \ {y}) = Amount(c) + Total((t \ {y}) \ {c})
    BY <1>3, <1>5, <1>6
  <1>9. (t \ {c}) \ {y} = (t \ {y}) \ {c}
    OBVIOUS
  <1>10. /\ Amount(c) \in Nat /\ Amount(y) \in Nat
         /\ Total((t \ {y}) \ {c}) \in Nat
    BY <1>0, <1>3, TotalFacts
  <1> QED  BY <1>2, <1>4, <1>7, <1>8, <1>9, <1>10

\* A sum of amounts grows with its set.
LEMMA TotalMonotone ==
    ASSUME NEW S, Summable(S), NEW s \in SUBSET S
    PROVE  Total(s) <= Total(S)
  <1> DEFINE U == {t \in SUBSET S : s \subseteq t /\ ~(Total(s) <= Total(t))}
  <1> SUFFICES ASSUME U # {} PROVE FALSE
    OBVIOUS
  <1>0. IsFiniteSet(S) /\ \A k \in S : Amount(k) \in Nat
    BY DEF Summable
  <1>1. PICK t \in U : \A r \in U : Cardinality(t) <= Cardinality(r)
    <2>1. U \in SUBSET (SUBSET S)
      OBVIOUS
    <2> HIDE DEF U
    <2> QED  BY <1>0, <2>1, Smallest
  <1>2. t \in SUBSET S /\ s \subseteq t /\ ~(Total(s) <= Total(t))
    BY <1>1
  <1>3. \A r \in SUBSET S : Total(r) \in Nat
    BY TotalFacts
  <1>4. PICK x \in t : x \notin s
    BY <1>2, <1>3
  <1>5. Total(t) = Amount(x) + Total(t \ {x})
    BY <1>2, TotalRemove
  <1>6. Cardinality(t \ {x}) < Cardinality(t) /\ Cardinality(t \ {x}) \in Nat /\ Cardinality(t) \in Nat
    <2>1. IsFiniteSet(t)
      BY <1>0, <1>2, FS_Subset
    <2>2. Cardinality(t) \in Nat /\ Cardinality(t \ {x}) = Cardinality(t) - 1 /\ IsFiniteSet(t \ {x})
      BY <2>1, FS_RemoveElement, FS_CardinalityType
    <2> QED  BY <2>2, FS_CardinalityType
  <1>7. t \ {x} \notin U
    <2> HIDE DEF U
    <2> QED  BY <1>1, <1>6
  <1>8. Total(s) <= Total(t \ {x})
    BY <1>2, <1>4, <1>7
  <1>9. Amount(x) \in Nat /\ Total(t \ {x}) \in Nat /\ Total(s) \in Nat
    BY <1>0, <1>2, <1>3
  <1> QED  BY <1>2, <1>5, <1>8, <1>9

-----------------------------------------------------------------------------
\* ContractSplitting: each anchor whose window is full leaves its orders in a group
\* that covers the window, and a group begins at such an anchor.

\* An order that begins a splitting group or is merged into one.
Full(k) == Cardinality(Followers(k) \cup {k}) >= MinOrders

\* The orders whose iteration is over.
Passed == {sorted[b] : b \in 1 .. anchor - 1}

Arranged == sorted \in Arrangements(Below)

\* There is something to slide over from the filter on, unless too few orders are
\* below the threshold.
Arrangement ==
    \/ /\ phase # "sliding"
       /\ phase = "done" => Cardinality(Below) < MinOrders
       /\ sorted = <<>> /\ windows = <<>>
    \/ /\ phase # "filtering"
       /\ Arranged
       /\ phase = "done" => /\ anchor > Len(sorted)
                         /\ reported = {g \in {windows[j] : j \in DOMAIN windows} : Reportable(g)}

\* In what follows ws are groups and P the orders that were passed.
Disjoint(ws) == \A a, b \in DOMAIN ws : a < b => ws[a].end < ws[b].start

\* A group begins at an order that was passed, and holds its window at least.
Started(ws, P) ==
    \A j \in DOMAIN ws :
        \E k \in P :
            /\ Full(k)
            /\ ws[j].start = Date(k)
            /\ Date(k) + WindowDays <= ws[j].end

\* A full window that was passed lies in a group.
FullIsGrouped(ws, P) ==
    \A k \in P :
        Full(k) => \E j \in DOMAIN ws :
                       /\ ws[j].start <= Date(k)
                       /\ Date(k) + WindowDays <= ws[j].end
                       /\ Followers(k) \cup {k} \subseteq ws[j].members

\* A group holds the orders of its window; on its first day, those that were passed.
HoldsWindow(ws, P) ==
    \A j \in DOMAIN ws : \A k \in Below :
        /\ ws[j].start <= Date(k) /\ Date(k) <= ws[j].end
        /\ ws[j].start < Date(k) \/ k \in P
        => k \in ws[j].members

\* Every order of a group is in a full window within that of the group.
OnlyFull(ws) ==
    \A j \in DOMAIN ws : \A k \in ws[j].members :
        \E l \in Below :
            /\ Full(l)
            /\ k \in Followers(l) \cup {l}
            /\ ws[j].start <= Date(l) /\ Date(l) + WindowDays <= ws[j].end

Groups(ws, P) ==
    /\ ws \in Seq(GroupType)
    /\ Disjoint(ws)
    /\ Started(ws, P)
    /\ FullIsGrouped(ws, P)
    /\ HoldsWindow(ws, P)
    /\ OnlyFull(ws)

SplittingInv ==
    /\ SplittingTypeOK
    /\ Arrangement
    /\ Groups(windows, Passed)

LEMMA OrdersFacts ==
    ASSUME SplittingTypeOK
    PROVE  /\ IsFiniteSet(Below)
           /\ Below \subseteq Nat
           /\ \A k \in Below : Date(k) \in Nat /\ Amount(k) \in Nat /\ Amount(k) < Threshold
           /\ Threshold \in Nat /\ WindowDays \in Nat /\ MinOrders \in Nat /\ MinOrders >= 1
  <1> DEFINE Orders == Order
  <1>1. orders \in Seq(Orders)
    BY DEF SplittingTypeOK
  <1>2. /\ Len(orders) \in Nat /\ DOMAIN orders = 1 .. Len(orders)
        /\ \A k \in 1 .. Len(orders) : orders[k] \in Orders
    <2> HIDE DEF Orders
    <2> QED  BY <1>1
  <1>4. IsFiniteSet(1 .. Len(orders))
    BY <1>2, FS_Interval
  <1>5. Below \subseteq 1 .. Len(orders)
    BY <1>2 DEF Below
  <1>6. IsFiniteSet(Below)
    BY <1>4, <1>5, FS_Subset
  <1>7. \A k \in Below : Date(k) \in Nat /\ Amount(k) \in Nat
    BY <1>2, <1>5 DEF Date, Amount, Order
  <1> QED  BY <1>2, <1>5, <1>6, <1>7, ContractSplittingAssumption DEF Below

\* Every set of orders below the threshold can be counted and summed up.
LEMMA BelowSets ==
    ASSUME SplittingTypeOK, NEW S \in SUBSET Below
    PROVE  IsFiniteSet(S) /\ Cardinality(S) \in Nat /\ Summable(S)
  BY OrdersFacts, FS_Subset, FS_CardinalityType DEF Summable

LEMMA GrowingCount ==
    ASSUME SplittingTypeOK, NEW S \in SUBSET Below, NEW T \in SUBSET S
    PROVE  Cardinality(T) <= Cardinality(S) /\ Total(T) <= Total(S)
  BY BelowSets, FS_Subset, TotalMonotone

LEMMA FollowersFacts ==
    ASSUME SplittingTypeOK, NEW k \in Below
    PROVE  /\ Followers(k) \subseteq Below
           /\ Followers(k) \cup {k} \subseteq Below
           /\ Cardinality(Followers(k)) \in Nat
           /\ Cardinality(Followers(k) \cup {k}) = Cardinality(Followers(k)) + 1
  <1>1. Followers(k) \subseteq Below
    BY DEF Followers
  <1>2. k \notin Followers(k)
    BY OrdersFacts DEF Followers
  <1>3. IsFiniteSet(Followers(k)) /\ Cardinality(Followers(k)) \in Nat
    BY <1>1, BelowSets
  <1> QED  BY <1>1, <1>2, <1>3, FS_AddElement

\* Orders of one day begin windows of one size.
LEMMA SameDayFull ==
    ASSUME SplittingTypeOK, NEW k \in Below, NEW l \in Below, Date(k) = Date(l)
    PROVE  Full(k) <=> Full(l)
  <1>1. Followers(k) = Followers(l)
    BY DEF Followers
  <1>2. Cardinality(Followers(k) \cup {k}) = Cardinality(Followers(l) \cup {l})
    BY <1>1, FollowersFacts
  <1> QED  BY <1>2 DEF Full

-----------------------------------------------------------------------------
\* The sorted orders.

\* An arrangement lists every order below the threshold once, by date.
LEMMA ArrangedFacts ==
    ASSUME SplittingTypeOK, Arranged
    PROVE  /\ Len(sorted) \in Nat /\ Len(sorted) = Cardinality(Below)
           /\ DOMAIN sorted = 1 .. Len(sorted)
           /\ \A b \in 1 .. Len(sorted) : sorted[b] \in Below
           /\ \A b, c \in 1 .. Len(sorted) : b < c => Before(sorted[b], sorted[c])
           /\ \A k \in Below : \E b \in 1 .. Len(sorted) : sorted[b] = k
  <1> DEFINE n == Cardinality(Below)
  <1>1. IsFiniteSet(Below) /\ n \in Nat
    BY BelowSets
  <1>2. sorted \in [1 .. n -> Below] /\ \A b, c \in 1 .. n : b < c => Before(sorted[b], sorted[c])
    BY DEF Arranged, Arrangements
  <1>3. sorted \in Seq(Below) /\ Len(sorted) = n /\ DOMAIN sorted = 1 .. n
    <2>1. sorted \in Seq(Below)
      BY DEF SplittingTypeOK
    <2>2. Len(sorted) \in Nat /\ DOMAIN sorted = 1 .. Len(sorted)
      BY <2>1
    <2>3. DOMAIN sorted = 1 .. n
      BY <1>2
    <2> HIDE DEF n
    <2>4. \A m \in Nat : Cardinality(1 .. m) = m
      BY FS_Interval
    <2>5. Len(sorted) = n
      BY <1>1, <2>2, <2>3, <2>4
    <2> QED  BY <2>1, <2>3, <2>5
  <1>4. ASSUME NEW b \in 1 .. n, NEW c \in 1 .. n, sorted[b] = sorted[c]
        PROVE  b = c
    <2>1. sorted[b] \in Below /\ Date(sorted[b]) \in Nat /\ sorted[b] \in Nat
      BY <1>2, OrdersFacts
    <2>2. ~Before(sorted[b], sorted[b])
      BY <2>1 DEF Before
    <2>3. ~(b < c) /\ ~(c < b)
      BY <1>2, <1>4, <2>2
    <2> QED  BY <1>1, <2>3
  <1>5. sorted \in Injection(1 .. n, Below)
    BY <1>2, <1>4 DEF Injection, IsInjective
  <1>6. IsFiniteSet(1 .. n) /\ Cardinality(1 .. n) = n
    BY <1>1, FS_Interval
  <1>7. sorted \in Surjection(1 .. n, Below)
    <2>1. Cardinality(1 .. n) = Cardinality(Below)
      BY <1>6
    <2> HIDE DEF n
    <2> QED  BY <1>1, <1>5, <2>1, FS_Injection
  <1>8. \A k \in Below : \E b \in 1 .. n : sorted[b] = k
    BY <1>7 DEF Surjection
  <1> QED  BY <1>1, <1>2, <1>3, <1>8

\* The window of an anchor is the anchor and the orders that follow it.
LEMMA WindowIs ==
    ASSUME SplittingTypeOK, Arranged, NEW a \in 1 .. Len(sorted)
    PROVE  Window(a) = Followers(sorted[a]) \cup {sorted[a]}
  <1>1. Len(sorted) \in Nat
    BY ArrangedFacts
  <1>2. sorted[a] \in Below /\ Amount(sorted[a]) < Threshold
    BY ArrangedFacts, OrdersFacts
  <1> DEFINE F == {sorted[b] : b \in {c \in a + 1 .. Len(sorted) :
                      Date(sorted[a]) < Date(sorted[c])
                      /\ Date(sorted[c]) <= Date(sorted[a]) + WindowDays}}
  <1>3. Window(a) = F \cup {sorted[a]}
    BY <1>2 DEF Window
  <1>4. F \subseteq Followers(sorted[a])
    <2>1. ASSUME NEW c \in a + 1 .. Len(sorted) PROVE sorted[c] \in Below
      BY <1>1, ArrangedFacts
    <2> QED  BY <2>1 DEF Followers
  <1>5. ASSUME NEW l \in Followers(sorted[a]) PROVE l \in F
    <2>1. l \in Below /\ Date(sorted[a]) < Date(l) /\ Date(l) <= Date(sorted[a]) + WindowDays
      BY DEF Followers
    <2>2. PICK b \in 1 .. Len(sorted) : sorted[b] = l
      BY <2>1, ArrangedFacts
    <2>3. Date(l) \in Nat /\ Date(sorted[a]) \in Nat
      BY <1>2, <2>1, OrdersFacts
    <2>4. b # a
      BY <2>1, <2>2, <2>3
    <2>5. ~(b < a)
      <3> SUFFICES ASSUME b < a PROVE FALSE
        OBVIOUS
      <3>1. Before(l, sorted[a])
        BY <2>2, ArrangedFacts
      <3> QED  BY <2>1, <2>3, <3>1 DEF Before
    <2>6. b \in a + 1 .. Len(sorted)
      BY <1>1, <2>4, <2>5
    <2> QED  BY <2>1, <2>2, <2>6
  <1> QED  BY <1>3, <1>4, <1>5

\* What was passed comes no later than the anchor.
LEMMA PassedFacts ==
    ASSUME SplittingTypeOK, Arranged
    PROVE  /\ Passed \subseteq Below
           /\ anchor \in Nat \ {0}
           /\ anchor <= Len(sorted) =>
                 /\ sorted[anchor] \in Below
                 /\ \A k \in Passed : Date(k) <= Date(sorted[anchor])
           /\ anchor > Len(sorted) => Passed = Below
  <1>1. Len(sorted) \in Nat /\ anchor \in 1 .. Len(sorted) + 1
    BY ArrangedFacts DEF SplittingTypeOK
  <1>2. \A b \in 1 .. anchor - 1 : b \in 1 .. Len(sorted)
    BY <1>1
  <1>3. Passed \subseteq Below
    BY <1>2, ArrangedFacts DEF Passed
  <1>4. ASSUME anchor <= Len(sorted)
        PROVE  /\ sorted[anchor] \in Below
               /\ \A k \in Passed : Date(k) <= Date(sorted[anchor])
    <2>1. anchor \in 1 .. Len(sorted) /\ sorted[anchor] \in Below
      BY <1>1, <1>4, ArrangedFacts
    <2>2. ASSUME NEW b \in 1 .. anchor - 1
          PROVE  Date(sorted[b]) <= Date(sorted[anchor])
      <3>1. b \in 1 .. Len(sorted) /\ b < anchor
        BY <1>1
      <3>2. Before(sorted[b], sorted[anchor]) /\ sorted[b] \in Below
        BY <2>1, <3>1, ArrangedFacts
      <3>3. Date(sorted[b]) \in Nat /\ Date(sorted[anchor]) \in Nat
        BY <2>1, <3>2, OrdersFacts
      <3> QED  BY <3>2, <3>3 DEF Before
    <2> QED  BY <2>1, <2>2 DEF Passed
  <1>5. ASSUME anchor > Len(sorted) PROVE Below \subseteq Passed
    <2>1. 1 .. Len(sorted) = 1 .. anchor - 1
      BY <1>1, <1>5
    <2> QED  BY <2>1, ArrangedFacts DEF Passed
  <1>6. anchor > Len(sorted) => Passed = Below
    BY <1>3, <1>5
  <1>7. anchor \in Nat \ {0}
    BY <1>1
  <1> QED  BY <1>3, <1>4, <1>6, <1>7

-----------------------------------------------------------------------------
\* The groups: one more order is passed.

\* The group that _create_group makes at order k.
IsGroupOf(h, k) ==
    /\ h \in GroupType
    /\ h.start = Date(k) /\ h.end = Date(k) + WindowDays
    /\ h.members = Followers(k) \cup {k}

LEMMA SeqFacts ==
    ASSUME NEW ws \in Seq(GroupType)
    PROVE  /\ Len(ws) \in Nat /\ DOMAIN ws = 1 .. Len(ws)
           /\ \A j \in DOMAIN ws :
                 /\ ws[j] \in GroupType
                 /\ ws[j].start \in Nat /\ ws[j].end \in Nat /\ ws[j].members \subseteq Below
  <1>1. /\ Len(ws) \in Nat /\ DOMAIN ws = 1 .. Len(ws)
        /\ \A j \in DOMAIN ws : ws[j] \in GroupType
    OBVIOUS
  <1> QED  BY <1>1 DEF GroupType

LEMMA StepNotFull ==
    ASSUME SplittingTypeOK, NEW ws, NEW P \in SUBSET Below, NEW k \in Below,
           Groups(ws, P), \A l \in P : Date(l) <= Date(k), ~Full(k)
    PROVE  Groups(ws, P \cup {k})
  <1> USE DEF Groups
  <1>1. Started(ws, P \cup {k})
    BY DEF Started
  <1>2. FullIsGrouped(ws, P \cup {k})
    BY DEF FullIsGrouped
  <1>3. HoldsWindow(ws, P \cup {k})
    <2> SUFFICES ASSUME NEW j \in DOMAIN ws, ws[j].start = Date(k)
                 PROVE  FALSE
      BY OrdersFacts, SeqFacts DEF HoldsWindow
    <2>1. PICK l \in P : Full(l) /\ Date(l) = Date(k)
      BY DEF Started
    <2> QED  BY <2>1, SameDayFull
  <1> QED  BY <1>1, <1>2, <1>3

LEMMA StepAppend ==
    ASSUME SplittingTypeOK, NEW ws, NEW P \in SUBSET Below, NEW k \in Below, NEW h,
           Groups(ws, P), \A l \in P : Date(l) <= Date(k), Full(k), IsGroupOf(h, k),
           \A j \in DOMAIN ws : ~Overlaps(ws[j], h)
    PROVE  Groups(Append(ws, h), P \cup {k})
  <1> DEFINE n == Len(ws)
             vs == Append(ws, h)
  <1>0. ws \in Seq(GroupType) /\ h \in GroupType
    BY DEF Groups, IsGroupOf
  <1>1. /\ n \in Nat /\ DOMAIN ws = 1 .. n
        /\ \A j \in DOMAIN ws :
              ws[j].start \in Nat /\ ws[j].end \in Nat /\ ws[j].members \subseteq Below
    BY <1>0, SeqFacts
  <1>2. /\ vs \in Seq(GroupType) /\ DOMAIN vs = 1 .. n + 1
        /\ vs[n + 1] = h /\ \A j \in 1 .. n : vs[j] = ws[j]
    BY <1>0
  <1> HIDE DEF vs, n
  <1>3. /\ Date(k) \in Nat /\ WindowDays \in Nat /\ \A l \in Below : Date(l) \in Nat
        /\ h.start = Date(k) /\ h.end = Date(k) + WindowDays
        /\ h.members = Followers(k) \cup {k}
    BY OrdersFacts DEF IsGroupOf
  <1>4. ASSUME NEW j \in 1 .. n PROVE ws[j].end < Date(k)
    <2>1. PICK l \in P : ws[j].start = Date(l) /\ Date(l) <= Date(k)
      BY <1>1 DEF Groups, Started
    <2>2. ~(ws[j].start <= h.end /\ h.start <= ws[j].end)
      BY <1>1 DEF Overlaps
    <2> QED  BY <1>1, <1>3, <2>1, <2>2
  <1>5. \A j \in DOMAIN vs : j = n + 1 \/ j \in 1 .. n
    BY <1>1, <1>2
  <1>6. Disjoint(vs)
    <2> SUFFICES ASSUME NEW a \in DOMAIN vs, NEW b \in DOMAIN vs, a < b
                 PROVE  vs[a].end < vs[b].start
      BY DEF Disjoint
    <2>1. a \in 1 .. n
      BY <1>1, <1>2, <1>5
    <2>2. CASE b \in 1 .. n
      BY <1>1, <1>2, <2>1, <2>2 DEF Groups, Disjoint
    <2>3. CASE b = n + 1
      BY <1>2, <1>3, <1>4, <2>1, <2>3
    <2> QED  BY <1>5, <2>2, <2>3
  <1>7. Started(vs, P \cup {k})
    <2>1. ASSUME NEW j \in 1 .. n
          PROVE  \E l \in P \cup {k} : /\ Full(l) /\ vs[j].start = Date(l)
                                       /\ Date(l) + WindowDays <= vs[j].end
      BY <1>1, <1>2 DEF Groups, Started
    <2>2. Full(k) /\ vs[n + 1].start = Date(k) /\ Date(k) + WindowDays <= vs[n + 1].end
      BY <1>2, <1>3
    <2> QED  BY <1>5, <2>1, <2>2 DEF Started
  <1>8. FullIsGrouped(vs, P \cup {k})
    <2> SUFFICES ASSUME NEW l \in P \cup {k}, Full(l)
                 PROVE  \E j \in DOMAIN vs : /\ vs[j].start <= Date(l)
                                             /\ Date(l) + WindowDays <= vs[j].end
                                             /\ Followers(l) \cup {l} \subseteq vs[j].members
      BY DEF FullIsGrouped
    <2>1. CASE l \in P
      <3>1. PICK j \in 1 .. n : /\ ws[j].start <= Date(l)
                                /\ Date(l) + WindowDays <= ws[j].end
                                /\ Followers(l) \cup {l} \subseteq ws[j].members
        BY <1>1, <2>1 DEF Groups, FullIsGrouped
      <3>2. j \in DOMAIN vs /\ vs[j] = ws[j]
        BY <1>1, <1>2
      <3> QED  BY <3>1, <3>2
    <2>2. CASE l = k
      <3>1. n + 1 \in DOMAIN vs
        BY <1>1, <1>2
      <3>2. vs[n + 1].start <= Date(l) /\ Date(l) + WindowDays <= vs[n + 1].end
        BY <1>2, <1>3, <2>2
      <3> QED  BY <1>2, <1>3, <2>2, <3>1, <3>2
    <2> QED  BY <2>1, <2>2
  <1>9. HoldsWindow(vs, P \cup {k})
    <2> SUFFICES ASSUME NEW j \in DOMAIN vs, NEW l \in Below,
                        vs[j].start <= Date(l), Date(l) <= vs[j].end,
                        vs[j].start < Date(l) \/ l \in P \cup {k}
                 PROVE  l \in vs[j].members
      BY DEF HoldsWindow
    <2>1. CASE j \in 1 .. n
      <3>1. vs[j] = ws[j] /\ ws[j].end < Date(k) /\ ws[j].end \in Nat
        BY <1>1, <1>2, <1>4, <2>1
      <3>2. l # k
        BY <1>3, <3>1
      <3> QED  BY <1>1, <2>1, <3>1, <3>2 DEF Groups, HoldsWindow
    <2>2. CASE j = n + 1
      <3>1. vs[j] = h
        BY <1>2, <2>2
      <3>2. CASE Date(k) < Date(l)
        BY <1>3, <3>1, <3>2 DEF Followers
      <3>3. CASE Date(k) = Date(l) /\ l # k
        <4>1. l \in P /\ Full(l)
          BY <1>3, <3>1, <3>3, SameDayFull
        <4>2. PICK i \in 1 .. n : Date(l) + WindowDays <= ws[i].end
          BY <1>1, <4>1 DEF Groups, FullIsGrouped
        <4>3. ws[i].end \in Nat /\ ws[i].end < Date(k)
          BY <1>1, <1>4
        <4> QED  BY <1>3, <3>3, <4>2, <4>3
      <3> QED  BY <1>3, <3>1, <3>2, <3>3
    <2> QED  BY <1>5, <2>1, <2>2
  <1>10. OnlyFull(vs)
    <2> SUFFICES ASSUME NEW j \in DOMAIN vs, NEW l \in vs[j].members
                 PROVE  \E m \in Below : /\ Full(m)
                                         /\ l \in Followers(m) \cup {m}
                                         /\ vs[j].start <= Date(m)
                                         /\ Date(m) + WindowDays <= vs[j].end
      BY DEF OnlyFull
    <2>1. CASE j \in 1 .. n
      BY <1>1, <1>2, <2>1 DEF Groups, OnlyFull
    <2>2. CASE j = n + 1
      <3>1. vs[j] = h
        BY <1>2, <2>2
      <3>2. h.start <= Date(k) /\ Date(k) + WindowDays <= h.end
        BY <1>3
      <3> QED  BY <1>3, <3>1, <3>2
    <2> QED  BY <1>5, <2>1, <2>2
  <1> QED  BY <1>2, <1>6, <1>7, <1>8, <1>9, <1>10 DEF Groups, vs

LEMMA PairMinMax ==
    ASSUME NEW a \in Nat, NEW b \in Nat
    PROVE  /\ a <= b => Min({a, b}) = a
           /\ Max({a, b}) \in {a, b} /\ a <= Max({a, b}) /\ b <= Max({a, b})
  <1>1. ASSUME a <= b PROVE Min({a, b}) = a
    <2>1. {a, b} \subseteq Nat /\ {a, b} # {}
      OBVIOUS
    <2>2. Min({a, b}) \in {a, b} /\ \A m \in {a, b} : Min({a, b}) <= m
      BY <2>1, MinIsLeast
    <2> QED  BY <1>1, <2>2
  <1>2. \E x \in {a, b} : \A y \in {a, b} : x >= y
    <2>1. CASE a <= b
      BY <2>1
    <2>2. CASE b <= a
      BY <2>2
    <2> QED  BY <2>1, <2>2
  <1>3. Max({a, b}) \in {a, b} /\ \A y \in {a, b} : Max({a, b}) >= y
    BY <1>2 DEF Max
  <1>4. a <= Max({a, b}) /\ b <= Max({a, b})
    BY <1>3
  <1> QED  BY <1>1, <1>3, <1>4

\* Merging a group with one that begins no earlier keeps its beginning.
LEMMA MergedFacts ==
    ASSUME NEW g \in GroupType, NEW h \in GroupType, g.start <= h.start
    PROVE  LET m == Merged(g, h)
           IN  /\ m \in GroupType
               /\ m.start = g.start /\ m.members = g.members \cup h.members
               /\ m.end \in {g.end, h.end} /\ g.end <= m.end /\ h.end <= m.end
  <1>1. /\ g.start \in Nat /\ h.start \in Nat /\ g.end \in Nat /\ h.end \in Nat
        /\ g.members \subseteq Below /\ h.members \subseteq Below
        /\ g.patterns \subseteq Pattern /\ h.patterns \subseteq Pattern
    BY DEF GroupType
  <1>2. Min({g.start, h.start}) = g.start
    BY <1>1, PairMinMax
  <1>3. /\ Max({g.end, h.end}) \in {g.end, h.end}
        /\ g.end <= Max({g.end, h.end}) /\ h.end <= Max({g.end, h.end})
    BY <1>1, PairMinMax
  <1> QED  BY <1>1, <1>2, <1>3 DEF Merged, GroupType

LEMMA StepMerge ==
    ASSUME SplittingTypeOK, NEW ws, NEW P \in SUBSET Below, NEW k \in Below, NEW h,
           Groups(ws, P), \A l \in P : Date(l) <= Date(k), Full(k), IsGroupOf(h, k),
           NEW m \in DOMAIN ws, Overlaps(ws[m], h),
           \A j \in DOMAIN ws : Overlaps(ws[j], h) => m <= j
    PROVE  Groups([ws EXCEPT ![m] = Merged(ws[m], h)], P \cup {k})
  <1> DEFINE n == Len(ws)
             M == Merged(ws[m], h)
             vs == [ws EXCEPT ![m] = M]
  <1>0. ws \in Seq(GroupType) /\ h \in GroupType
    BY DEF Groups, IsGroupOf
  <1>1. /\ n \in Nat /\ DOMAIN ws = 1 .. n
        /\ \A j \in DOMAIN ws :
              /\ ws[j] \in GroupType
              /\ ws[j].start \in Nat /\ ws[j].end \in Nat /\ ws[j].members \subseteq Below
    BY <1>0, SeqFacts
  <1>2. /\ Date(k) \in Nat /\ WindowDays \in Nat /\ \A l \in Below : Date(l) \in Nat
        /\ h.start = Date(k) /\ h.end = Date(k) + WindowDays
        /\ h.members = Followers(k) \cup {k}
    BY OrdersFacts DEF IsGroupOf
  <1>3. \A j \in 1 .. n : ws[j].start <= Date(k)
    BY <1>1 DEF Groups, Started
  <1>4. Date(k) <= ws[m].end
    BY <1>2 DEF Overlaps
  <1>5. /\ M \in GroupType
        /\ M.start = ws[m].start /\ M.members = ws[m].members \cup h.members
        /\ M.end \in {ws[m].end, h.end} /\ ws[m].end <= M.end /\ h.end <= M.end
    BY <1>0, <1>1, <1>2, <1>3, MergedFacts
  <1> HIDE DEF M
  <1>6. /\ vs \in Seq(GroupType) /\ DOMAIN vs = 1 .. n
        /\ vs[m] = M /\ \A j \in 1 .. n : j # m => vs[j] = ws[j]
    BY <1>0, <1>1, <1>5
  <1> HIDE DEF vs, n
  <1>7. M.end \in Nat /\ M.start \in Nat
    BY <1>1, <1>2, <1>5
  <1>8. \A j \in 1 .. n : j # m => j < m /\ ws[j].end < ws[m].start
    <2> SUFFICES ASSUME NEW j \in 1 .. n, j # m PROVE j < m /\ ws[j].end < ws[m].start
      OBVIOUS
    <2>1. j < m => ws[j].end < ws[m].start
      BY <1>1 DEF Groups, Disjoint
    <2>2. m < j => ws[m].end < ws[j].start
      BY <1>1 DEF Groups, Disjoint
    <2>3. ~(m < j)
      BY <1>1, <1>2, <1>3, <1>4, <2>2
    <2> QED  BY <1>1, <2>1, <2>3
  <1>9. Disjoint(vs)
    BY <1>1, <1>5, <1>6, <1>8 DEF Groups, Disjoint
  <1>10. Started(vs, P \cup {k})
    <2> SUFFICES ASSUME NEW j \in 1 .. n
                 PROVE  \E l \in P \cup {k} : /\ Full(l) /\ vs[j].start = Date(l)
                                              /\ Date(l) + WindowDays <= vs[j].end
      BY <1>6 DEF Started
    <2>1. PICK l \in P : /\ Full(l) /\ ws[j].start = Date(l)
                         /\ Date(l) + WindowDays <= ws[j].end
      BY <1>1 DEF Groups, Started
    <2>2. CASE j = m
      <3>1. l \in Below /\ Date(l) \in Nat /\ ws[m].end \in Nat
        BY <1>1, <1>2
      <3>2. vs[j].start = Date(l) /\ Date(l) + WindowDays <= vs[j].end
        BY <1>2, <1>5, <1>6, <1>7, <2>1, <2>2, <3>1
      <3> QED  BY <2>1, <3>2
    <2>3. CASE j # m
      BY <1>6, <2>1, <2>3
    <2> QED  BY <2>2, <2>3
  <1>11. FullIsGrouped(vs, P \cup {k})
    <2> SUFFICES ASSUME NEW l \in P \cup {k}, Full(l)
                 PROVE  \E j \in DOMAIN vs : /\ vs[j].start <= Date(l)
                                             /\ Date(l) + WindowDays <= vs[j].end
                                             /\ Followers(l) \cup {l} \subseteq vs[j].members
      BY DEF FullIsGrouped
    <2>1. CASE l \in P
      <3>1. PICK j \in 1 .. n : /\ ws[j].start <= Date(l)
                                /\ Date(l) + WindowDays <= ws[j].end
                                /\ Followers(l) \cup {l} \subseteq ws[j].members
        BY <1>1, <2>1 DEF Groups, FullIsGrouped
      <3>2. CASE j = m
        <4>1. Date(l) \in Nat /\ ws[m].end \in Nat
          BY <1>1, <1>2, <2>1
        <4>2. Date(l) + WindowDays <= vs[m].end
          BY <1>2, <1>5, <1>6, <1>7, <3>1, <3>2, <4>1
        <4> QED  BY <1>5, <1>6, <3>1, <3>2, <4>2
      <3>3. CASE j # m
        BY <1>6, <3>1, <3>3
      <3> QED  BY <3>2, <3>3
    <2>2. CASE l = k
      <3>1. m \in DOMAIN vs /\ ws[m].start <= Date(k)
        BY <1>1, <1>3, <1>6
      <3>2. vs[m].start <= Date(l) /\ Date(l) + WindowDays <= vs[m].end
        BY <1>2, <1>5, <1>6, <2>2, <3>1
      <3> QED  BY <1>2, <1>5, <1>6, <2>2, <3>1, <3>2
    <2> QED  BY <2>1, <2>2
  <1>12. HoldsWindow(vs, P \cup {k})
    <2> SUFFICES ASSUME NEW j \in 1 .. n, NEW l \in Below,
                        vs[j].start <= Date(l), Date(l) <= vs[j].end,
                        vs[j].start < Date(l) \/ l \in P \cup {k}
                 PROVE  l \in vs[j].members
      BY <1>6 DEF HoldsWindow
    <2>1. CASE j = m
      <3>1. CASE l = k
        BY <1>2, <1>5, <1>6, <2>1, <3>1
      <3>2. CASE Date(l) <= ws[m].end /\ l # k
        <4>1. l \in ws[m].members
          BY <1>1, <1>5, <1>6, <2>1, <3>2 DEF Groups, HoldsWindow
        <4> QED  BY <1>5, <1>6, <2>1, <4>1
      <3>3. CASE ~(Date(l) <= ws[m].end)
        <4>1. Date(l) \in Nat /\ ws[m].end \in Nat
          BY <1>1, <1>2
        <4>2. Date(k) < Date(l) /\ Date(l) <= Date(k) + WindowDays
          BY <1>2, <1>4, <1>5, <1>6, <1>7, <2>1, <3>3, <4>1
        <4>3. l \in h.members
          BY <1>2, <4>2 DEF Followers
        <4> QED  BY <1>5, <1>6, <2>1, <4>3
      <3> QED  BY <3>1, <3>2, <3>3
    <2>2. CASE j # m
      <3>1. vs[j] = ws[j] /\ ws[j].end < ws[m].start /\ ws[m].start <= Date(k)
        BY <1>1, <1>3, <1>6, <1>8, <2>2
      <3>2. l # k
        <4>1. ws[j].end \in Nat /\ ws[m].start \in Nat
          BY <1>1
        <4> QED  BY <1>2, <3>1, <4>1
      <3> QED  BY <1>1, <3>1, <3>2 DEF Groups, HoldsWindow
    <2> QED  BY <2>1, <2>2
  <1>13. OnlyFull(vs)
    <2> SUFFICES ASSUME NEW j \in 1 .. n, NEW l \in vs[j].members
                 PROVE  \E x \in Below : /\ Full(x)
                                         /\ l \in Followers(x) \cup {x}
                                         /\ vs[j].start <= Date(x)
                                         /\ Date(x) + WindowDays <= vs[j].end
      BY <1>6 DEF OnlyFull
    <2>1. CASE j # m
      BY <1>1, <1>6, <2>1 DEF Groups, OnlyFull
    <2>2. CASE j = m /\ l \in h.members
      <3>1. ws[m].start <= Date(k)
        BY <1>1, <1>3
      <3>2. vs[j].start <= Date(k) /\ Date(k) + WindowDays <= vs[j].end
        BY <1>2, <1>5, <1>6, <2>2, <3>1
      <3> QED  BY <1>2, <2>2, <3>2
    <2>3. CASE j = m /\ l \in ws[m].members
      <3>1. PICK x \in Below : /\ Full(x)
                               /\ l \in Followers(x) \cup {x}
                               /\ ws[m].start <= Date(x)
                               /\ Date(x) + WindowDays <= ws[m].end
        BY <1>1, <2>3 DEF Groups, OnlyFull
      <3>2. Date(x) \in Nat /\ ws[m].end \in Nat
        BY <1>1, <1>2
      <3>3. Date(x) + WindowDays <= vs[j].end
        BY <1>2, <1>5, <1>6, <1>7, <2>3, <3>1, <3>2
      <3> QED  BY <1>5, <1>6, <2>3, <3>1, <3>3
    <2> QED  BY <1>5, <1>6, <2>1, <2>2, <2>3
  <1> QED  BY <1>6, <1>9, <1>10, <1>11, <1>12, <1>13 DEF Groups, vs, M

-----------------------------------------------------------------------------
\* ContractSplitting: the steps.

\* What is said of the orders does not change with them unchanged.
LEMMA SameOrders ==
    ASSUME orders' = orders
    PROVE  /\ Below' = Below /\ GroupType' = GroupType
           /\ \A k : Date(k)' = Date(k) /\ Amount(k)' = Amount(k)
           /\ \A k : Followers(k)' = Followers(k)
           /\ \A k : Full(k)' <=> Full(k)
           /\ Arrangements(Below)' = Arrangements(Below)
  <1>1. \A k : Date(k)' = Date(k) /\ Amount(k)' = Amount(k)
    BY DEF Date, Amount
  <1>2. Below' = Below
    BY <1>1 DEF Below
  <1>3. GroupType' = GroupType
    BY <1>2 DEF GroupType
  <1>4. \A k : Followers(k)' = Followers(k)
    BY <1>1, <1>2 DEF Followers
  <1>5. \A k : Full(k)' <=> Full(k)
    BY <1>4 DEF Full
  <1>6. Arrangements(Below)' = Arrangements(Below)
    BY <1>1, <1>2 DEF Arrangements, Before
  <1> QED  BY <1>1, <1>2, <1>3, <1>4, <1>5, <1>6

LEMMA SameTotals ==
    ASSUME orders' = orders
    PROVE  \A S : Total(S)' = Total(S)
  BY DEF Total, MapThenSumSet, MapThenFoldSet, Amount

LEMMA SameReportable ==
    ASSUME orders' = orders
    PROVE  \A g : Reportable(g)' <=> Reportable(g)
  <1>1. \A k : Suspicious(k)' <=> Suspicious(k)
    BY DEF Suspicious, Amount
  <1>2. \A S : Exceeds(S)' <=> Exceeds(S)
    BY SameTotals DEF Exceeds
  <1> QED  BY <1>1, <1>2 DEF Reportable

LEMMA GroupsMove ==
    ASSUME orders' = orders, Groups(windows', Passed')
    PROVE  Groups(windows, Passed)'
  BY SameOrders DEF Groups, Disjoint, Started, FullIsGrouped, HoldsWindow, OnlyFull

LEMMA NoGroups == Groups(<<>>, {})
  <1>1. <<>> \in Seq(GroupType) /\ DOMAIN <<>> = {}
    OBVIOUS
  <1> QED  BY <1>1 DEF Groups, Disjoint, Started, FullIsGrouped, HoldsWindow, OnlyFull

LEMMA SplittingInitInv == SplittingInit => SplittingInv
  <1> SUFFICES ASSUME SplittingInit PROVE SplittingInv
    OBVIOUS
  <1>1. SplittingTypeOK
    <2>1. orders \in Seq(Order)
      BY ContractSplittingAssumption DEF SplittingInit
    <2>2. <<>> \in Seq(Below) /\ <<>> \in Seq(GroupType) /\ Len(<<>>) = 0
      OBVIOUS
    <2> QED  BY <2>1, <2>2 DEF SplittingInit, SplittingTypeOK
  <1>2. Arrangement
    BY DEF SplittingInit, Arrangement
  <1>3. Passed = {}
    BY DEF SplittingInit, Passed
  <1> QED  BY <1>1, <1>2, <1>3, NoGroups DEF SplittingInit, SplittingInv

LEMMA FilterInv ==
    ASSUME SplittingInv, Filter
    PROVE  SplittingInv'
  <1>0. /\ SplittingTypeOK /\ phase = "filtering" /\ sorted = <<>> /\ windows = <<>>
        /\ orders' = orders /\ anchor' = anchor /\ windows' = windows /\ reported' = reported
    BY DEF SplittingInv, Arrangement, Filter
  <1>1. anchor = 1 /\ Len(sorted) = 0
    <2>1. Len(sorted) = 0
      BY <1>0
    <2> QED  BY <1>0, <2>1 DEF SplittingTypeOK
  <1>2. Passed' = {}
    BY <1>0, <1>1 DEF Passed
  <1>3. Groups(windows, Passed)'
    BY <1>0, <1>2, NoGroups, GroupsMove
  <1>4. \/ phase' = "done" /\ sorted' = sorted /\ Cardinality(Below) < MinOrders
        \/ phase' = "sliding" /\ sorted' \in Arrangements(Below)
    BY DEF Filter
  <1>5. sorted' \in Seq(Below) /\ anchor \in 1 .. Len(sorted') + 1
    <2>1. CASE sorted' = sorted
      BY <1>0, <2>1 DEF SplittingTypeOK
    <2>2. CASE sorted' \in Arrangements(Below)
      <3>1. Cardinality(Below) \in Nat
        BY <1>0, BelowSets
      <3>2. sorted' \in [1 .. Cardinality(Below) -> Below]
        BY <2>2 DEF Arrangements
      <3>3. sorted' \in Seq(Below)
        BY <3>1, <3>2
      <3>4. Len(sorted') \in Nat
        BY <3>3
      <3> QED  BY <1>1, <3>3, <3>4
    <2> QED  BY <1>4, <2>1, <2>2
  <1>6. SplittingTypeOK'
    BY <1>0, <1>4, <1>5, SameOrders DEF SplittingTypeOK
  <1>7. Arrangement'
    BY <1>0, <1>4, SameOrders DEF Arrangement, Arranged
  <1> QED  BY <1>3, <1>6, <1>7 DEF SplittingInv

LEMMA SlideInv ==
    ASSUME SplittingInv, Slide
    PROVE  SplittingInv'
  <1> DEFINE k == sorted[anchor]
             h == CreateGroup(anchor)
  <1>0. /\ SplittingTypeOK /\ phase = "sliding" /\ Arranged /\ Groups(windows, Passed)
        /\ anchor <= Len(sorted) /\ anchor' = anchor + 1
        /\ phase' = phase /\ orders' = orders /\ sorted' = sorted /\ reported' = reported
    BY DEF SplittingInv, Arrangement, Slide
  <1>1. /\ Passed \in SUBSET Below /\ k \in Below /\ \A l \in Passed : Date(l) <= Date(k)
        /\ anchor \in Nat \ {0}
    BY <1>0, PassedFacts
  <1>2. anchor \in 1 .. Len(sorted) /\ Len(sorted) \in Nat
    BY <1>0, <1>1, ArrangedFacts
  <1>3. /\ Window(anchor) = Followers(k) \cup {k}
        /\ Full(k) <=> Cardinality(Window(anchor)) >= MinOrders
    BY <1>0, <1>2, WindowIs DEF Full
  <1>4. IsGroupOf(h, k)
    <2>1. Date(k) \in Nat /\ Date(k) + WindowDays \in Nat
      BY <1>0, <1>1, OrdersFacts
    <2>2. Window(anchor) \subseteq Below /\ Patterns(Window(anchor)) \subseteq Pattern
      BY <1>0, <1>1, <1>3, FollowersFacts DEF Patterns
    <2> QED  BY <1>3, <2>1, <2>2 DEF IsGroupOf, CreateGroup, GroupType
  <1>5. Passed' = Passed \cup {k}
    <2>1. 1 .. (anchor + 1) - 1 = (1 .. anchor - 1) \cup {anchor}
      BY <1>1
    <2> QED  BY <1>0, <2>1 DEF Passed
  <1>6. windows \in Seq(GroupType) /\ DOMAIN windows \subseteq Nat
    BY <1>0, SeqFacts DEF Groups
  <1> HIDE DEF k, h
  <1>7. Groups(windows', Passed \cup {k})
    <2>1. CASE ~Full(k)
      <3>1. windows' = windows
        <4>1. Cardinality(Window(anchor)) < MinOrders
          <5>1. Window(anchor) \in SUBSET Below
            BY <1>0, <1>1, <1>3, FollowersFacts
          <5>2. Cardinality(Window(anchor)) \in Nat /\ MinOrders \in Nat
            BY <1>0, <5>1, BelowSets, OrdersFacts
          <5> QED  BY <1>3, <2>1, <5>2
        <4> QED  BY <4>1 DEF Slide
      <3> QED  BY <1>0, <1>1, <2>1, <3>1, StepNotFull
    <2>2. CASE Full(k)
      <3>0. ~(Cardinality(Window(anchor)) < MinOrders)
        <4>1. Window(anchor) \in SUBSET Below
          BY <1>0, <1>1, <1>3, FollowersFacts
        <4>2. Cardinality(Window(anchor)) \in Nat /\ MinOrders \in Nat
          BY <1>0, <4>1, BelowSets, OrdersFacts
        <4> QED  BY <1>3, <2>2, <4>2
      <3>1. CASE Met(h) = {}
        <4>1. windows' = Append(windows, h)
          BY <3>0, <3>1 DEF Slide, h
        <4>2. \A j \in DOMAIN windows : ~Overlaps(windows[j], h)
          BY <3>1 DEF Met
        <4> QED  BY <1>0, <1>1, <1>4, <2>2, <4>1, <4>2, StepAppend
      <3>2. CASE Met(h) # {}
        <4> DEFINE m == Min(Met(h))
        <4>1. windows' = [windows EXCEPT ![m] = Merged(windows[m], h)]
          BY <3>0, <3>2 DEF Slide, h
        <4>2. Met(h) \subseteq Nat
          BY <1>6 DEF Met
        <4>3. m \in Met(h) /\ \A j \in Met(h) : m <= j
          BY <3>2, <4>2, MinIsLeast
        <4> HIDE DEF m
        <4>4. /\ m \in DOMAIN windows /\ Overlaps(windows[m], h)
              /\ \A j \in DOMAIN windows : Overlaps(windows[j], h) => m <= j
          BY <4>3 DEF Met
        <4> QED  BY <1>0, <1>1, <1>4, <2>2, <4>1, <4>4, StepMerge
      <3> QED  BY <3>1, <3>2
    <2> QED  BY <2>1, <2>2
  <1>8. Groups(windows, Passed)'
    BY <1>0, <1>5, <1>7, GroupsMove
  <1>9. SplittingTypeOK'
    <2>1. anchor + 1 \in 1 .. Len(sorted) + 1
      BY <1>2
    <2>2. windows' \in Seq(GroupType)
      BY <1>7 DEF Groups
    <2> QED  BY <1>0, <2>1, <2>2, SameOrders DEF SplittingTypeOK
  <1>10. Arrangement'
    BY <1>0, SameOrders DEF Arrangement, Arranged
  <1> QED  BY <1>8, <1>9, <1>10 DEF SplittingInv

LEMMA ReportInv ==
    ASSUME SplittingInv, Report
    PROVE  SplittingInv'
  <1>0. /\ SplittingTypeOK /\ phase = "sliding" /\ Arranged /\ Groups(windows, Passed)
        /\ anchor > Len(sorted) /\ phase' = "done"
        /\ orders' = orders /\ sorted' = sorted /\ anchor' = anchor /\ windows' = windows
        /\ reported' = {g \in {windows[j] : j \in DOMAIN windows} : Reportable(g)}
    BY DEF SplittingInv, Arrangement, Report
  <1>1. Passed' = Passed
    BY <1>0 DEF Passed
  <1>2. Groups(windows, Passed)'
    BY <1>0, <1>1, GroupsMove
  <1>3. reported' \subseteq GroupType
    BY <1>0, SeqFacts DEF Groups
  <1>4. SplittingTypeOK'
    BY <1>0, <1>3, SameOrders DEF SplittingTypeOK
  <1>5. Arrangement'
    BY <1>0, SameOrders, SameReportable DEF Arrangement, Arranged
  <1> QED  BY <1>2, <1>4, <1>5 DEF SplittingInv

LEMMA SplittingNextInv == SplittingInv /\ [SplittingNext]_splittingVars => SplittingInv'
  <1> SUFFICES ASSUME SplittingInv, [SplittingNext]_splittingVars PROVE SplittingInv'
    OBVIOUS
  <1>1. CASE UNCHANGED splittingVars
    <2>1. /\ phase' = phase /\ orders' = orders /\ sorted' = sorted /\ anchor' = anchor
          /\ windows' = windows /\ reported' = reported
      BY <1>1 DEF splittingVars
    <2>2. Passed' = Passed
      BY <2>1 DEF Passed
    <2>3. Groups(windows, Passed)'
      BY <2>1, <2>2, GroupsMove DEF SplittingInv
    <2>4. SplittingTypeOK'
      BY <2>1, SameOrders DEF SplittingTypeOK, SplittingInv
    <2>5. Arrangement'
      BY <2>1, SameOrders, SameReportable DEF Arrangement, Arranged, SplittingInv
    <2> QED  BY <2>3, <2>4, <2>5 DEF SplittingInv
  <1> QED  BY <1>1, FilterInv, SlideInv, ReportInv DEF SplittingNext

-----------------------------------------------------------------------------
\* ContractSplitting: theorems.

LEMMA SplittingInvHolds == SplittingSpec => []SplittingInv
  <1> QED  BY SplittingInitInv, SplittingNextInv, PTL DEF SplittingSpec

\* The analysis keeps its types for any purchase orders, threshold, window and minimum.
THEOREM SplittingTypes == SplittingSpec => []SplittingTypeOK
  <1>1. SplittingInv => SplittingTypeOK
    BY DEF SplittingInv
  <1> QED  BY <1>1, SplittingInvHolds, PTL

\* The groups never overlap in time and end as exactly the orders of their windows.
THEOREM SplittingGroupsAreWindows == SplittingSpec => []GroupsAreWindows
  <1>1. SplittingInv => GroupsAreWindows
    <2> SUFFICES ASSUME SplittingInv PROVE GroupsAreWindows
      OBVIOUS
    <2>0. SplittingTypeOK /\ Groups(windows, Passed) /\ Arrangement
      BY DEF SplittingInv
    <2>1. WindowsAreDisjoint
      BY <2>0 DEF Groups, Disjoint, WindowsAreDisjoint
    <2>2. GroupIsItsWindow
      <3> SUFFICES ASSUME anchor > Len(sorted), NEW j \in DOMAIN windows
                   PROVE  windows[j].members =
                             {k \in Below : windows[j].start <= Date(k)
                                            /\ Date(k) <= windows[j].end}
        BY DEF GroupIsItsWindow
      <3>1. Arranged /\ Passed = Below
        <4>1. windows # <<>>
          OBVIOUS
        <4>2. Arranged
          BY <2>0, <4>1 DEF Arrangement
        <4> QED  BY <2>0, <4>2, PassedFacts
      <3>2. /\ windows[j].start \in Nat /\ windows[j].end \in Nat
            /\ windows[j].members \subseteq Below
        BY <2>0, SeqFacts DEF Groups
      <3>3. ASSUME NEW k \in windows[j].members
            PROVE  windows[j].start <= Date(k) /\ Date(k) <= windows[j].end
        <4>1. PICK l \in Below : /\ k \in Followers(l) \cup {l}
                                 /\ windows[j].start <= Date(l)
                                 /\ Date(l) + WindowDays <= windows[j].end
          BY <2>0 DEF Groups, OnlyFull
        <4>2. Date(l) \in Nat /\ Date(k) \in Nat /\ WindowDays \in Nat
          BY <2>0, <3>2, OrdersFacts
        <4>3. Date(l) <= Date(k) /\ Date(k) <= Date(l) + WindowDays
          BY <4>1, <4>2 DEF Followers
        <4> QED  BY <3>2, <4>1, <4>2, <4>3
      <3>4. ASSUME NEW k \in Below, windows[j].start <= Date(k), Date(k) <= windows[j].end
            PROVE  k \in windows[j].members
        BY <2>0, <3>1, <3>4 DEF Groups, HoldsWindow
      <3> QED  BY <3>2, <3>3, <3>4
    <2> QED  BY <2>1, <2>2 DEF GroupsAreWindows
  <1> QED  BY <1>1, SplittingInvHolds, PTL

\* Every full window is in one group and, if its total exceeds the threshold, reported;
\* a group consists of full windows.
THEOREM SplittingSplitsAreGrouped == SplittingSpec => []SplitsAreGrouped
  <1>1. SplittingInv => SplitsAreGrouped
    <2> SUFFICES ASSUME SplittingInv PROVE SplitsAreGrouped
      OBVIOUS
    <2>0. SplittingTypeOK /\ Groups(windows, Passed) /\ Arrangement
      BY DEF SplittingInv
    <2>1. NothingElseIsGrouped
      BY <2>0 DEF NothingElseIsGrouped, Groups, OnlyFull, Full
    <2>2. SplitsAreReported
      <3> SUFFICES ASSUME phase = "done", NEW k \in Below, Full(k)
                   PROVE  \E j \in DOMAIN windows :
                             /\ Followers(k) \cup {k} \subseteq windows[j].members
                             /\ Exceeds(Followers(k) \cup {k}) => windows[j] \in reported
        BY DEF SplitsAreReported, Full
      <3>1. Followers(k) \cup {k} \in SUBSET Below
        BY <2>0, FollowersFacts
      <3>2. Cardinality(Below) >= MinOrders
        <4>1. Cardinality(Followers(k) \cup {k}) <= Cardinality(Below)
          BY <2>0, <3>1, GrowingCount
        <4>2. /\ Cardinality(Followers(k) \cup {k}) \in Nat /\ Cardinality(Below) \in Nat
              /\ MinOrders \in Nat
          BY <2>0, <3>1, BelowSets, OrdersFacts
        <4> QED  BY <4>1, <4>2 DEF Full
      <3>3. /\ Arranged /\ anchor > Len(sorted)
            /\ reported = {g \in {windows[j] : j \in DOMAIN windows} : Reportable(g)}
        <4>1. Cardinality(Below) \in Nat /\ MinOrders \in Nat
          BY <2>0, BelowSets, OrdersFacts
        <4> QED  BY <2>0, <3>2, <4>1 DEF Arrangement
      <3>4. k \in Passed
        BY <2>0, <3>3, PassedFacts
      <3>5. PICK j \in DOMAIN windows : Followers(k) \cup {k} \subseteq windows[j].members
        BY <2>0, <3>4 DEF Groups, FullIsGrouped
      <3>6. windows[j].members \in SUBSET Below
        BY <2>0, SeqFacts DEF Groups
      <3>7. /\ Cardinality(Followers(k) \cup {k}) <= Cardinality(windows[j].members)
            /\ Total(Followers(k) \cup {k}) <= Total(windows[j].members)
        BY <2>0, <3>5, <3>6, GrowingCount
      <3>8. ASSUME Exceeds(Followers(k) \cup {k}) PROVE Reportable(windows[j])
        <4>1. /\ Cardinality(Followers(k) \cup {k}) \in Nat
              /\ Cardinality(windows[j].members) \in Nat
              /\ Summable(Followers(k) \cup {k}) /\ Summable(windows[j].members)
          BY <2>0, <3>1, <3>6, BelowSets
        <4>2. Total(Followers(k) \cup {k}) \in Nat /\ Total(windows[j].members) \in Nat
          BY <4>1, TotalFacts
        <4>3. Threshold \in Nat /\ MinOrders \in Nat
          BY <2>0, OrdersFacts
        <4>4. Exceeds(windows[j].members)
          BY <3>7, <3>8, <4>2, <4>3 DEF Exceeds
        <4>5. Cardinality(windows[j].members) >= MinOrders
          BY <3>7, <4>1, <4>3 DEF Full
        <4> QED  BY <4>4, <4>5 DEF Reportable
      <3> QED  BY <3>3, <3>5, <3>8
    <2> QED  BY <2>1, <2>2 DEF SplitsAreGrouped
  <1> QED  BY <1>1, SplittingInvHolds, PTL
=============================================================================
