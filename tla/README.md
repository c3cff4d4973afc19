# A verification of the govspend-nexus-ai services

GovSpend Nexus screens public spending for fraud. It is a set of Python
services (FastAPI, one asyncio event loop each) that hand work to each other
through Redis streams and keep their state in memory, in Redis or in
PostgreSQL. This directory holds TLA+ models of the services whose correctness
depends on the order of things, the TLC configurations that check them on small
instances, and theorems about them proved with TLAPS for every value of the
constants.

Seven parts are modelled:

* the audit trail (`audit-log-svc`): logger, batch processor, hash chain,
  verifier and tamper detector;
* the policy manager (`policy_weights_svc`): which weight policy is active,
  with requests interleaved at their Redis calls;
* the path from a detection event to an evidence bundle (`scoring_svc` and
  `evidence_bundle_svc`): two stream consumers with failing calls and restarts;
* the detection engine (`detection_core`): concurrent calls that share a collector
  and a semaphore, with detectors that fail and are retried;
* the priority queue (`event-publisher-svc`): sorted sets in Redis used by
  requests that lock nothing;
* the Nexus portal (`backend-api`): case decisions and maker-checker unmasking in
  concurrent database sessions, with an audit chain per case;
* contract splitting (`detection_svc`): the sliding window over purchase orders.

`PROJECT.json` lists every component, run, property, mutant, hazard and theorem,
and maps each definition to the lines it models. All paths below are under
`src/services/` unless they say otherwise.

## 1. Inventory

### How the services interact

```
ingestion-svc --tx.ingested--> detection_core --detection.events--> scoring_svc
                                     |                                  |
                              (detection_signals, PostgreSQL) <---------+ reads
                                                                        |
                                                              scoring.results
                                                                        v
event-publisher-svc <--bundle.events-- evidence_bundle_svc (evidence_bundles)

event-publisher-svc --risk.events-->        (read outside the repository)
calibration.events --> policy_weights_svc --policy.events-->
audit.events --> audit-hashchain-svc        (a dead-letter stream beside it)
mcp-gateway --auth.audit-->                 (monitoring)
audit-log-svc: called over HTTP
unmask-svc, ledger-svc, masked-evidence-svc, jurisdiction-enforcement-svc:
    access to personal data, behind the gateways and backend-api
```

A stream is read through a consumer group by an endless loop that asks for
messages never delivered before (`">"`), works through the batch and
acknowledges each message. Nothing in the repository claims or re-reads pending
messages (`ingestion-svc/stream/consumer.py:155` can list them).

### Components

| Component | State | Operations | What makes it correct |
|---|---|---|---|
| audit-log-svc: hash chain | list of records, last sequence and hash | create_chain_entry, verify_chain_integrity | append-only; record *n* is numbered *n* and linked to *n-1* |
| audit-log-svc: audit logger | buffer, flush task, running flag | log, flush by size / time / stop | nothing lost, repeated or reordered; stop drains |
| audit-log-svc: batch processor | queue, retry queue, circuit breaker, statistics | enqueue, flush, replay, stop | nothing lost; the breaker follows the failures; counters balance |
| audit-log-svc: verifier, tamper detector | `verified` flags, anomalies of the last scan | verify_entry, detect_tampering, scan, summary | reports exactly the records the service would not have written; a clean walk up to an intact record means an intact range |
| policy_weights_svc: policy manager | policies, active id, Redis copy | create, update, activate, deactivate, get, archive, calibrate | one active policy; what is served is in force |
| scoring_svc: detection consumer | group position, pending list, batch in progress | read, score, publish, acknowledge | acknowledged means answered; results in order; never stuck |
| evidence_bundle_svc: scoring consumer | the same, and bundle rows | read, assemble, store, announce, acknowledge | announced means stored; acknowledged means kept |
| scoring_svc: scoring arithmetic | - | weighted scores, confidence, tiers | monotone and bounded scores, no gap between tiers |
| detection_core | shared signal collector, semaphore, detector tasks | process_transaction: run detectors, collect, save, publish | no signal of a call is lost or left behind; permits come back; every call ends |
| event-publisher-svc: priority queue | one sorted set per priority and a tracking set in Redis | enqueue, dequeue, update, move, expire | nothing is lost; one worker per event; order by priority and age |
| event-publisher-svc: publisher, alerts | - | - | does not load |
| backend-api: Nexus portal | cases, unmask requests, audit entries in PostgreSQL | decide, request_unmask, respond_unmask | rows and audit entries agree; maker is not checker; one chain per case |
| backend-api: case, unmask, admin services | - | - | every route answers 401 |
| detection_svc: contract splitting | the windows found so far | filter, slide, merge, report | windows are disjoint and complete; every split is reported |
| unmask-svc | request row with a status | create, approve, reject, unmask, expire | no request can come to exist (see section 5) |
| mcp_gateway, mcp-gateway | sessions, verdicts, tool registry | login, validate, authorise, execute | do not load |
| audit-hashchain-svc | a second chain, in PostgreSQL | append, verify | does not run |
| jurisdiction-enforcement-svc | a tree of jurisdictions and a cache | check access | builds no tree |
| ledger-svc, masked-evidence-svc | encrypted or tokenised values | store, reveal, mask | conversions |
| ingestion-svc, other detectors of detection_svc | parsers, statistical detectors | parse, detect | conversions and floating-point arithmetic |
| digital-twin-svc | query strings over a graph | one query per request | conversions |
| explanation-svc, explanation-validator-svc, llm-prompt-svc, policy-ingestion-svc, rag-retriever-svc | text and embeddings | generate, validate, retrieve | the content of text |
| govspend-frontend, packages, libs, infra, migrations, scripts, tests, docs | - | - | no state the services' order depends on |

### What is hard in it

* **Interleaving at awaits.** A handler reads shared state, awaits Redis and
  writes back what it read: `policy_manager.py:226`; or shares it with other calls
  while it waits: `orchestrator.py:76`.
* **Interleaving of threads.** The portal's routes are plain functions, which run
  in threads with a session each; nothing is locked: `nexus_service.py:73`, `:142`,
  `:214`.
* **Two commands where one is needed.** DEL then SETEX, ZRANGE then ZREM, ZREM then
  ZADD, SELECT then INSERT.
* **Partial failure.** A batch fails in the middle: some of it is written,
  published or acknowledged and some is not. A command raises although the server
  carried it out.
* **Restarts.** The memory is gone, Redis and PostgreSQL are not; the pending
  list of a group is never looked at again.
* **Duplicates.** A transaction named twice in one batch, an event read by two
  workers, a transaction processed by two calls.
* **Timers and retries.** A flush that only time triggers, a breaker that
  half-opens, a cache entry that expires, a detector tried again.

`PROJECT.json` lists the hazards one by one, each at its line, with the
properties that would be violated if it bit.

## 2. The modules

| Module | Models | Builds on |
|---|---|---|
| `AuditTrail` | abstract: what the audit logger promises its callers | - |
| `HashChain` | the chain and the read side that walks it | - |
| `AuditLogger` | `services/audit_logger.py` | `HashChain`; implements `AuditTrail` |
| `BatchProcessor` | `services/batch_processor.py` | `HashChain` |
| `AuditVerification` | `services/audit_verifier.py`, `services/tamper_detector.py` over a chain that may be altered | `HashChain` |
| `PolicyRegister` | abstract: what the policy manager promises whoever scores | - |
| `PolicyManager` | `policy_weights_svc/services/policy_manager.py` and two calls of `calibration_service.py` | implements `PolicyRegister` when serial |
| `RedisStream` | a stream and a consumer group as the services use them (external) | - |
| `DetectionConsumer` | `scoring_svc/consumers/detection_consumer.py` | `RedisStream` |
| `ScoringConsumer` | `evidence_bundle_svc/consumers/scoring_consumer.py`, bulk assembly and storage | `RedisStream` |
| `ScoringPipeline` | both consumers and the streams between them | the two above, by `INSTANCE` |
| `DetectionCore` | `detection_core`: orchestrator, runner, collector, signal service, publisher | - |
| `PriorityQueue` | `event-publisher-svc/services/priority_queue_manager.py` | - |
| `NexusPortal` | `backend-api/services/nexus_service.py` as `routes/v1.py` calls it | - |
| `ContractSplitting` | `detection_svc`: `contract_analysis.py`, `window_analyzer.py` and what they call | - |
| `HashChainProofs`, `BatchProcessorProofs`, `PolicyManagerProofs`, `ScoringPipelineProofs`, `PriorityQueueProofs`, `NexusPortalProofs` | theorems | the module they are named after |
| `AuditLogProofs` | theorems about both sides of the audit log | `AuditLogger`, `AuditVerification`, `HashChainProofs` |
| `DetectionProofs` | theorems about both detection services | `DetectionCore`, `ContractSplitting` |
| `MC*` | constants for TLC | the module they are named after |

Definitions introduced by a comment that begins with "Mutant" are faulty
variants of the definition they are named after. No specification uses them: a
run is repeated with the variant in place of the original, and the property
listed for it in `PROJECT.json` must then fail.

### The audit trail

`create_chain_entry` reads the chain state, serialises the entry, computes the
two hashes and stores the record without suspending, so it is one action
(`CreateChainEntry`). Hashes are symbolic: the chain hash is the tuple of what is
hashed, so equal hashes have equal inputs and nothing else is known about them.
`Unserialisable` are the entries whose `model_dump_json` raises.

*AuditLogger.* In buffered mode `flush` copies and clears the buffer and then
writes entry by entry; no statement of it suspends, so the coroutine holds the
event loop to its end. The variable `loop` says who holds the loop: `flush` takes
one action per entry (`LoggerFlushEntry`) so that the state in the middle of a
flush is visible to the properties, and every other action waits for `Idle`.
Synchronous mode (`LogSync`) is chosen at start by `async_logging`. `Verify`
interleaves the verifier's writes to the `verified` flags. `logged` and `at_stop`
are history variables: nothing in the code reads them. `AuditTrail` is what a caller
may rely on: a line of accepted entries that leaves at its head, one by one, for the
end of a trail that only grows. The refinement maps the line to running flush
followed by buffer, and the trail to the audit ids of the chain.

*BatchProcessor.* The queue is taken as a whole (`BeginFlush`), or moved to the
retry queue while the breaker is open (`DivertToRetry`). A batch stops at the
first failing entry and goes to the retry queue as a whole (`FlushFails`). The
retry queue is replayed at the end of a flush that leaves the breaker closed.
`recovery_due` stands for the clock: `circuit_recovery` seconds have passed since
the last failure.

In both, `stop()` awaits the flush task it has just cancelled before its own flush
(`audit_logger.py:64`, `batch_processor.py:92`); the task is
asleep and only ends, and a request served meanwhile does what it would have done
before the stop, so the two halves are one action (`LoggerStop`, `BatchStop`).

*AuditVerification.* Something other than the service changes a stored record
(`AlterRecord`: its body, its previous hash, or both, with the data hash and the chain
hash kept or computed anew) or takes one away (`RemoveRecord`). What finds a record,
its audit id and its sequence number, is not changed, and neither are the chain state
and the `verified` flags. Such a hand knows every hash and every rule, so it can write
records the service would have written; the link to the record after them is then what
gives them away, and the last record of a range has none after it. `Scan` and
`VerifyOne` are the two entry points of the read side. `written` keeps the records as
`create_chain_entry` stored them, and `Rewritten` is what it would have stored for a
record's present body on top of the record before it. An audit id is stored once here, as `AuditLogger` does. The
batch processor can store one twice (section 6), and the scan, which looks each id up
again (`audit_verifier.py:121`), would then examine the first record two times and the
second never.

### The policy manager

Handlers are coroutines of one event loop: the code between two awaits runs
undisturbed, and that is the grain of the actions. An awaited Redis command takes
two of them: Redis executes it (`RedisGet`, `RedisSet`, `RedisDelete`), and later
the handler resumes with the answer (`After...`). `req[p]` holds where handler
`p` is parked and the copies it took before. `activate_policy` runs through get
(and fill on a miss), supersede, store, DEL and SETEX. A failed command is a miss or
a no-op, as the code swallows the exception. A copy expires (`CacheExpires`) unless
another SETEX begins a new lifetime (`TtlRenewed`). `Restart` empties the memory and the
requests and keeps Redis. With one process the same module is the service without
Redis: nothing suspends, requests run one after another, and the manager implements
`PolicyRegister`: one policy in force at a time, replaced in one step, none that comes
back.

The database mode of the manager (a connection pool is given) is not modelled.

### From detection events to evidence bundles

A message is named by its position in its stream, and a consumer group by the last
position delivered and the pending set. Every await of a consumer is an action,
and each has a failing alternative: the call may fail before or after the server
carried it out. `faults` counts the failures and the restarts together.

| Code | Action |
|---|---|
| xreadgroup | `ReadEvents`, `ReadResults` |
| the parsing loop and its xacks of unreadable messages | `ParseEvents` |
| fetch_signals_bulk and the scoring of the batch | `FetchSignals` |
| xadd to scoring.results, or to the error stream when that fails | `PublishResult` |
| xack | `AckEvent`, `AckResult` |
| assemble_bundles_bulk, error bundles included | `AssembleBundles` |
| store_bundles_bulk, one row after the other | `StoreBundle` |
| _publish_bundle_event, _publish_error_event | `AnnounceBundle` |
| the service stops or is killed, and starts again, with or without a consumer | `RestartScorer`, `RestartBundler` |

A start may leave the service without a consumer (`Unstarted`): `initialize()` runs
before the `try` of the loop (`detection_consumer.py:48`, `scoring_consumer.py:73`), so
an error of it other than `BUSYGROUP` ends the task, and the evidence service makes no
consumer when it cannot reach Redis (`evidence_bundle_svc/main.py:61`). Nothing starts
the task again but the next restart. A restart and what it meets in `initialize()` are
one fault.

Both consumers keep one message per transaction and batch, the last
(`message_map`): that is `Latest`. The producers are the environment: they publish
any message, unreadable ones included, and store the signals of a transaction
before or after its event.

Assumptions of this model: the database of the evidence service is available and
has the columns its code writes; the evidence items of a bundle, which a second
statement inserts after the row without a transaction (`bundle_storage.py:255`), are
left out, because nothing in the repository reads them, and a failure of that statement
is `StoreBundle`'s failure after the row was written; streams stay below their `maxlen`; results of
different transactions in one batch are published in any order (the code's order
is that of a dictionary and of the bulk query, and no property depends on it).

### The detection engine

`process_transaction` waits for the semaphore, announces the start, runs all
detectors with `gather`, collects their signals in a collector all calls share,
saves the group, announces it and clears the collector in `finally`. `calls[c].pc`
is where a call is parked; the code between two awaits is one action.

| Code | Action |
|---|---|
| process_transaction, up to `async with self._semaphore` | `Submit`, `Acquire` (first come, first served) |
| publish_detection_started, get_detector for each id | `StartDetectors` |
| run_single_detector: an attempt ends, fails, is retried | `DetectorCompletes`, `DetectorFails`, `DetectorRetries` |
| add_signal, get_signal_group, save_signals | `Collect` (nothing in between suspends) |
| publish_signals_generated | `AnnounceSignals`; a failing xadd is swallowed |
| publish_detection_completed, release, `finally` | `Finish` |

A detector without an instance (`approval_velocity` is registered and cannot be
made) has failed at once. Two calls for one transaction meet in the collector: what
the second groups may hold the first one's signals, and the first one's `clear` takes
the second one's with it. `crossed` records which calls met another; what is exact
for the others is only a bound for these.

The engine is modelled although the service around it (`detection_core/main.py`) does
not start, because the engine is complete in itself. In it two
things the code provides for cannot happen: the handlers for `TimeoutError` and
detector errors around the run are unreachable, since the runner catches everything,
and `processing_timeout` is applied nowhere.

### The priority queue

Nothing that runs puts items there: the only producer (`event_publisher.py:89`) fails
before, because it uses `timedelta` without importing it (`:74`). The manager is
complete in itself (`routes/events.py:111` dequeues over HTTP), and it is modelled as
such.

One sorted set per priority, scored by the time an item was put there, and a tracking
set of all items. Every Redis command is an action, since each is awaited and nothing
locks; a command may raise before or after the server carried it out.

| Code | Action |
|---|---|
| enqueue | `Enqueue`, `AddToQueue`, `AddToTracking` |
| dequeue | `Dequeue`, `Look` (ZRANGE of the next queue), `Remove`, `Untrack` |
| update_item, move_to_priority | `Rewrite`, `Scan` (ZRANGE of a queue), `Take` (ZREM), `Put` (ZADD) |
| cleanup_expired | `Cleanup`, `Expire` |

No result of a ZREM is looked at. A worker that read an item another one removed
meanwhile returns it a second time, and an update that read it puts it back into the
queue. `missed` records the events this happened to, and the promise of one copy
excepts exactly them. update_item and move_to_priority leave the tracking set as it
was, so it names items that are no longer queued and misses rewritten ones; nothing in
the repository reads it. A dequeue whose second ZREM raises loses the event it had
taken; `dropped` records those.

### The Nexus portal

A query is an action, because under READ COMMITTED each reads what is committed, and
what a call changes reaches the database in its `db.commit()`, one action (autoflush
is off). A call that raises leaves nothing, or everything: `Abort`, or a `Commit` that
goes straight to idle.

| Code | Action |
|---|---|
| decide: the query for the case | `Decide` |
| request_unmask: the query for the case | `RequestUnmask` |
| respond_unmask: the query for the request and its checks | `RespondUnmask` |
| _append_audit: the query for the entries of the case | `AppendAudit` |
| db.commit() | `Commit` |
| the row queried again for the answer | `Answer` |

Two facts about SQLAlchemy enter the model. An attribute set to the value it was read
with is not written, so a decision that changes nothing for its own session can leave
another one's status standing (`Written`). And the entries of a case are read without
ORDER BY; the model takes them in the order of insertion. `ingest_invoice` inserts an
independent row, and listing, tokens and `verify_audit` only read or compute.
`verify_audit` (left out) answers that the chain is invalid for every case that has an
entry, because it hashes the stored naive time where the entry was hashed with
`+00:00`.

### Contract splitting

`analyze_vendor_department` sorts the purchase orders below the review threshold by
date, opens a window at each of them and merges windows that overlap. `Filter` is what
comes before the loop, `Slide` one iteration, `Report` what comes after. Amounts are
cents and dates days; averages and deviations are compared by cross-multiplication, so
the comparisons are those of exact arithmetic. The code's own constants (three orders,
14 days, a threshold of 25,000) are parameters. An order's own review threshold, which
it may lack (0), decides on its suspicion and nothing else. Orders have ids of their own:
the merge drops a second order with the same id (`window_analyzer.py:147`), and here
groups are sets of positions.

An order of the anchor's own date is not in its window (`window_analyzer.py:52`), so
`SplitsAreGrouped` speaks of the orders that follow on later days; a split made on one
day alone may go unnoticed. The patterns of a merged group are the union of those of
its windows, not those of its members.

## 3. What the runs check

| Run | Instance | States | Shows |
|---|---|---|---|
| `audit_logger` | 4 entries, one unserialisable, buffer of 3 | 8,577 | what clients see is an `AuditTrail` (`ImplementsTrail`); a stop leaves nothing behind (`StopDrains`); an untouched chain passes every check (`NoFalseAlarm`); the timer alone brings an entry to the chain (`EventuallyWritten`) |
| `batch_processor` | 5 entries, two unserialisable, batches of 2, breaker at 2 | 8,180 | nothing accepted is lost (`EnqueuedIsHeld`); the breaker follows the failures (`BreakerMatchesFailures`) and lets nothing through while open (`OpenBlocksWrites`); the counters balance (`StatsBalance`); a queue never waits for ever (`QueueIsTaken`) |
| `audit_verification` | 3 entries, 2 alterations or removals, symmetric | 90,985 | a walk up to a record that is as written passes exactly what was not changed, relinked or removed (`WalkExact`); the anomalies on display are the records the service would not have written, as of the last scan (`AnomaliesAreOfLastScan`); the two counts of a report differ by what is missing (`SummaryMatchesScan`) |
| `policy_concurrent` | 2 requests, 2 policies, 1 restart, failing Redis | 171,210 | the active id, the cached copy and the life cycle stay sound whatever interleaves (`ActiveIdIsActive`, `CachedWasActive`, `DraftOnce`); a switch completes (`SwitchCompletes`); a copy that is no longer served leaves the cache (`StaleCopyGoes`) |
| `policy_serial` | 1 request, 3 policies, 1 change each | 12,348 | one request at a time keeps one active policy (`AtMostOneActive`) and an exact cache (`CacheIsActive`), and the whole is a `PolicyRegister` (`ImplementsRegister`) |
| `scoring_pipeline` | 2 transactions (one with unreadable benchmarks), 2 events, batches of 2, 2 faults | 172,565 | acknowledged means answered or kept (`AckedIsAnswered`, `AckedIsKept`), announced means stored (`AnnouncedIsStored`), results and bundles of a transaction keep the order of its events (`OrderKept`), failures stop no consumer that got past `initialize()` (`Drained`), and without faults every transaction is bundled (`EventIsBundled`) |
| `detection_core` | 3 calls, 2 transactions, 2 permits, 1 retry, one detector that runs and one that cannot | 153,245 | the shared collector holds only signals of calls still publishing (`CollectedIsInFlight`); a call's signals are saved and announced as saved (`SignalsAreSaved`); every call ends (`EveryCallEnds`) |
| `priority_queue` | 2 events, 2 requests, 2 priorities, 5 calls, 1 failing command, symmetric | 2,445,321 | no item is overtaken (`NoOvertaking`), lost (`NothingLost`) or, unless a ZREM found it gone, in two places (`OneCopy`) |
| `nexus_portal` | 2 cases, 1 request, 2 people, 2 threads, 3 audit entries, symmetric | 306,340 | chain forks, lost decisions and double answers need calls that overlap (`ChainForksOnlyInOverlap`, `StatusIsLastDecision`, `RespondedOnce`); rows and entries agree and no maker is a checker (`UnmaskingIsAudited`) |
| `contract_splitting` | all sequences of up to 4 orders, and of 5 in date order; 5 days, amounts 8, 19, 20, threshold 20, window 2, at least 2 orders; those of the last day have no threshold of their own | 483,550 | the groups are disjoint windows, each with exactly its orders (`GroupsAreWindows`); every split over later days is reported and nothing is grouped without a full window (`SplitsAreGrouped`) |
| `policy_two_active`, `pending_is_retried` | the smallest that shows it | | findings, see section 6 |

Every property of a passing run has a mutant in `PROJECT.json`: a plausible bug in
the code that makes TLC find the property violated.

### The bounds, and why they are enough

* *audit_logger*: with a buffer of 3 and an unserialisable entry in any place, a
  flush meets the failing entry first, in the middle and last, by size, by time
  and at stop. A fourth entry is logged while a full buffer has been flushed.
* *batch_processor*: five entries in batches of two open the breaker at the second
  failure, test it with a failing and with a good batch, and close it again.
* *audit_verification*: three records give one with a neighbour on each side. Two
  alterations (`MaxAlterations`) are a change and the change that covers it up in the
  next record, or a removal and the relinking of what follows.
* *policy_concurrent*: every hazard is between two requests. Two policies make an
  activation replace an active one. `MaxRev = 0` leaves the content out, which no
  property of this run looks at and which the serial run has: that an activation
  overwrites an update or a deactivation made between its copy and its storing is not
  excluded by any property (section 6).
* *policy_serial*: three policies give a create, a switch and a switch back.
* *scoring_pipeline*: two events let one transaction occur twice in a batch and in
  two batches. Two faults let the publication of a result and of its error entry
  fail together, or a failure be followed by a restart. The safety properties
  were also checked with three events and one fault (1,038,107 states); it is not a run,
  because the liveness properties take too long there.
* *detection_core*: with three calls and two permits one call waits; two calls for
  one transaction meet in the collector while a third is elsewhere, or come one after
  the other. One retry gives a detector that fails, is tried again and gives up.
* *priority_queue*: with five calls an event can be queued, read by two requests,
  updated or moved by one of them and expire, while the second event is queued before
  or after it; all hazards are between two requests.
* *nexus_portal*: three entries let two decisions, or two answers to one request,
  overlap or follow each other, and a case have a chain with a fork and an entry
  behind it. Two cases show entries of another case in between.
* *contract_splitting*: five orders in date order give two groups, three chained
  windows, or a window merged with an earlier one. Amounts: one that is far below the
  threshold, one that is suspicious and one that is not below it.

Bounds written in guards: `MaxPolicies`, `MaxRev`, `MaxRestarts` (PolicyManager),
`MaxAlterations` (AuditVerification), `MaxEvents`, `MaxFaults` (pipeline),
`MaxCalls`, `MaxFaults` (PriorityQueue), `MaxEntries` (NexusPortal); entries are logged, and events enqueued, once each;
`Histories` are the inputs of ContractSplitting. Deadlock is not checked where the
bounded environment or the computation runs out of things to do
(`CHECK_DEADLOCK FALSE`). In `PolicyManager` a request can always be made, in
`NexusPortal` a call can always begin and in `DetectionCore` the end of all calls is
a step of its own (`Idle`): there deadlock is checked.

### Fairness

* The event loop runs a coroutine it has started, and wakes a sleeping loop: weak
  fairness of `LoggerFlushLoop`, `LoggerFlushEntry`, `BatchFlushLoop`, `RunFlush`
  and of a handler's `Resume`.
* Redis answers a command, or the client raises: `Redis(p)`.
* Time passes: `RecoveryElapses`, and `CacheExpires \/ TtlRenewed`, because every copy
  is stored with SETEX and each SETEX begins the lifetime anew: a copy that is not
  stored again expires, and one that always is need not. That a stale copy goes all the
  same (`StaleCopyGoes`) is a fact about the handlers: a hit is answered without a
  SETEX, and what is stored after a miss or an activation is what memory holds.
* A consumer's loop keeps running, because every exception in it is caught:
  `ScorerStep`, `BundlerStep`. A consumer that did not get past `initialize()` takes no
  step.
* The event loop resumes a call of the detection engine, the semaphore wakes its first
  waiter, `wait_for` ends every attempt of a detector, and Redis answers or raises:
  the steps of a call and of each of its detectors. Fairness is per call and per
  detector, because each is a task of its own.

Nothing obliges a client to call, an environment to publish, or a service to stop
or restart: these actions have no fairness.

## 4. What is proved

The theorems hold for every value of the constants under the assumptions named in
the modules (`UnserialisableAssumption`, `LoggerAssumption`, `BatchAssumption`,
`VerificationAssumption`, `ManagerAssumption`, `PipelineAssumption`, `DetectionCoreAssumption`,
`PriorityQueueAssumption`, `NexusPortalAssumption`, `ContractSplittingAssumption`).
They say that sizes and thresholds are positive, bounds are naturals, marker values
differ from identifiers, the runnable detectors are among the detectors, purchase
orders have a date and a positive amount, and that the calls (`DetectionCore`) or
requests (`PriorityQueue`) in progress are finitely many, which the theorems that
count them need. The serial theorems of the policy manager have hypotheses of their
own, named below.

Every safety property that a passing run checks, invariant or action property, and
both refinements are stated by a theorem. The inductive invariants are in the proof
modules; they were checked with TLC on small instances before they were proved.

* **AuditLogger.** `LoggerTypes`; `LoggerChainLinked`: each record is numbered by
  its position and linked to the one before. `LoggerHoldsPending` and
  `LoggerStopDrains` rest on one inductive invariant, `Custody`. `PendingIsHeld` is
  not inductive alone: a flush that ends must not have dropped anything, so
  `Custody` adds that in synchronous mode a pending entry is unserialisable
  (`SyncPending`), that what was logged was submitted (`LoggedSubmitted`), and that
  while the flush of a stop runs the buffer's former contents are in it
  (`StopInProgress`). `LoggerImplementsTrail` is the refinement: the first state maps
  to the first state and each step to one of `Accept`, `AcceptAndSettle`,
  `SettleFirst` or a stutter. `LoggerNoFalseAlarm` and `LoggerAppendOnly` follow from
  the links and from what one append does to the chain, which is in `HashChainProofs`.
* **AuditVerification.** `VerificationTypes`, `VerificationWalkExact`,
  `VerificationAnomaliesOfLastScan` and `VerificationSummaryMatchesScan` rest on
  `VerificationInv`: what was written is a chain that ends in the chain state
  (`WrittenLinked`), the stored rows stand for written ones in their order
  (`RowsInOrder`), and an audit id is stored once, and only if it was submitted
  (`StoredOnce`). Of the hashes of a stored row it says nothing but their type, because
  anything may have been done to them. `DetectExact`: the scan finds the rows that the
  service would not have written in their place and no other, because looking an id up
  again finds the row itself. `WalkExact` has two directions. Rows as written pass
  (`WrittenRowsPass`). And a clean walk vouches for the range from its last row down: a
  row with its chain hash as written has the previous and the data hash as written,
  because equal hashes have equal inputs (`SealFixesRow`), and the link test gives the
  row before it the chain hash *it* was written with and its place next to it
  (`LinkFixesRow`); `CleanWalkFixesRows` is the induction, as an argument about the
  least distance from the end at which a row differs.
* **BatchProcessor.** `BatchTypes`, `BatchBreakerMatchesFailures`,
  `BatchEnqueuedIsHeld`, `BatchStatsBalance` and `BatchChainLinked` rest on `IInv`.
  Beyond the properties it says which coroutine can hold the loop in which state of
  the breaker (`BreakerRuns`), that what a flush has written of its batch is in the
  chain, so that a batch that ends can be forgotten (`WrittenPrefix`), and the balance
  at every step and not only between coroutines (`Balance`). `BatchOpenBlocksWrites`
  is an action property from the same invariant.
* **PolicyManager.** `PolicyTypes`, `PolicyActiveIdIsActive`,
  `PolicyCachedWasActive` and `PolicyDraftOnce` rest on `IInv`. A copy in the cache
  comes from a request's local copy and those come from the cache and the memory,
  so the invariant has to say of every parked request what its copies are
  (`Held`). The proofs separate what a step does to the memory (`MemoryStep`, the
  four ways it can change) from what it does to the request that takes it.
  `PolicySerialOneActive`: with at most one process at most one policy is active;
  its invariant `Exclusive` adds what the single request knows about the memory at
  each point it can be parked at. With two processes the statement is false (see
  section 6). Two more theorems are about one request at a time (`\A p, q \in Proc :
  p = q`). `PolicyImplementsRegister` is the refinement of `PolicyRegister`, with a
  Redis that may fail and no restart (`MaxRestarts = 0`): a restart empties the memory,
  which the register does not do. Its invariant is `Exclusive` with `Gap`, what the
  memory looks like while an activation is between withdrawing the old policy and
  storing the new one; `SerialMove` names the ways a step can change the memory, and
  `MoveRegister` maps each to a step of the register or a stutter.
  `PolicyCacheIsActive` needs that Redis does what it is asked to
  (`RedisMayFail = FALSE`), since a failed DEL leaves the old copy behind, and speaks of
  the time before the first restart, after which the memory has no active policy to
  compare with. Its invariant `Fresh` says what the cache and the request's own copy
  may be at each point the request can be parked at.
* **ScoringPipeline.** `PipelineTypes`: both consumers stay within their streams.
  `PipelineAckedIsAnswered`: the invariant `ScorerCustody` adds that the event about
  to be acknowledged is answered; results and error entries are never withdrawn, and
  a delivery acknowledges nothing because the group's position and the pending list
  grow by the same interval. `PipelineAnnouncedIsStored` and `PipelineAckedIsKept`:
  the second says that acknowledged results are kept but for reports that failed, and
  that no two of those share a fault, so its invariant `LostIsCounted` counts them; it
  rests on `BundlerCustody`, which adds that everything still to be announced is an error bundle, is
  still to be stored, or is stored, that nothing is still to be stored once
  announcing has begun, and that the result about to be acknowledged is kept.
  `PipelineOrderKept`: what a consumer still has to publish or store comes after all
  that it published of the same transaction, and is itself in order (`ScorerOrder`,
  `BundlerOrder`); after a restart the group hands out nothing that was delivered
  before, so nothing is published a second time.
* **DetectionCore.** `DetectionTypes`, `DetectionSlotsHeld`,
  `DetectionRetriesSpent`, `DetectionCollectedIsInFlight` and
  `DetectionSignalsAreSaved` rest on one `IInv`. `SlotsHeld` needs that the waiters of
  the semaphore are distinct calls that wait (`Waiters`). For the signals, it says what
  a group is made of (`SavedGroups`), that a call past `Collect` has its own signals
  saved (`OwnSaved`) and, if it met no other, nobody else's (`AloneSaved`); that a
  later step cannot change the signals a call made needs that its detectors have all
  ended (`RunsEnded`).
* **ContractSplitting.** `SplittingTypes`, `SplittingGroupsAreWindows` and
  `SplittingSplitsAreGrouped`, for any purchase orders, rest on `SplittingInv`. It says
  of the groups and of the orders whose iteration is over: a group begins at such an
  order, one that begins a full window (`Started`), and holds what lies in its window,
  on the first day only what was passed (`HoldsWindow`); every full window that was
  passed lies in a group (`FullIsGrouped`); every order of a group is in a full window
  (`OnlyFull`); and the groups are disjoint (`Disjoint`). Because the groups begin no
  later than the anchor, only the last can overlap a new window, so merging with the
  first that overlaps keeps them disjoint (`StepMerge`). Orders of one day begin windows
  of one size (`SameDayFull`), which is why no order of a group's first day is left
  out. That a group is reported when a window in it exceeds the threshold needs that
  sums over sets grow (`TotalMonotone`); the library's folds come without such facts,
  so they are proved here from the existence of the recursive function (`SumExists`),
  each induction as an argument about a smallest counterexample.
* **PriorityQueue.** `QueueTypes`, `QueueNoOvertaking`, `QueueNothingLost` and
  `QueueOneCopy` rest on `IInv`. `NoOvertaking` needs that a dequeue that passed over
  a queue found nothing there that was queued since it began (`PassedOver`), and that
  what counts as queued since then still is (`SinceIsQueued`). The two statements about
  numbers of copies are proved as statements about places: an event is in one
  (`Kept`), and in no two unless a ZREM found it gone (`Alone`). A lemma for each way
  an event can move (`ArrivalMoves`, `PickMoves`, `PutMoves`, `TakenMoves`,
  `LossMoves`, `DroppedMoves`, `ExpiryMoves`) carries both over a step, and the
  cardinalities come last (`KeptIsCounted`, `AloneIsCounted`).
* **NexusPortal.** `PortalTypes`, `PortalForksOnlyInOverlap`,
  `PortalStatusIsLastDecision`, `PortalRespondedOnce` and `PortalUnmaskingIsAudited`
  rest on `IInv`. `CallsInv` says of every call in progress when it began, that a
  maker's id is still free (`Making`), that a checker read a request that stands and
  is not its own (`Checking`), and that a decision read the status that still stands
  unless another was committed meanwhile (`Deciding`); `RowsInv` ties each request
  row to its entries.

Only checked with TLC: all liveness (`EventuallyWritten`, `QueueIsTaken`,
`SwitchCompletes`, `StaleCopyGoes`, `Drained`, `EventIsBundled`, `EveryCallEnds`),
because liveness under fairness is out of the prover's reach.

## 5. What is not modelled

Per component, the reason is in `PROJECT.json`. In short:

* **Conversions.** Parsing, formatting, masking, embedding, prompting and scoring of
  text keep no state; the user interface and the deployment files keep none either.
  The bodies of evidence bundles and the arithmetic of scores are abstracted in the
  models that use them; the other detectors are floating-point statistics over one
  transaction.
* **Code that cannot run.** `event-publisher-svc`'s publisher and alerts use names
  they do not import; `mcp_gateway` and `mcp-gateway` import `models.auth`, which is
  not in the repository, and the retry and timeout of the tool executor cannot happen,
  since every tool catches every exception and none awaits; `audit-hashchain-svc` and
  `jurisdiction-enforcement-svc` miss an import, too. In `unmask-svc` no request can
  come to exist: its row is not committed while the audit row that refers to it is
  inserted on another connection. `backend-api`'s case, unmask and admin routes and
  those of `explanation-svc` answer 401, because nothing sets the user they look for.
  A model of what these would do would not be a model of the program.
* **Parts of modelled components.** Webhooks, the rate limiter, routes and statistics
  of the audit log; the database mode and the calibration arithmetic of the policy
  manager; retrieval, query and archive of evidence bundles, which are one statement
  each; the sequential mode of the detector runner and what the started and completed
  events say; risk scores and the cache of contract splitting, which is keyed without
  the threshold (`contract_splitting.py:73`).

## 6. Findings

Each is a run that TLC ends with a counterexample, against a sentence of the
repository.

1. `policy_two_active` - *policy_manager.py:216*, "deactivates the current active
   one": what is current is decided before an await (l. 226) and acted upon after it;
   two activations leave two active policies, and no later activation supersedes the
   one that the active id does not name.
2. `pending_is_retried` - *detection_consumer.py:124-126*, "Don't ack messages on
   error - they'll be retried": they stay pending for ever, because the loop reads
   only messages never delivered before.

What does hold of the second: failures never keep the consumer from later messages
(`Drained`), and nothing unanswered is acknowledged (`AckedIsAnswered`).

Observations the models make without a run of their own, each visible in what a
property leaves open:

* A failed batch is put back as a whole (`batch_processor.py:144`), so entries written
  before the failure are stored twice under one audit id: `EnqueuedIsHeld` says
  "held", not "once".
* A deactivation whose DEL is executed between the DEL and the SETEX of an activation
  leaves the deactivated policy in the cache until it expires
  (`policy_manager.py:255`): `CachedWasActive` says "was".
* An activation stores the copy it took before its awaits (`policy_manager.py:235`): an
  update or a deactivation of the same policy in between is overwritten. `DraftOnce`
  guards the one status that must not come back.
* A dequeue does not look at what its ZREM removed (`priority_queue_manager.py:97`),
  nor do update and move (`:163`, `:207`): `OneCopy` excepts the events this happened to.
* The chain of a case forks, a decision is overwritten without effect and a request is
  answered twice when the calls overlap (`nexus_service.py:73`, `:142`, `:214`): the
  portal's properties say "only then".
* Of two calls for one transaction, one may save and announce the other's signals with
  its own (`orchestrator.py:76`): `SignalsAreSaved` is exact for calls that met no other.

## 7. Plan

Done: every module of section 2, with the refinements of `AuditTrail` and
`PolicyRegister`, and the theorems of section 4.

What would come next:

1. `CacheIsActive` across restarts: after one, the cache may hold a policy the new
   process does not know, and what it may then be served as is worth stating.
2. The composition of `DetectionCore` with the pipeline as the producer of its events,
   once the service between them starts.
3. The database mode of the policy manager, the other detectors' windows
   (`approval_velocity.py`, `duplicate_fuzzy.py`) against reference definitions like
   those of `ContractSplitting`.
