----------------------------- MODULE AuditLogProofs -----------------------------
(***************************************************************************)
(* Theorems about the two sides of the audit log.  AuditLogger writes it:  *)
(* its theorems hold for every set of entries, every choice of the         *)
(* unserialisable ones, every buffer size and both modes.                  *)
(* AuditVerification reads a log that something else may have altered: its *)
(* theorems hold for every set of entries and every sequence of            *)
(* alterations.                                                            *)
(***************************************************************************)
EXTENDS AuditLogger, AuditVerification, HashChainProofs

-----------------------------------------------------------------------------
\* Type correctness.

LEMMA InitTypeOK ==
    ASSUME Init
    PROVE  TypeOK
  <1>1. ChainTypeOK
    BY ChainInitOK DEF Init
  <1>2. LoggerTypeOK
    <2>1. Len(<<>>) = 0 /\ <<>> \in Seq(Entry)
      OBVIOUS
    <2>2. 0 < BufferSize /\ 0 \in 0 .. 0
      BY LoggerAssumption
    <2> QED  BY <2>1, <2>2 DEF Init, LoggerInit, LoggerTypeOK, Loops, Idle
  <1> QED  BY <1>1, <1>2 DEF TypeOK

\* A flush of a queue that is not empty keeps the types of the logger's state.
LEMMA BeginFlushTypes ==
    ASSUME NEW p \in Seq(Entry), p # <<>>, BeginLoggerFlush(p)
    PROVE  /\ loop' \in Loops
           /\ buffer' \in Seq(Entry) /\ Len(buffer') < BufferSize
           /\ flushing' \in Seq(Entry)
           /\ (loop' = "logger_flush") <=> (flushing' # <<>>)
  <1>1. Len(<<>>) = 0 /\ <<>> \in Seq(Entry)
    OBVIOUS
  <1> QED  BY <1>1, LoggerAssumption DEF BeginLoggerFlush, Loops

LEMMA NextTypeOK ==
    ASSUME TypeOK, [LoggerNext]_vars
    PROVE  TypeOK'
  <1>a. async_logging' = async_logging
    BY DEF LoggerNext, Log, LoggerStart, LogBuffered, LogSync, LoggerFlushLoop,
           LoggerFlushEntry, LoggerStop, Verify, vars, loggerVars
  <1> USE <1>a DEF TypeOK
  <1>1. CASE LoggerStart
    BY <1>1 DEF LoggerStart, LoggerTypeOK, ChainTypeOK, chainVars, StoredRecord, KnownHashes
  <1>2. ASSUME NEW e \in Entry, LogBuffered(e)
        PROVE  TypeOK'
    <2>1. /\ Append(buffer, e) \in Seq(Entry)
          /\ Append(buffer, e) # <<>>
          /\ Len(Append(buffer, e)) = Len(buffer) + 1
          /\ logged' \in Seq(Entry)
          /\ Len(logged') = Len(logged) + 1
          /\ Len(logged) \in Nat
          /\ at_stop' = at_stop
          /\ logger_running' = logger_running
      BY <1>2 DEF LogBuffered, LoggerTypeOK
    <2>2. at_stop' \in 0 .. Len(logged')
      BY <2>1 DEF LoggerTypeOK
    <2>3. ChainTypeOK'
      BY <1>2 DEF LogBuffered, ChainTypeOK, StoredRecord, KnownHashes, EntryStatus
    <2>4. CASE Len(buffer) + 1 >= BufferSize
      <3>1. BeginLoggerFlush(Append(buffer, e))
        BY <1>2, <2>4 DEF LogBuffered
      <3> QED  BY <2>1, <2>2, <2>3, <3>1, BeginFlushTypes DEF LoggerTypeOK
    <2>5. CASE ~(Len(buffer) + 1 >= BufferSize)
      <3>1. buffer' = Append(buffer, e) /\ loop' = loop /\ flushing' = flushing
        BY <1>2, <2>5 DEF LogBuffered
      <3>2. Len(buffer') < BufferSize
        BY <2>1, <2>5, <3>1, LoggerAssumption DEF LoggerTypeOK
      <3> QED  BY <2>1, <2>2, <2>3, <3>1, <3>2 DEF LoggerTypeOK
    <2> QED  BY <2>4, <2>5
  <1>3. ASSUME NEW e \in Entry, LogSync(e)
        PROVE  TypeOK'
    <2>1. ChainTypeOK'
      <3>1. CASE Writable(e)
        BY <1>3, <3>1, CreateKeepsTypes DEF LogSync
      <3>2. CASE ~Writable(e)
        BY <1>3, <3>2 DEF LogSync, ChainTypeOK, StoredRecord, KnownHashes, EntryStatus
      <3> QED  BY <3>1, <3>2
    <2>2. logged' \in Seq(Entry) /\ at_stop' \in 0 .. Len(logged')
      BY <1>3 DEF LogSync, LoggerTypeOK
    <2> QED  BY <1>3, <2>1, <2>2 DEF LogSync, LoggerTypeOK
  <1>4. CASE LoggerFlushLoop
    <2>1. ChainTypeOK'
      BY <1>4 DEF LoggerFlushLoop, chainVars, ChainTypeOK, StoredRecord, KnownHashes
    <2>2. buffer \in Seq(Entry) /\ buffer # <<>> /\ BeginLoggerFlush(buffer)
      BY <1>4 DEF LoggerFlushLoop, LoggerTypeOK
    <2> QED  BY <1>4, <2>1, <2>2, BeginFlushTypes DEF LoggerFlushLoop, LoggerTypeOK
  <1>5. CASE LoggerFlushEntry
    <2>1. flushing \in Seq(Entry) /\ flushing # <<>> /\ Head(flushing) \in Entry
      BY <1>5 DEF LoggerFlushEntry, LoggerTypeOK
    <2>2. ChainTypeOK'
      <3>1. CASE Writable(Head(flushing))
        BY <1>5, <2>1, <3>1, CreateKeepsTypes DEF LoggerFlushEntry
      <3>2. CASE ~Writable(Head(flushing))
        BY <1>5, <3>2 DEF LoggerFlushEntry, chainVars, ChainTypeOK, StoredRecord, KnownHashes
      <3> QED  BY <3>1, <3>2
    <2>3. flushing' = Tail(flushing) /\ flushing' \in Seq(Entry)
      BY <1>5, <2>1 DEF LoggerFlushEntry
    <2>4. loop' = IF flushing' = <<>> THEN Idle ELSE "logger_flush"
      BY <1>5, <2>1, <2>3, LastOfFlush DEF LoggerFlushEntry
    <2>5. loop' \in Loops /\ ((loop' = "logger_flush") <=> (flushing' # <<>>))
      BY <2>4 DEF Loops, Idle
    <2> QED  BY <1>5, <2>2, <2>3, <2>5 DEF LoggerFlushEntry, LoggerTypeOK
  <1>6. CASE LoggerStop
    <2>1. ChainTypeOK'
      BY <1>6 DEF LoggerStop, chainVars, ChainTypeOK, StoredRecord, KnownHashes
    <2>2. at_stop' \in 0 .. Len(logged') /\ logged' \in Seq(Entry) /\ logger_running' \in BOOLEAN
      <3>1. logged \in Seq(Entry) /\ logged' = logged /\ at_stop' = Len(logged)
        BY <1>6 DEF LoggerStop, LoggerTypeOK
      <3>2. Len(logged) \in 0 .. Len(logged)
        BY <3>1
      <3> QED  BY <1>6, <3>1, <3>2 DEF LoggerStop
    <2>3. CASE buffer = <<>>
      BY <1>6, <2>1, <2>2, <2>3 DEF LoggerStop, LoggerTypeOK
    <2>4. CASE buffer # <<>>
      <3>1. buffer \in Seq(Entry) /\ BeginLoggerFlush(buffer)
        BY <1>6, <2>4 DEF LoggerStop, LoggerTypeOK
      <3> QED  BY <2>1, <2>2, <2>4, <3>1, BeginFlushTypes DEF LoggerTypeOK
    <2> QED  BY <2>3, <2>4
  <1>7. CASE Verify
    <2>1. OnlyVerdicts
      BY <1>7, VerifyOnlyVerdicts, ScanOnlyVerdicts DEF Verify
    <2> QED  BY <1>7, <2>1, VerdictsKeepTypes DEF Verify, LoggerTypeOK, loggerVars
  <1>8. CASE UNCHANGED vars
    BY <1>8 DEF vars, chainVars, loggerVars, LoggerTypeOK, ChainTypeOK, StoredRecord, KnownHashes
  <1> QED  BY <1>1, <1>2, <1>3, <1>4, <1>5, <1>6, <1>7, <1>8 DEF LoggerNext, Log

\* The logger's state keeps its types: in particular the buffer stays below the
\* size that forces a flush whatever the order of calls, wake-ups and stops.
THEOREM LoggerTypes == Spec => []TypeOK
  <1>1. Init => TypeOK
    BY InitTypeOK
  <1>2. TypeOK /\ [LoggerNext]_vars => TypeOK'
    BY NextTypeOK
  <1> QED  BY <1>1, <1>2, PTL DEF Spec

-----------------------------------------------------------------------------
\* The chain stays linked.

LEMMA NextLinked ==
    ASSUME TypeOK, ChainLinked, [LoggerNext]_vars
    PROVE  ChainLinked'
  <1>a. async_logging' = async_logging
    BY DEF LoggerNext, Log, LoggerStart, LogBuffered, LogSync, LoggerFlushLoop,
           LoggerFlushEntry, LoggerStop, Verify, vars, loggerVars
  <1> USE <1>a DEF TypeOK
  <1>1. CASE UNCHANGED <<entries, chain_state>>
    BY <1>1 DEF ChainLinked, Recomputed
  <1>2. ASSUME NEW e \in Entry, CreateChainEntry(e)
        PROVE  ChainLinked'
    BY <1>2, CreateKeepsLinked
  <1>3. CASE LoggerStart \/ LoggerFlushLoop \/ LoggerStop \/ UNCHANGED vars
    BY <1>1, <1>3 DEF LoggerStart, LoggerFlushLoop, LoggerStop, vars, chainVars
  <1>4. ASSUME NEW e \in Entry, LogBuffered(e)
        PROVE  ChainLinked'
    BY <1>1, <1>4 DEF LogBuffered
  <1>5. ASSUME NEW e \in Entry, LogSync(e)
        PROVE  ChainLinked'
    BY <1>1, <1>2, <1>5 DEF LogSync
  <1>6. CASE LoggerFlushEntry
    <2>1. Head(flushing) \in Entry
      BY <1>6, InSeqTail DEF LoggerFlushEntry, LoggerTypeOK
    <2>2. CreateChainEntry(Head(flushing)) \/ UNCHANGED chainVars
      BY <1>6 DEF LoggerFlushEntry
    <2> QED  BY <1>1, <1>2, <2>1, <2>2 DEF chainVars
  <1>7. CASE Verify
    BY <1>7, VerifyOnlyVerdicts, ScanOnlyVerdicts, VerdictsKeepLinked DEF Verify
  <1> QED  BY <1>3, <1>4, <1>5, <1>6, <1>7 DEF LoggerNext, Log

\* Whichever way entries reach the chain, each record is numbered by its position,
\* hashed over its own fields and linked to the record before it.
THEOREM LoggerChainLinked == Spec => []ChainLinked
  <1>1. Init => ChainLinked
    BY ChainInitOK DEF Init
  <1>2. TypeOK /\ ChainLinked /\ [LoggerNext]_vars => ChainLinked'
    BY NextLinked
  <1> QED  BY <1>1, <1>2, LoggerTypes, PTL DEF Spec

-----------------------------------------------------------------------------
\* Custody: where a logged entry is.  PendingIsHeld and StopDrains hold
\* together with what log() leaves behind for good: a logged entry is never new
\* again, and in synchronous mode only an unserialisable entry stays PENDING.

SyncPending == \A e \in Entry : (~async_logging /\ status[e] = "pending") => ~Writable(e)

LoggedSubmitted == \A i \in DOMAIN logged : status[logged[i]] # "new"

StopInProgress ==
    \A i \in 1 .. at_stop :
        Writable(logged[i]) => (InChain(logged[i]) \/ InSeq(logged[i], flushing))

Custody == PendingIsHeld /\ SyncPending /\ LoggedSubmitted /\ StopInProgress

LEMMA InitCustody ==
    ASSUME Init
    PROVE  Custody
  <1>1. entries = <<>> /\ logged = <<>> /\ at_stop = 0 /\ DOMAIN entries = {} /\ DOMAIN logged = {}
    BY DEF Init, ChainInit, LoggerInit
  <1>2. \A e \in Entry : status[e] = "new" /\ ~InChain(e)
    BY <1>1 DEF Init, ChainInit, InChain
  <1>3. 1 .. at_stop = {}
    BY <1>1
  <1> QED  BY <1>1, <1>2, <1>3 DEF Custody, PendingIsHeld, SyncPending, LoggedSubmitted, StopInProgress

\* The entries of `logged` that stop() counted are stored positions of it.
LEMMA AtStopLogged ==
    ASSUME LoggerTypeOK, NEW i \in 1 .. at_stop
    PROVE  i \in DOMAIN logged /\ logged[i] \in Entry
  <1>1. Len(logged) \in Nat /\ DOMAIN logged = 1 .. Len(logged) /\ at_stop \in 0 .. Len(logged)
    BY DEF LoggerTypeOK
  <1>2. i \in 1 .. Len(logged)
    BY <1>1
  <1> QED  BY <1>1, <1>2 DEF LoggerTypeOK

\* log(e) adds one entry at the end of `logged`.
LEMMA LoggedGrows ==
    ASSUME LoggerTypeOK, NEW e \in Entry, logged' = Append(logged, e)
    PROVE  /\ \A i \in DOMAIN logged' : (i \in DOMAIN logged /\ logged'[i] = logged[i]) \/ logged'[i] = e
           /\ \A i \in 1 .. at_stop : logged'[i] = logged[i]
  <1>1. /\ Len(logged) \in Nat
        /\ DOMAIN logged = 1 .. Len(logged)
        /\ at_stop \in 0 .. Len(logged)
        /\ DOMAIN logged' = 1 .. Len(logged) + 1
        /\ \A i \in 1 .. Len(logged) : logged'[i] = logged[i]
        /\ logged'[Len(logged) + 1] = e
    BY AppendProperties DEF LoggerTypeOK
  <1>2. ASSUME NEW i \in DOMAIN logged'
        PROVE  i \in 1 .. Len(logged) \/ i = Len(logged) + 1
    BY <1>1
  <1>3. ASSUME NEW i \in 1 .. at_stop
        PROVE  i \in 1 .. Len(logged)
    BY <1>1
  <1> QED  BY <1>1, <1>2, <1>3

\* An entry log() buffers is afterwards in the buffer or in the flush it set off,
\* with every entry that was buffered before it.
LEMMA BufferedIsHeld ==
    ASSUME LoggerTypeOK, NEW e \in Entry, LogBuffered(e), NEW x \in Entry
    PROVE  /\ (InSeq(x, buffer) \/ InSeq(x, flushing) \/ x = e)
                 => (InSeq(x, buffer)' \/ InSeq(x, flushing)')
           /\ InSeq(x, flushing) => InSeq(x, flushing)'
  <1>1. flushing = <<>>
    BY DEF LogBuffered, LoggerTypeOK, Idle
  <1>2. ~InSeq(x, flushing)
    BY <1>1, InSeqEmpty
  <1>3. buffer' = Append(buffer, e) \/ flushing' = Append(buffer, e)
    BY DEF LogBuffered, BeginLoggerFlush
  <1>4. (InSeq(x, buffer) \/ x = e) => InSeq(x, Append(buffer, e))
    BY InSeqAppend DEF LoggerTypeOK
  <1> QED  BY <1>2, <1>3, <1>4 DEF InSeq

LEMMA NextCustody ==
    ASSUME TypeOK, Custody, [LoggerNext]_vars
    PROVE  Custody'
  <1>a. async_logging' = async_logging
    BY DEF LoggerNext, Log, LoggerStart, LogBuffered, LogSync, LoggerFlushLoop,
           LoggerFlushEntry, LoggerStop, Verify, vars, loggerVars
  <1> USE <1>a DEF TypeOK
  <1>0. /\ status \in [Entry -> EntryStatus]
        /\ buffer \in Seq(Entry)
        /\ flushing \in Seq(Entry)
        /\ logged \in Seq(Entry)
        /\ \A i \in DOMAIN logged : logged[i] \in Entry
    BY DEF ChainTypeOK, LoggerTypeOK
  <1>1. CASE UNCHANGED <<chainVars, buffer, flushing, logged, at_stop>>
    BY <1>1 DEF chainVars, Custody, PendingIsHeld, SyncPending, LoggedSubmitted,
                StopInProgress, InChain, InSeq, Writable
  <1>2. ASSUME NEW e \in Entry, LogBuffered(e)
        PROVE  Custody'
    <2>1. /\ status[e] = "new"
          /\ status' = [status EXCEPT ![e] = "pending"]
          /\ UNCHANGED <<entries, at_stop>>
          /\ logged' = Append(logged, e)
          /\ async_logging
      BY <1>2 DEF LogBuffered
    <2>2. \A x : InChain(x)' <=> InChain(x)
      BY <2>1 DEF InChain
    <2>3. PendingIsHeld'
      BY <1>0, <1>2, <2>1, <2>2, BufferedIsHeld DEF Custody, PendingIsHeld, Writable
    <2>4. SyncPending'
      BY <2>1 DEF SyncPending
    <2>5. LoggedSubmitted'
      BY <1>0, <2>1, LoggedGrows DEF Custody, LoggedSubmitted
    <2>6. StopInProgress'
      BY <1>0, <1>2, <2>1, <2>2, LoggedGrows, AtStopLogged, BufferedIsHeld
         DEF Custody, StopInProgress, Writable
    <2> QED  BY <2>3, <2>4, <2>5, <2>6 DEF Custody
  <1>3. ASSUME NEW e \in Entry, LogSync(e)
        PROVE  Custody'
    <2>1. /\ status[e] = "new"
          /\ logged' = Append(logged, e)
          /\ UNCHANGED <<buffer, flushing, at_stop>>
          /\ ~async_logging
      BY <1>3 DEF LogSync
    <2>2. \A x \in Entry : (InChain(x) => InChain(x)') /\ (x # e => (InChain(x)' <=> InChain(x)))
      <3>1. CASE Writable(e)
        BY <1>3, <3>1, CreateInChain DEF LogSync
      <3>2. CASE ~Writable(e)
        BY <1>3, <3>2 DEF LogSync, InChain
      <3> QED  BY <3>1, <3>2
    <2>3. /\ \A x \in Entry : x # e => status'[x] = status[x]
          /\ status'[e] = IF Writable(e) THEN "completed" ELSE "pending"
      BY <1>0, <1>3 DEF LogSync, CreateChainEntry
    <2>4. (status'[e] = "completed") <=> InChain(e)'
      <3>1. CASE Writable(e)
        BY <1>3, <2>3, <3>1, CreateInChain DEF LogSync
      <3>2. CASE ~Writable(e)
        BY <1>3, <2>1, <2>3, <3>2 DEF LogSync, InChain, Custody, PendingIsHeld
      <3> QED  BY <3>1, <3>2
    <2>5. PendingIsHeld'
      BY <2>1, <2>2, <2>3, <2>4 DEF Custody, PendingIsHeld
    <2>6. SyncPending'
      BY <2>3 DEF Custody, SyncPending, Writable
    <2>7. LoggedSubmitted'
      BY <1>0, <2>1, <2>3, LoggedGrows DEF Custody, LoggedSubmitted
    <2>8. StopInProgress'
      <3>1. at_stop' = at_stop /\ \A x : InSeq(x, flushing)' <=> InSeq(x, flushing)
        BY <2>1 DEF InSeq
      <3>2. \A i \in 1 .. at_stop : logged'[i] = logged[i] /\ logged[i] \in Entry
        BY <2>1, LoggedGrows, AtStopLogged
      <3> QED  BY <2>2, <3>1, <3>2 DEF Custody, StopInProgress, Writable
    <2> QED  BY <2>5, <2>6, <2>7, <2>8 DEF Custody
  <1>4. CASE LoggerFlushLoop
    <2>1. flushing = <<>> /\ flushing' = buffer /\ UNCHANGED <<chainVars, logged, at_stop>>
      BY <1>4 DEF LoggerFlushLoop, BeginLoggerFlush, LoggerTypeOK, Idle
    <2>2. \A x : ~InSeq(x, flushing) /\ (InSeq(x, buffer) => InSeq(x, flushing)')
      BY <2>1, InSeqEmpty DEF InSeq
    <2> QED  BY <2>1, <2>2 DEF chainVars, Custody, PendingIsHeld, SyncPending, LoggedSubmitted,
                StopInProgress, InChain, Writable
  <1>5. CASE LoggerFlushEntry
    <2> DEFINE h == Head(flushing)
    <2>1. /\ flushing # <<>>
          /\ flushing' = Tail(flushing)
          /\ IF Writable(h) THEN CreateChainEntry(h) ELSE UNCHANGED chainVars
          /\ UNCHANGED <<buffer, logged, at_stop>>
      BY <1>5 DEF LoggerFlushEntry, LoggerTypeOK
    <2>2. /\ h \in Entry
          /\ \A x \in Entry : InSeq(x, flushing) => (x = h \/ InSeq(x, Tail(flushing)))
      BY <1>0, <2>1, InSeqTail
    <2>3. \A x \in Entry : InSeq(x, flushing) => (x = h \/ InSeq(x, flushing)')
      BY <2>1, <2>2 DEF InSeq
    <2>4. \A x : InChain(x)' <=> (InChain(x) \/ (x = h /\ Writable(h)))
      <3>1. CASE Writable(h)
        BY <2>1, <2>2, <3>1, CreateInChain
      <3>2. CASE ~Writable(h)
        BY <2>1, <3>2 DEF chainVars, InChain
      <3> QED  BY <3>1, <3>2
    <2>5. \A x \in Entry :
              status'[x] = IF x = h /\ Writable(h) THEN "completed" ELSE status[x]
      BY <1>0, <2>1, <2>2 DEF CreateChainEntry, chainVars
    <2>6. \A x : InSeq(x, buffer)' <=> InSeq(x, buffer)
      BY <2>1 DEF InSeq
    <2> HIDE DEF h
    <2>7. PendingIsHeld'
      BY <2>2, <2>3, <2>4, <2>5, <2>6 DEF Custody, PendingIsHeld, Writable
    <2>8. SyncPending'
      BY <2>5 DEF Custody, SyncPending, Writable
    <2>9. LoggedSubmitted'
      BY <1>0, <2>1, <2>5 DEF Custody, LoggedSubmitted
    <2>10. StopInProgress'
      BY <2>1, <2>3, <2>4, AtStopLogged DEF Custody, StopInProgress, Writable
    <2> QED  BY <2>7, <2>8, <2>9, <2>10 DEF Custody
  <1>6. CASE LoggerStop
    <2>1. /\ flushing = <<>>
          /\ flushing' = buffer
          /\ UNCHANGED <<chainVars, logged>>
          /\ at_stop' = Len(logged)
      BY <1>6 DEF LoggerStop, BeginLoggerFlush, LoggerTypeOK, Idle
    <2>2. \A x : ~InSeq(x, flushing) /\ (InSeq(x, buffer) => InSeq(x, flushing)')
      BY <2>1, InSeqEmpty DEF InSeq
    <2>3. PendingIsHeld' /\ SyncPending' /\ LoggedSubmitted'
      BY <2>1, <2>2 DEF chainVars, Custody, PendingIsHeld, SyncPending, LoggedSubmitted,
                        InChain, Writable
    <2>4. ASSUME NEW i \in DOMAIN logged, Writable(logged[i])
          PROVE  InChain(logged[i]) \/ InSeq(logged[i], buffer)
      <3>1. status[logged[i]] \in {"pending", "completed"}
        BY <1>0 DEF EntryStatus, Custody, LoggedSubmitted
      <3> QED  BY <1>0, <2>2, <2>4, <3>1 DEF Custody, PendingIsHeld, SyncPending
    <2>5. DOMAIN logged = 1 .. Len(logged)
      BY <1>0
    <2>6. StopInProgress'
      <3>1. logged' = logged /\ 1 .. at_stop' = DOMAIN logged
        BY <2>1, <2>5
      <3>2. \A x : InChain(x)' <=> InChain(x)
        BY <2>1 DEF InChain, chainVars
      <3> QED  BY <2>2, <2>4, <3>1, <3>2 DEF StopInProgress, Writable
    <2> QED  BY <2>3, <2>6 DEF Custody
  <1>7. CASE Verify
    <2>1. OnlyVerdicts /\ UNCHANGED loggerVars
      BY <1>7, VerifyOnlyVerdicts, ScanOnlyVerdicts DEF Verify
    <2>2. \A x : InChain(x)' <=> InChain(x)
      BY <2>1, VerdictsInChain
    <2>3. status' = status
      BY <2>1 DEF OnlyVerdicts
    <2> QED  BY <2>1, <2>2, <2>3 DEF loggerVars, Custody, PendingIsHeld, SyncPending,
                LoggedSubmitted, StopInProgress, InSeq, Writable
  <1>8. CASE LoggerStart \/ UNCHANGED vars
    BY <1>1, <1>8 DEF LoggerStart, vars, loggerVars
  <1> QED  BY <1>2, <1>3, <1>4, <1>5, <1>6, <1>7, <1>8 DEF LoggerNext, Log

\* No entry is lost in memory: in buffered mode an entry whose write is outstanding
\* is in the buffer or in the running flush, and COMPLETED is only said of an
\* entry that is in the chain.
THEOREM LoggerHoldsPending == Spec => []PendingIsHeld
  <1>1. Init => Custody
    BY InitCustody
  <1>2. TypeOK /\ Custody /\ [LoggerNext]_vars => Custody'
    BY NextCustody
  <1>3. Custody => PendingIsHeld
    BY DEF Custody
  <1> QED  BY <1>1, <1>2, <1>3, LoggerTypes, PTL DEF Spec

\* stop() drains: when its flush is over, every entry logged before stop() was
\* called is in the chain, unless it could not be serialised.
THEOREM LoggerStopDrains == Spec => []StopDrains
  <1>1. Init => Custody
    BY InitCustody
  <1>2. TypeOK /\ Custody /\ [LoggerNext]_vars => Custody'
    BY NextCustody
  <1>3. TypeOK /\ Custody => StopDrains
    <2>1. ASSUME TypeOK, Custody, loop = Idle
          PROVE  \A x : ~InSeq(x, flushing)
      BY <2>1, InSeqEmpty DEF TypeOK, LoggerTypeOK, Idle
    <2> QED  BY <2>1 DEF Custody, StopInProgress, StopDrains
  <1> QED  BY <1>1, <1>2, <1>3, LoggerTypes, PTL DEF Spec

-----------------------------------------------------------------------------
\* The logger implements AuditTrail.  A flush begins only when none is running,
\* so the line of waiting entries is the buffer before it and the flush after it.

Accepted == {e \in Entry : status[e] # "new"}
Line == flushing \o buffer
Ids == [i \in DOMAIN entries |-> entries[i].audit_id]

LEMMA EmptyLine ==
    ASSUME NEW s \in Seq(Entry)
    PROVE  <<>> \o s = s /\ s \o <<>> = s
  OBVIOUS

LEMMA SeqExtensional ==
    ASSUME NEW s \in Seq(Entry), NEW t \in Seq(Entry),
           Len(s) = Len(t), \A i \in 1 .. Len(s) : s[i] = t[i]
    PROVE  s = t
  OBVIOUS

LEMMA LineAppends ==
    ASSUME NEW s \in Seq(Entry), NEW e \in Entry
    PROVE  Append(s, e) \in Seq(Entry)
  OBVIOUS

\* The head of the flush in progress is the head of the line.
LEMMA LineTail ==
    ASSUME NEW f \in Seq(Entry), NEW b \in Seq(Entry), f # <<>>
    PROVE  /\ f \o b # <<>>
           /\ Head(f \o b) = Head(f)
           /\ Tail(f \o b) = Tail(f) \o b
  <1>1. Len(f) \in Nat \ {0} /\ Len(b) \in Nat /\ Len(f \o b) = Len(f) + Len(b)
    OBVIOUS
  <1>2. Len(f \o b) # 0
    BY <1>1
  <1>3. Head(f \o b) = Head(f)
    BY <1>1
  <1> DEFINE l == Tail(f \o b)
             r == Tail(f) \o b
  <1>4. f \o b \in Seq(Entry) /\ f \o b # <<>> /\ Tail(f) \in Seq(Entry)
    BY <1>2
  <1>5. l \in Seq(Entry) /\ r \in Seq(Entry) /\ Len(l) = Len(r)
    BY <1>1, <1>4
  <1>6. ASSUME NEW i \in 1 .. Len(l)
        PROVE  l[i] = r[i]
    <2>1. Len(l) = Len(f) + Len(b) - 1 /\ Len(Tail(f)) = Len(f) - 1
      BY <1>1, <1>4
    <2>2. i + 1 \in 1 .. Len(f \o b) /\ l[i] = (f \o b)[i + 1]
      BY <1>1, <1>4, <2>1
    <2>3. CASE i <= Len(f) - 1
      BY <1>1, <1>4, <2>1, <2>2, <2>3
    <2>4. CASE i > Len(f) - 1
      BY <1>1, <1>4, <2>1, <2>2, <2>4
    <2> QED  BY <1>1, <2>3, <2>4
  <1>7. l = r
    BY <1>5, <1>6, SeqExtensional
  <1> QED  BY <1>3, <1>4, <1>7

\* Storing a record adds its id to the trail.
LEMMA CreateTrail ==
    ASSUME ChainTypeOK, NEW e \in Entry, CreateChainEntry(e)
    PROVE  /\ Ids' = Append(Ids, e)
           /\ e \notin Unserialisable
  <1>1. ChainRecord(e).audit_id = e
    BY DEF ChainRecord
  <1>2. entries \in Seq(StoredRecord) /\ entries' = Append(entries, ChainRecord(e))
    BY DEF CreateChainEntry, ChainTypeOK
  <1>3. /\ Len(entries) \in Nat
        /\ DOMAIN entries = 1 .. Len(entries)
        /\ DOMAIN entries' = 1 .. Len(entries) + 1
        /\ \A i \in 1 .. Len(entries) : entries'[i] = entries[i]
        /\ entries'[Len(entries) + 1] = ChainRecord(e)
    BY <1>2
  <1>4. Ids \in Seq(Entry) /\ Len(Ids) = Len(entries)
    <2>1. \A i \in DOMAIN entries : entries[i].audit_id \in Entry
      <3>1. \A i \in DOMAIN entries : entries[i] \in StoredRecord
        BY <1>2, <1>3
      <3> QED  BY <3>1 DEF StoredRecord
    <2>2. Ids \in [DOMAIN entries -> Entry]
      BY <2>1 DEF Ids
    <2> QED  BY <1>2, <2>2, SeqOfSameLength
  <1> QED  BY <1>1, <1>3, <1>4 DEF Ids, CreateChainEntry, Writable

\* What an action of the trail comes to in terms of the logger's state.
LEMMA TrailStep ==
    ASSUME [\/ \E e \in Entry :
                  /\ e \notin Accepted /\ Accepted' = Accepted \union {e}
                  /\ \/ Line' = Append(Line, e) /\ Ids' = Ids
                     \/ /\ Line = <<>> /\ Line' = Line
                        /\ Ids' = IF e \in Unserialisable THEN Ids ELSE Append(Ids, e)
            \/ /\ Line # <<>> /\ Line' = Tail(Line) /\ Accepted' = Accepted
               /\ Ids' = IF Head(Line) \in Unserialisable THEN Ids ELSE Append(Ids, Head(Line))
           ]_<<Accepted, Line, Ids>>
    PROVE  [Trail!Next]_(Trail!vars)
  BY DEF Trail!Next, Trail!Accept, Trail!AcceptAndSettle, Trail!SettleFirst, Trail!Settled,
         Trail!vars, Accepted, Line, Ids

\* A flush may only begin when the last one is over, so it leaves the line alone.
LEMMA BeginFlushKeepsLine ==
    ASSUME LoggerTypeOK, loop = Idle, NEW p \in Seq(Entry), BeginLoggerFlush(p)
    PROVE  Line = buffer /\ Line' = p
  BY EmptyLine DEF LoggerTypeOK, Idle, BeginLoggerFlush, Line

\* The line in synchronous mode is empty, and what is on it has been submitted.
LineInv ==
    /\ ~async_logging => (buffer = <<>> /\ flushing = <<>>)
    /\ \A e \in Entry : (InSeq(e, buffer) \/ InSeq(e, flushing)) => status[e] # "new"

LEMMA InitLineInv ==
    ASSUME Init
    PROVE  LineInv
  BY InSeqEmpty DEF Init, LoggerInit, LineInv

LEMMA NextLineInv ==
    ASSUME TypeOK, LineInv, [LoggerNext]_vars
    PROVE  LineInv'
  <1>a. async_logging' = async_logging
    BY DEF LoggerNext, Log, LoggerStart, LogBuffered, LogSync, LoggerFlushLoop,
           LoggerFlushEntry, LoggerStop, Verify, vars, loggerVars
  <1> USE <1>a DEF TypeOK
  <1>0. /\ status \in [Entry -> EntryStatus]
        /\ buffer \in Seq(Entry)
        /\ flushing \in Seq(Entry)
        /\ loop = Idle => flushing = <<>>
    BY DEF ChainTypeOK, LoggerTypeOK, Idle
  <1>1. ASSUME NEW e \in Entry, LogBuffered(e)
        PROVE  LineInv'
    <2>1. /\ async_logging
          /\ \A x \in Entry : status'[x] # "new" <=> (status[x] # "new" \/ x = e)
      BY <1>0, <1>1 DEF LogBuffered
    <2>2. ASSUME NEW x \in Entry, InSeq(x, buffer)' \/ InSeq(x, flushing)'
          PROVE  x = e \/ InSeq(x, buffer) \/ InSeq(x, flushing)
      <3>1. /\ buffer' \in {Append(buffer, e), <<>>}
            /\ flushing' \in {Append(buffer, e), flushing}
        BY <1>1 DEF LogBuffered, BeginLoggerFlush
      <3>2. InSeq(x, Append(buffer, e)) <=> (InSeq(x, buffer) \/ x = e)
        BY <1>0, InSeqAppend
      <3> QED  BY <2>2, <3>1, <3>2, InSeqEmpty DEF InSeq
    <2> QED  BY <2>1, <2>2 DEF LineInv
  <1>2. ASSUME NEW e \in Entry, LogSync(e)
        PROVE  LineInv'
    BY <1>2, InSeqEmpty DEF LogSync, LineInv
  <1>3. CASE LoggerFlushLoop \/ LoggerStop
    <2>1. status' = status
      BY <1>3 DEF LoggerFlushLoop, LoggerStop, chainVars
    <2>2. (buffer' = <<>> /\ flushing' = buffer) \/ UNCHANGED <<buffer, flushing>>
      BY <1>3 DEF LoggerFlushLoop, LoggerStop, BeginLoggerFlush
    <2> QED  BY <2>1, <2>2, InSeqEmpty DEF LineInv, InSeq
  <1>4. CASE LoggerFlushEntry
    <2>1. /\ flushing # <<>> /\ Head(flushing) \in Entry
          /\ flushing' = Tail(flushing) /\ buffer' = buffer
          /\ IF Writable(Head(flushing)) THEN CreateChainEntry(Head(flushing)) ELSE UNCHANGED chainVars
      BY <1>0, <1>4 DEF LoggerFlushEntry, LoggerTypeOK
    <2>2. \A x \in Entry : status[x] # "new" => status'[x] # "new"
      BY <1>0, <2>1 DEF CreateChainEntry, chainVars
    <2>3. \A x \in Entry : InSeq(x, Tail(flushing)) => InSeq(x, flushing)
      BY <1>0, <2>1, InSeqTail
    <2>4. \A x \in Entry : (InSeq(x, flushing)' => InSeq(x, flushing))
                              /\ (InSeq(x, buffer)' <=> InSeq(x, buffer))
      BY <2>1, <2>3 DEF InSeq
    <2>5. async_logging
      BY <2>1 DEF LineInv
    <2> QED  BY <2>2, <2>4, <2>5 DEF LineInv
  <1>5. CASE Verify
    <2>1. OnlyVerdicts /\ UNCHANGED <<loop, loggerVars>>
      BY <1>5, VerifyOnlyVerdicts, ScanOnlyVerdicts DEF Verify
    <2> QED  BY <2>1 DEF OnlyVerdicts, loggerVars, LineInv, InSeq
  <1>6. CASE LoggerStart \/ UNCHANGED vars
    BY <1>6 DEF LoggerStart, vars, loggerVars, chainVars, LineInv, InSeq
  <1> QED  BY <1>1, <1>2, <1>3, <1>4, <1>5, <1>6 DEF LoggerNext, Log

LEMMA NextTrail ==
    ASSUME TypeOK, LineInv, [LoggerNext]_vars
    PROVE  [Trail!Next]_(Trail!vars)
  <1> USE DEF TypeOK
  <1>0. /\ status \in [Entry -> EntryStatus]
        /\ buffer \in Seq(Entry)
        /\ flushing \in Seq(Entry)
        /\ loop = Idle => (flushing = <<>> /\ Line = buffer)
    BY EmptyLine DEF ChainTypeOK, LoggerTypeOK, Idle, Line
  <1>1. ASSUME NEW e \in Entry, status[e] = "new", NEW s \in {"pending", "completed"},
               status' = [status EXCEPT ![e] = s]
        PROVE  e \notin Accepted /\ Accepted' = Accepted \union {e}
    BY <1>0, <1>1 DEF Accepted
  <1>2. ASSUME NEW e \in Entry, LogBuffered(e)
        PROVE  [Trail!Next]_(Trail!vars)
    <2>1. e \notin Accepted /\ Accepted' = Accepted \union {e}
      BY <1>1, <1>2 DEF LogBuffered
    <2>2. Append(buffer, e) \in Seq(Entry) /\ loop = Idle
      BY <1>0, <1>2 DEF LogBuffered
    <2>3. Line' = Append(Line, e)
      <3>1. CASE Len(buffer) + 1 >= BufferSize
        BY <1>0, <1>2, <2>2, <3>1, BeginFlushKeepsLine DEF LogBuffered
      <3>2. CASE ~(Len(buffer) + 1 >= BufferSize)
        BY <1>0, <1>2, <2>2, <3>2, EmptyLine DEF LogBuffered, Line
      <3> QED  BY <3>1, <3>2
    <2>4. Ids' = Ids
      BY <1>2 DEF LogBuffered, Ids
    <2> QED  BY <2>1, <2>3, <2>4, TrailStep
  <1>3. ASSUME NEW e \in Entry, LogSync(e)
        PROVE  [Trail!Next]_(Trail!vars)
    <2>1. e \notin Accepted /\ Accepted' = Accepted \union {e}
      BY <1>1, <1>3 DEF LogSync, CreateChainEntry
    <2>2. Line' = Line /\ Line = buffer
      BY <1>0, <1>3 DEF LogSync, Line
    <2>3. Ids' = IF e \in Unserialisable THEN Ids ELSE Append(Ids, e)
      <3>1. CASE Writable(e)
        BY <1>3, <3>1, CreateTrail DEF LogSync
      <3>2. CASE ~Writable(e)
        BY <1>3, <3>2 DEF LogSync, Ids, Writable
      <3> QED  BY <3>1, <3>2
    <2>4. Line = <<>>
      BY <1>3, EmptyLine DEF LogSync, LineInv, Line
    <2> QED  BY <2>1, <2>2, <2>3, <2>4, TrailStep
  <1>4. CASE LoggerFlushLoop \/ LoggerStop
    <2>1. Accepted' = Accepted /\ Ids' = Ids /\ loop = Idle
      BY <1>4 DEF LoggerFlushLoop, LoggerStop, chainVars, Accepted, Ids
    <2>2. BeginLoggerFlush(buffer) \/ UNCHANGED <<buffer, flushing>>
      BY <1>4 DEF LoggerFlushLoop, LoggerStop
    <2>3. Line' = Line
      <3>1. CASE BeginLoggerFlush(buffer)
        BY <1>0, <2>1, <3>1, BeginFlushKeepsLine
      <3>2. CASE UNCHANGED <<buffer, flushing>>
        BY <3>2 DEF Line
      <3> QED  BY <2>2, <3>1, <3>2
    <2> QED  BY <2>1, <2>3, TrailStep
  <1>5. CASE LoggerFlushEntry
    <2> DEFINE h == Head(flushing)
    <2>1. /\ flushing # <<>> /\ h \in Entry
          /\ flushing' = Tail(flushing) /\ buffer' = buffer
          /\ IF Writable(h) THEN CreateChainEntry(h) ELSE UNCHANGED chainVars
      BY <1>0, <1>5 DEF LoggerFlushEntry, LoggerTypeOK
    <2>2. Line # <<>> /\ Head(Line) = h /\ Line' = Tail(Line)
      BY <1>0, <2>1, LineTail DEF Line
    <2> HIDE DEF h
    <2>3. Ids' = IF h \in Unserialisable THEN Ids ELSE Append(Ids, h)
      <3>1. CASE Writable(h)
        BY <2>1, <3>1, CreateTrail
      <3>2. CASE ~Writable(h)
        BY <2>1, <3>2 DEF chainVars, Ids, Writable
      <3> QED  BY <3>1, <3>2
    <2>4. Accepted' = Accepted
      <3>1. InSeq(h, flushing)
        BY <1>0, <2>1, InSeqTail DEF h
      <3>2. status[h] # "new"
        BY <2>1, <3>1 DEF LineInv
      <3>3. \A x \in Entry : status'[x] # "new" <=> status[x] # "new"
        BY <1>0, <2>1, <3>2 DEF CreateChainEntry, chainVars
      <3> QED  BY <3>3 DEF Accepted
    <2> QED  BY <2>2, <2>3, <2>4, TrailStep
  <1>6. CASE Verify
    <2>1. OnlyVerdicts /\ UNCHANGED <<loop, loggerVars>>
      BY <1>6, VerifyOnlyVerdicts, ScanOnlyVerdicts DEF Verify
    <2>2. Ids' = Ids
      BY <2>1, VerdictsKeepRecords DEF Ids
    <2> QED  BY <2>1, <2>2, TrailStep DEF OnlyVerdicts, Accepted, Line, loggerVars
  <1>7. CASE LoggerStart \/ UNCHANGED vars
    <2>1. UNCHANGED <<chainVars, buffer, flushing>>
      BY <1>7 DEF LoggerStart, vars, loggerVars
    <2> QED  BY <2>1, TrailStep DEF chainVars, Accepted, Line, Ids
  <1> QED  BY <1>2, <1>3, <1>4, <1>5, <1>6, <1>7 DEF LoggerNext, Log

\* The logger implements AuditTrail: in both modes, whatever the sizes, wake-ups,
\* stops, failures and verifications, entries reach the chain once each and in the
\* order they were accepted, and only what cannot be serialised is missing.
THEOREM LoggerImplementsTrail == Spec => ImplementsTrail
  <1>1. Init => Trail!Init
    <2> SUFFICES ASSUME Init
                 PROVE  Trail!Init
      OBVIOUS
    <2>1. Accepted = {} /\ Line = <<>>
      <3>1. <<>> \o <<>> = <<>>
        OBVIOUS
      <3> QED  BY <3>1 DEF Init, ChainInit, LoggerInit, Accepted, Line
    <2>2. Ids = <<>>
      <3>1. entries = <<>>
        BY DEF Init, ChainInit
      <3> QED  BY <3>1 DEF Ids
    <2> QED  BY <2>1, <2>2 DEF Trail!Init, Accepted, Line, Ids
  <1>2. TypeOK /\ LineInv /\ [LoggerNext]_vars => [Trail!Next]_(Trail!vars)
    BY NextTrail
  <1>3. Init => LineInv
    BY InitLineInv
  <1>4. TypeOK /\ LineInv /\ [LoggerNext]_vars => LineInv'
    BY NextLineInv
  <1> QED  BY <1>1, <1>2, <1>3, <1>4, LoggerTypes, PTL DEF Spec, ImplementsTrail, Trail!Spec

-----------------------------------------------------------------------------
\* What readers of the chain may rely on.

\* A step appends one record to the chain, stores verdicts in it, or leaves it.
LEMMA ChainSteps ==
    ASSUME TypeOK, [LoggerNext]_vars
    PROVE  \/ \E e \in Entry : CreateChainEntry(e)
           \/ OnlyVerdicts
           \/ UNCHANGED entries
  <1> USE DEF TypeOK
  <1>1. CASE LoggerStart \/ LoggerFlushLoop \/ LoggerStop \/ UNCHANGED vars
    BY <1>1 DEF LoggerStart, LoggerFlushLoop, LoggerStop, vars, chainVars
  <1>2. ASSUME NEW e \in Entry, Log(e)
        PROVE  CreateChainEntry(e) \/ UNCHANGED entries
    BY <1>2 DEF Log, LogBuffered, LogSync
  <1>3. CASE LoggerFlushEntry
    <2>1. flushing \in Seq(Entry) /\ flushing # <<>>
      BY <1>3 DEF LoggerFlushEntry, LoggerTypeOK
    <2>2. Head(flushing) \in Entry
      BY <2>1
    <2> QED  BY <1>3, <2>2 DEF LoggerFlushEntry, chainVars
  <1>4. CASE Verify
    BY <1>4, VerifyOnlyVerdicts, ScanOnlyVerdicts DEF Verify
  <1> QED  BY <1>1, <1>2, <1>3, <1>4 DEF LoggerNext

LEMMA NextBodiesKept ==
    ASSUME TypeOK, BodiesKept, [LoggerNext]_vars
    PROVE  BodiesKept'
  <1> USE DEF TypeOK
  <1>1. CASE OnlyVerdicts
    BY <1>1, VerdictsKeepRecords DEF BodiesKept
  <1>2. CASE UNCHANGED entries
    BY <1>2 DEF BodiesKept
  <1> QED  BY <1>1, <1>2, ChainSteps, CreateKeepsBodies

\* No false alarm: the chain the logger writes passes verify_chain over every range
\* and the scan, whatever was verified before and whichever entries failed.
THEOREM LoggerNoFalseAlarm == Spec => []NoFalseAlarm
  <1>1. Init => BodiesKept
    BY DEF Init, ChainInit, BodiesKept
  <1>2. TypeOK /\ BodiesKept /\ [LoggerNext]_vars => BodiesKept'
    BY NextBodiesKept
  <1>3. TypeOK /\ ChainLinked /\ BodiesKept => NoFalseAlarm
    BY LinkedIsValid DEF TypeOK, NoFalseAlarm
  <1> QED  BY <1>1, <1>2, <1>3, LoggerTypes, LoggerChainLinked, PTL DEF Spec

\* The chain is append-only: no step replaces, moves or removes a stored record, or
\* changes anything in it but the verdict of its last verification.
THEOREM LoggerAppendOnly == Spec => AppendOnly
  <1> DEFINE Same(i) == [entries'[i] EXCEPT !.verified = entries[i].verified] = entries[i]
             Grows == /\ Len(entries') \in {Len(entries), Len(entries) + 1}
                      /\ \A i \in DOMAIN entries : Same(i)
  <1>1. ASSUME TypeOK, [LoggerNext]_vars
        PROVE  Grows
    <2> USE <1>1 DEF TypeOK
    <2>1. \A i \in DOMAIN entries :
              [entries[i] EXCEPT !.verified = entries[i].verified] = entries[i]
      <3>1. \A i \in DOMAIN entries : entries[i] \in StoredRecord
        BY DEF ChainTypeOK
      <3> QED  BY <3>1 DEF StoredRecord
    <2>2. ASSUME NEW e \in Entry, CreateChainEntry(e)
          PROVE  Grows
      BY <2>1, <2>2, CreateAppends
    <2>3. CASE OnlyVerdicts
      <3>1. Len(entries') = Len(entries)
        BY <2>3, VerdictsKeepRecords
      <3>2. ASSUME NEW i \in DOMAIN entries
            PROVE  Same(i)
        <4>1. entries'[i] = [entries[i] EXCEPT !.verified = entries'[i].verified]
          BY <2>3 DEF OnlyVerdicts
        <4>2. entries[i] \in StoredRecord
          BY DEF ChainTypeOK
        <4> QED  BY <4>1, <4>2 DEF StoredRecord
      <3> QED  BY <3>1, <3>2
    <2>4. CASE UNCHANGED entries
      BY <2>1, <2>4
    <2> QED  BY <2>2, <2>3, <2>4, ChainSteps
  <1>2. TypeOK /\ [LoggerNext]_vars => [Grows]_vars
    BY <1>1
  <1> QED  BY <1>2, LoggerTypes, PTL DEF Spec, AppendOnly

-----------------------------------------------------------------------------
\* AuditVerification: what was written stays on record, and what is stored are rows
\* of it that something else may have altered, in their order.

\* The records create_chain_entry wrote form a chain that ends in the chain state.
WrittenLinked ==
    /\ written \in Seq({written[k] : k \in DOMAIN written})
    /\ chain_state.total = Len(written)
    /\ chain_state.last_sequence = Len(written)
    /\ chain_state.last_hash =
          IF Len(written) = 0 THEN GENESIS_HASH ELSE written[Len(written)].current_hash
    /\ \A k \in DOMAIN written :
          /\ written[k].previous_hash =
                IF k = 1 THEN GENESIS_HASH ELSE written[k - 1].current_hash
          /\ written[k].current_hash =
                ComputeChainHash(written[k].previous_hash, written[k].data_hash, k)

\* Every stored row stands for a written record, in the order they were written.
RowsInOrder ==
    /\ \A i \in DOMAIN entries : entries[i].sequence_number \in DOMAIN written
    /\ \A i, j \in DOMAIN entries :
          i < j => entries[i].sequence_number < entries[j].sequence_number

\* An audit id is in the chain once, and only when it was submitted.
StoredOnce ==
    /\ \A i, j \in DOMAIN entries : entries[i].audit_id = entries[j].audit_id => i = j
    /\ \A i \in DOMAIN entries : status[entries[i].audit_id] # "new"

VerificationInv == ChainTypeOK /\ WrittenLinked /\ RowsInOrder /\ StoredOnce

LEMMA WrittenDomain ==
    ASSUME WrittenLinked
    PROVE  DOMAIN written = 1 .. Len(written) /\ Len(written) \in Nat
  BY DEF WrittenLinked

LEMMA WriteKeepsWritten ==
    ASSUME VerificationInv, NEW e \in Entry, Write(e)
    PROVE  /\ WrittenLinked'
           /\ Len(written') = Len(written) + 1
           /\ DOMAIN written' = 1 .. Len(written) + 1
  <1> DEFINE n == Len(written)
             r == ChainRecord(e)
             W == {written[k] : k \in DOMAIN written}
  <1>1. n \in Nat /\ DOMAIN written = 1 .. n
    BY WrittenDomain DEF VerificationInv
  <1>2. written \in Seq(W) /\ written' = Append(written, r)
    BY DEF VerificationInv, WrittenLinked, Write
  <1>3. /\ r.sequence_number = n + 1
        /\ r.previous_hash = chain_state.last_hash
        /\ r.current_hash = ComputeChainHash(r.previous_hash, r.data_hash, n + 1)
    BY DEF VerificationInv, WrittenLinked, ChainRecord
  <1>4. chain_state' = [last_sequence |-> r.sequence_number,
                        last_hash     |-> r.current_hash,
                        total         |-> chain_state.total + 1]
    BY DEF Write, CreateChainEntry
  <1>5. chain_state.last_hash = (IF n = 0 THEN GENESIS_HASH ELSE written[n].current_hash)
        /\ chain_state.total = n
    BY DEF VerificationInv, WrittenLinked
  <1>0. \A k \in 1 .. n :
           /\ written[k].previous_hash = IF k = 1 THEN GENESIS_HASH ELSE written[k - 1].current_hash
           /\ written[k].current_hash =
                 ComputeChainHash(written[k].previous_hash, written[k].data_hash, k)
    BY <1>1 DEF VerificationInv, WrittenLinked
  <1> HIDE DEF n, r, W
  <1>6. /\ written' \in Seq(W \union {r})
        /\ Len(written') = n + 1
        /\ DOMAIN written' = 1 .. n + 1
        /\ \A k \in 1 .. n : written'[k] = written[k]
        /\ written'[n + 1] = r
    BY <1>2, AppendProperties DEF n
  <1>7. /\ chain_state'.last_sequence = n + 1
        /\ chain_state'.last_hash = r.current_hash
        /\ chain_state'.total = n + 1
    BY <1>3, <1>4, <1>5
  <1>8. written' \in Seq({written'[k] : k \in DOMAIN written'})
    BY <1>6
  <1>9. ASSUME NEW k \in 1 .. n + 1
        PROVE  /\ written'[k].previous_hash =
                     IF k = 1 THEN GENESIS_HASH ELSE written'[k - 1].current_hash
               /\ written'[k].current_hash =
                     ComputeChainHash(written'[k].previous_hash, written'[k].data_hash, k)
    <2>1. CASE k = n + 1
      BY <1>1, <1>3, <1>5, <1>6, <2>1
    <2>2. CASE k \in 1 .. n
      BY <1>0, <1>1, <1>6, <2>2
    <2> QED  BY <1>1, <2>1, <2>2
  <1>10. n + 1 # 0
    BY <1>1
  <1>11. WrittenLinked'
    BY <1>6, <1>7, <1>8, <1>9, <1>10 DEF WrittenLinked
  <1> QED  BY <1>6, <1>11 DEF n

LEMMA WriteKeepsChain ==
    ASSUME VerificationInv, NEW e \in Entry, Write(e)
    PROVE  VerificationInv' /\ chain_state'.total = chain_state.total + 1
  <1> DEFINE n == Len(entries)
             r == ChainRecord(e)
  <1>1. ChainTypeOK /\ CreateChainEntry(e) /\ status[e] = "new"
    BY DEF VerificationInv, Write
  <1>2. /\ Len(written) \in Nat
        /\ DOMAIN written = 1 .. Len(written)
        /\ DOMAIN written' = 1 .. Len(written) + 1
        /\ WrittenLinked'
    BY WrittenDomain, WriteKeepsWritten DEF VerificationInv
  <1>3. r.audit_id = e /\ r.sequence_number = Len(written) + 1
    BY DEF VerificationInv, WrittenLinked, ChainRecord
  <1>4. \A i \in DOMAIN entries' :
             \/ i \in DOMAIN entries /\ entries'[i] = entries[i]
             \/ i = n + 1 /\ entries'[i] = r
    BY <1>1, CreatePositions
  <1>5. DOMAIN entries = 1 .. n /\ n \in Nat
    BY <1>1, EntriesDomain
  <1>6. \A i \in DOMAIN entries : entries[i].audit_id # e /\ entries[i].audit_id \in Entry
    <2>1. \A i \in DOMAIN entries : entries[i] \in StoredRecord
      BY <1>1 DEF ChainTypeOK
    <2>2. \A i \in DOMAIN entries : entries[i].audit_id \in Entry
      BY <2>1 DEF StoredRecord
    <2> QED  BY <1>1, <2>2 DEF VerificationInv, StoredOnce
  <1>7. \A x \in Entry : status'[x] = IF x = e THEN "completed" ELSE status[x]
    BY <1>1 DEF CreateChainEntry, ChainTypeOK
  <1>8. chain_state'.total = chain_state.total + 1
    <2> HIDE DEF r
    <2> QED  BY <1>1 DEF CreateChainEntry
  <1> HIDE DEF n, r
  <1>9. RowsInOrder'
    <2>1. \A i \in DOMAIN entries : entries[i].sequence_number \in 1 .. Len(written)
      BY <1>2 DEF VerificationInv, RowsInOrder
    <2>2. \A i \in DOMAIN entries' : entries'[i].sequence_number \in DOMAIN written'
      BY <1>2, <1>3, <1>4, <2>1
    <2>3. ASSUME NEW i \in DOMAIN entries', NEW j \in DOMAIN entries', i < j
          PROVE  entries'[i].sequence_number < entries'[j].sequence_number
      <3>1. i \in DOMAIN entries /\ entries'[i] = entries[i]
        BY <1>4, <1>5, <2>3
      <3>2. CASE j \in DOMAIN entries /\ entries'[j] = entries[j]
        BY <2>3, <3>1, <3>2 DEF VerificationInv, RowsInOrder
      <3>3. CASE j = n + 1 /\ entries'[j] = r
        BY <1>2, <1>3, <2>1, <3>1, <3>3
      <3> QED  BY <1>4, <3>2, <3>3
    <2> QED  BY <2>2, <2>3 DEF RowsInOrder
  <1>10. StoredOnce'
    <2>1. \A i, j \in DOMAIN entries' : entries'[i].audit_id = entries'[j].audit_id => i = j
      BY <1>3, <1>4, <1>6 DEF VerificationInv, StoredOnce
    <2>2. \A i \in DOMAIN entries' : status'[entries'[i].audit_id] # "new"
      BY <1>3, <1>4, <1>6, <1>7 DEF VerificationInv, StoredOnce
    <2> QED  BY <2>1, <2>2 DEF StoredOnce
  <1> QED  BY <1>1, <1>2, <1>8, <1>9, <1>10, CreateKeepsTypes DEF VerificationInv

\* Rows of any hashes: the store's types ask for no more.
RowOver(H) ==
    [audit_id        : Entry,
     body            : Entry,
     data_hash       : {DataHash(b) : b \in Entry},
     previous_hash   : H,
     current_hash    : H,
     sequence_number : Nat,
     status          : EntryStatus,
     verified        : BOOLEAN]

LEMMA RowsAreTyped ==
    ASSUME ChainTypeOK, UNCHANGED <<chain_state, status>>, NEW H, entries' \in Seq(RowOver(H))
    PROVE  ChainTypeOK'
  <1>1. /\ DOMAIN entries' = 1 .. Len(entries') /\ Len(entries') \in Nat
        /\ \A i \in DOMAIN entries' : entries'[i] \in RowOver(H)
    OBVIOUS
  <1>2. \A i \in DOMAIN entries' :
           entries'[i].previous_hash \in KnownHashes' /\ entries'[i].current_hash \in KnownHashes'
    BY DEF KnownHashes
  <1>3. \A i \in DOMAIN entries' : entries'[i] \in StoredRecord'
    BY <1>1, <1>2 DEF RowOver, StoredRecord
  <1>4. entries' \in Seq(StoredRecord')
    BY <1>1, <1>3
  <1>5. chain_state'.last_hash \in KnownHashes'
    BY DEF KnownHashes
  <1> QED  BY <1>4, <1>5 DEF ChainTypeOK

\* A step that leaves rows in their order, each with its identity.
LEMMA RowsKept ==
    ASSUME VerificationInv, UNCHANGED <<chain_state, status, written>>, ChainTypeOK',
           NEW origin \in [DOMAIN entries' -> DOMAIN entries],
           \A i, j \in DOMAIN entries' : i < j => origin[i] < origin[j],
           \A i \in DOMAIN entries' :
              /\ entries'[i].audit_id = entries[origin[i]].audit_id
              /\ entries'[i].sequence_number = entries[origin[i]].sequence_number
    PROVE  VerificationInv'
  <1>1. \A i \in DOMAIN entries' : i \in Nat /\ origin[i] \in DOMAIN entries
    BY EntriesDomain, ChainTypeOK' DEF VerificationInv, ChainTypeOK
  <1>2. RowsInOrder'
    BY <1>1 DEF VerificationInv, RowsInOrder
  <1>3. StoredOnce'
    <2>1. ASSUME NEW i \in DOMAIN entries', NEW j \in DOMAIN entries',
                 entries'[i].audit_id = entries'[j].audit_id
          PROVE  i = j
      <3>1. origin[i] = origin[j]
        BY <1>1, <2>1 DEF VerificationInv, StoredOnce
      <3>2. origin[i] \in Nat /\ origin[j] \in Nat
        BY <1>1, EntriesDomain DEF VerificationInv
      <3>3. ~(i < j) /\ ~(j < i)
        BY <3>1, <3>2
      <3> QED  BY <1>1, <3>3
    <2>2. \A i \in DOMAIN entries' : status'[entries'[i].audit_id] # "new"
      BY <1>1 DEF VerificationInv, StoredOnce
    <2> QED  BY <2>1, <2>2 DEF StoredOnce
  <1>4. WrittenLinked'
    BY DEF VerificationInv, WrittenLinked
  <1> QED  BY <1>2, <1>3, <1>4 DEF VerificationInv

LEMMA AlterKeepsChain ==
    ASSUME VerificationInv, NEW i \in DOMAIN entries, AlterRecord(i)
    PROVE  VerificationInv'
  <1>1. PICK body \in Entry, previous \in KnownHashes :
           \E data \in {entries[i].data_hash, DataHash(body)} :
           LET forged == [entries[i] EXCEPT !.body = body, !.data_hash = data,
                                            !.previous_hash = previous]
           IN  \E record \in {forged, Resealed(forged)} :
                  record # entries[i] /\ entries' = [entries EXCEPT ![i] = record]
    BY DEF AlterRecord
  <1>1a. PICK data \in {entries[i].data_hash, DataHash(body)} :
           LET forged == [entries[i] EXCEPT !.body = body, !.data_hash = data,
                                            !.previous_hash = previous]
           IN  \E record \in {forged, Resealed(forged)} :
                  record # entries[i] /\ entries' = [entries EXCEPT ![i] = record]
    BY <1>1
  <1> DEFINE forged == [entries[i] EXCEPT !.body = body, !.data_hash = data,
                                          !.previous_hash = previous]
             seal == ComputeChainHash(forged.previous_hash, forged.data_hash, forged.sequence_number)
             H == KnownHashes \union {seal}
  <1>2. PICK record \in {forged, Resealed(forged)} : entries' = [entries EXCEPT ![i] = record]
    BY <1>1a
  <1>3. entries \in Seq(StoredRecord) /\ \A j \in DOMAIN entries : entries[j] \in StoredRecord
    BY DEF VerificationInv, ChainTypeOK
  <1>4. data \in {DataHash(b) : b \in Entry}
    BY <1>3 DEF StoredRecord
  <1>5. forged \in StoredRecord
    BY <1>3, <1>4 DEF StoredRecord
  <1>6. /\ forged.audit_id = entries[i].audit_id
        /\ forged.sequence_number = entries[i].sequence_number
    BY <1>3 DEF StoredRecord
  <1>7. Resealed(forged) = [forged EXCEPT !.current_hash = seal]
    BY DEF Resealed
  <1> HIDE DEF forged, seal
  <1>8. /\ record \in RowOver(H)
        /\ record.audit_id = entries[i].audit_id
        /\ record.sequence_number = entries[i].sequence_number
    <2>1. forged \in RowOver(H) /\ [forged EXCEPT !.current_hash = seal] \in RowOver(H)
      BY <1>5 DEF StoredRecord, RowOver
    <2>2. /\ [forged EXCEPT !.current_hash = seal].audit_id = forged.audit_id
          /\ [forged EXCEPT !.current_hash = seal].sequence_number = forged.sequence_number
      BY <1>5 DEF StoredRecord
    <2> QED  BY <1>2, <1>6, <1>7, <2>1, <2>2
  <1>9. StoredRecord \subseteq RowOver(H)
    BY DEF StoredRecord, RowOver
  <1> HIDE DEF H
  <1>10. /\ DOMAIN entries' = DOMAIN entries
         /\ \A j \in DOMAIN entries : entries'[j] = IF j = i THEN record ELSE entries[j]
    BY <1>2, <1>3
  <1>11. entries' \in [DOMAIN entries -> RowOver(H)]
    BY <1>2, <1>3, <1>8, <1>9, <1>10
  <1>12. entries' \in Seq(RowOver(H))
    BY <1>3, <1>11, SeqOfSameLength
  <1>13. UNCHANGED <<chain_state, status, written>>
    BY DEF AlterRecord
  <1>14. ChainTypeOK'
    BY <1>12, <1>13, RowsAreTyped DEF VerificationInv
  <1> DEFINE origin == [j \in DOMAIN entries' |-> j]
  <1>15. /\ origin \in [DOMAIN entries' -> DOMAIN entries]
         /\ \A j, k \in DOMAIN entries' : j < k => origin[j] < origin[k]
         /\ \A j \in DOMAIN entries' :
               /\ entries'[j].audit_id = entries[origin[j]].audit_id
               /\ entries'[j].sequence_number = entries[origin[j]].sequence_number
    BY <1>8, <1>10
  <1> HIDE DEF origin
  <1> QED  BY <1>13, <1>14, <1>15, RowsKept

LEMMA RemoveKeepsChain ==
    ASSUME VerificationInv, NEW i \in DOMAIN entries, RemoveRecord(i)
    PROVE  VerificationInv'
  <1> DEFINE n == Len(entries)
             origin == [j \in 1 .. n - 1 |-> IF j < i THEN j ELSE j + 1]
  <1>1. /\ entries \in Seq(StoredRecord) /\ n \in Nat
        /\ DOMAIN entries = 1 .. n /\ i \in 1 .. n
        /\ \A j \in 1 .. n : entries[j] \in StoredRecord
    BY EntriesDomain DEF VerificationInv, ChainTypeOK
  <1>2. entries' = [j \in 1 .. n - 1 |-> IF j < i THEN entries[j] ELSE entries[j + 1]]
    BY DEF RemoveRecord
  <1>3. origin \in [1 .. n - 1 -> 1 .. n]
    BY <1>1
  <1>4. \A j, k \in 1 .. n - 1 : j < k => origin[j] < origin[k]
    BY <1>1
  <1>5. \A j \in 1 .. n - 1 : entries'[j] = entries[origin[j]]
    BY <1>2
  <1>6. StoredRecord = RowOver(KnownHashes)
    BY DEF StoredRecord, RowOver
  <1>7. entries' \in [1 .. n - 1 -> RowOver(KnownHashes)]
    BY <1>1, <1>2, <1>6
  <1>8. n - 1 \in Nat
    BY <1>1
  <1> HIDE DEF origin, n
  <1>9. entries' \in Seq(RowOver(KnownHashes)) /\ DOMAIN entries' = 1 .. n - 1
    BY <1>7, <1>8
  <1>10. UNCHANGED <<chain_state, status, written>>
    BY DEF RemoveRecord
  <1>11. ChainTypeOK'
    BY <1>9, <1>10, RowsAreTyped DEF VerificationInv
  <1> QED  BY <1>1, <1>3, <1>4, <1>5, <1>9, <1>10, <1>11, RowsKept

LEMMA VerdictsKeepChain ==
    ASSUME VerificationInv, OnlyVerdicts, UNCHANGED written
    PROVE  VerificationInv'
  <1>1. UNCHANGED <<chain_state, status>> /\ ChainTypeOK /\ ChainTypeOK'
    BY VerdictsKeepTypes DEF OnlyVerdicts, VerificationInv
  <1> DEFINE origin == [j \in DOMAIN entries' |-> j]
  <1>2. /\ origin \in [DOMAIN entries' -> DOMAIN entries]
        /\ \A j, k \in DOMAIN entries' : j < k => origin[j] < origin[k]
        /\ \A j \in DOMAIN entries' :
              /\ entries'[j].audit_id = entries[origin[j]].audit_id
              /\ entries'[j].sequence_number = entries[origin[j]].sequence_number
    BY <1>1, VerdictsKeepRecords
  <1> HIDE DEF origin
  <1> QED  BY <1>1, <1>2, RowsKept

\* A step writes at most one record, and the chain state counts what was written.
LEMMA NextVerificationInv ==
    ASSUME VerificationInv, [VerificationNext]_verificationVars
    PROVE  VerificationInv' /\ chain_state'.total \in {chain_state.total, chain_state.total + 1}
  <1>0. ChainTypeOK
    BY DEF VerificationInv
  <1>1. ASSUME NEW e \in Entry, Write(e)
        PROVE  VerificationInv' /\ chain_state'.total = chain_state.total + 1
    BY <1>1, WriteKeepsChain
  <1>2. ASSUME NEW i \in DOMAIN entries, AlterRecord(i) \/ RemoveRecord(i)
        PROVE  VerificationInv' /\ chain_state' = chain_state
    BY <1>2, AlterKeepsChain, RemoveKeepsChain DEF AlterRecord, RemoveRecord
  <1>3. CASE Scan
    BY <1>0, <1>3, ScanOnlyVerdicts, VerdictsKeepChain DEF Scan, OnlyVerdicts
  <1>4. CASE VerifyOne
    BY <1>0, <1>4, VerifyOnlyVerdicts, VerdictsKeepChain DEF VerifyOne, OnlyVerdicts
  <1>5. CASE UNCHANGED verificationVars
    <2>1. UNCHANGED <<entries, chain_state, status, written>>
      BY <1>5 DEF verificationVars, chainVars
    <2>2. ChainTypeOK'
      BY <1>0, <2>1 DEF ChainTypeOK, StoredRecord, KnownHashes
    <2>3. WrittenLinked' /\ RowsInOrder' /\ StoredOnce'
      BY <2>1 DEF VerificationInv, WrittenLinked, RowsInOrder, StoredOnce
    <2> QED  BY <2>1, <2>2, <2>3 DEF VerificationInv
  <1> QED  BY <1>1, <1>2, <1>3, <1>4, <1>5 DEF VerificationNext

LEMMA InitVerificationInv ==
    ASSUME VerificationInit
    PROVE  VerificationInv
  <1>1. /\ entries = <<>> /\ DOMAIN entries = {} /\ Len(entries) = 0
        /\ written = <<>> /\ DOMAIN written = {} /\ Len(written) = 0
    BY DEF VerificationInit, ChainInit
  <1>2. written \in Seq({written[k] : k \in DOMAIN written})
    BY <1>1
  <1>3. WrittenLinked /\ RowsInOrder /\ StoredOnce
    BY <1>1, <1>2 DEF VerificationInit, ChainInit, WrittenLinked, RowsInOrder, StoredOnce
  <1> QED  BY <1>3, ChainInitOK DEF VerificationInit, VerificationInv

LEMMA VerificationInvHolds == VerificationSpec => []VerificationInv
  <1>1. VerificationInit => VerificationInv
    BY InitVerificationInv
  <1>2. VerificationInv /\ [VerificationNext]_verificationVars => VerificationInv'
    BY NextVerificationInv
  <1> QED  BY <1>1, <1>2, PTL DEF VerificationSpec

-----------------------------------------------------------------------------
\* What the scan finds.

LEMMA ChainHashInjective ==
    ASSUME NEW p, NEW d, NEW s, NEW q, NEW c, NEW t,
           ComputeChainHash(p, d, s) = ComputeChainHash(q, c, t)
    PROVE  p = q /\ d = c /\ s = t
  BY DEF ComputeChainHash

LEMMA ChainHashNotGenesis ==
    ASSUME NEW p, NEW d, NEW s
    PROVE  ComputeChainHash(p, d, s) # GENESIS_HASH
  <1>1. Len(<<p, d, s>>) = 3 /\ Len(<<>>) = 0
    OBVIOUS
  <1> QED  BY <1>1 DEF ComputeChainHash, GENESIS_HASH

\* An audit id is looked up where it is stored.
LEMMA FetchExact ==
    ASSUME VerificationInv, NEW i \in DOMAIN entries
    PROVE  FetchByAuditId(entries[i].audit_id) = i
  BY FetchFinds DEF VerificationInv, StoredOnce

\* A sequence number is stored once.
LEMMA NumbersDiffer ==
    ASSUME VerificationInv, NEW i \in DOMAIN entries, NEW j \in DOMAIN entries,
           entries[i].sequence_number = entries[j].sequence_number
    PROVE  i = j
  <1>1. i \in Nat /\ j \in Nat
    BY EntriesDomain DEF VerificationInv
  <1>2. /\ entries[i].sequence_number \in Nat
        /\ entries[j].sequence_number \in Nat
    <2>1. entries[i] \in StoredRecord /\ entries[j] \in StoredRecord
      BY DEF VerificationInv, ChainTypeOK
    <2> QED  BY <2>1 DEF StoredRecord
  <1>3. ~(i < j) /\ ~(j < i)
    BY <1>2 DEF VerificationInv, RowsInOrder
  <1> QED  BY <1>1, <1>3

LEMMA NumberTypes ==
    ASSUME VerificationInv, NEW i \in DOMAIN entries
    PROVE  /\ entries[i].sequence_number \in 1 .. Len(written)
           /\ entries[i].sequence_number \in 1 .. chain_state.total
           /\ Len(written) \in Nat
  BY WrittenDomain DEF VerificationInv, RowsInOrder, WrittenLinked

\* What is fetched under one sequence number.
LEMMA FetchOne ==
    ASSUME VerificationInv, NEW s \in Int
    PROVE  FetchEntries(s, s) = {i \in DOMAIN entries : entries[i].sequence_number = s}
  BY NumberTypes DEF FetchEntries

\* verify_entry fails exactly for the records that are not what the service would
\* have written over the row before.
LEMMA ValidExact ==
    ASSUME VerificationInv, NEW i \in DOMAIN entries
    PROVE  AllValid(i) <=> entries[i] = Rewritten(i)
  <1> DEFINE row == entries[i]
             s == row.sequence_number
             before == FetchEntries(s - 1, s - 1)
             previous == IF before = {} THEN row.previous_hash
                         ELSE entries[CHOOSE j \in before : TRUE].current_hash
             data == DataHash(row.body)
             seal == ComputeChainHash(previous, data, s)
  <1>1. row \in StoredRecord
    BY DEF VerificationInv, ChainTypeOK
  <1>2. Rewritten(i) = [row EXCEPT !.previous_hash = previous, !.data_hash = data,
                                   !.current_hash = seal]
    BY DEF Rewritten
  <1>3. s - 1 \in Int
    BY NumberTypes
  <1>4. PreviousHashValid(i) <=> row.previous_hash = previous
    <2>1. CASE before = {}
      BY <2>1 DEF PreviousHashValid
    <2>2. CASE before # {}
      <3>1. PICK k \in before : TRUE
        BY <2>2
      <3>2. \A j \in before : j = k
        BY <1>3, <3>1, FetchOne, NumbersDiffer
      <3>3. (CHOOSE j \in before : TRUE) = k
        BY <3>1, <3>2
      <3>4. previous = entries[k].current_hash
        BY <2>2, <3>3
      <3>5. PreviousHashValid(i) <=> \A j \in before : row.previous_hash = entries[j].current_hash
        BY DEF PreviousHashValid
      <3> QED  BY <3>1, <3>2, <3>4, <3>5
    <2> QED  BY <2>1, <2>2
  <1>5. DataHashValid(i) <=> row.data_hash = data
    BY DEF DataHashValid
  <1>6. ChainHashValid(i) <=> row.current_hash = ComputeChainHash(row.previous_hash, row.data_hash, s)
    BY DEF ChainHashValid, Recomputed
  <1>7. /\ [row EXCEPT !.previous_hash = previous, !.data_hash = data, !.current_hash = seal].previous_hash = previous
        /\ [row EXCEPT !.previous_hash = previous, !.data_hash = data, !.current_hash = seal].data_hash = data
        /\ [row EXCEPT !.previous_hash = previous, !.data_hash = data, !.current_hash = seal].current_hash = seal
    BY <1>1 DEF StoredRecord
  <1>8. row.previous_hash = previous /\ row.data_hash = data /\ row.current_hash = seal
        => row = [row EXCEPT !.previous_hash = previous, !.data_hash = data, !.current_hash = seal]
    BY <1>1 DEF StoredRecord
  <1>9. row = Rewritten(i)
        <=> row.previous_hash = previous /\ row.data_hash = data /\ row.current_hash = seal
    <2> HIDE DEF row, s, before, previous, data, seal
    <2>1. row = entries[i]
      BY DEF row
    <2> QED  BY <1>2, <1>7, <1>8
  <1>10. ASSUME row.previous_hash = previous, row.data_hash = data
         PROVE  seal = ComputeChainHash(row.previous_hash, row.data_hash, s)
    BY <1>10
  <1> HIDE DEF row, s, before, previous, data, seal
  <1> QED  BY <1>4, <1>5, <1>6, <1>9, <1>10 DEF AllValid, row

LEMMA DetectsInvalid ==
    VerificationInv => DetectTampering = {i \in DOMAIN entries : ~AllValid(i)}
  BY FetchExact DEF DetectTampering

LEMMA DetectExact == VerificationInv => Numbers(DetectTampering) = Misfits
  BY ValidExact, FetchExact DEF DetectTampering, Misfits, Numbers

\* What a scan leaves behind.
LEMMA ScanLeaves ==
    ASSUME VerificationInv, Scan
    PROVE  /\ {a[1] : a \in anomalies'} = Numbers(DetectTampering)
           /\ anomalies' \subseteq (1 .. chain_state.total) \X AnomalyTypes
           /\ found_at_scan' = Numbers(DetectTampering)
           /\ found_at_scan' \subseteq 1 .. chain_state.total
           /\ SummaryTampered' = Numbers(DetectTampering) \union Missing
           /\ Missing' = Missing
           /\ Misfits' = Misfits
           /\ UNCHANGED <<chain_state, written>>
  <1>0. ChainTypeOK
    BY DEF VerificationInv
  <1> DEFINE type(i) == AnomalyType(FetchByAuditId(entries[i].audit_id))
             num(i) == entries[i].sequence_number
  <1>1. anomalies' = {<<num(i), type(i)>> : i \in DetectTampering}
    BY DEF Scan, Anomaly
  <1>2. \A i : type(i) \in AnomalyTypes
    BY DEF AnomalyType, AnomalyTypes
  <1>3. \A i \in DetectTampering : i \in DOMAIN entries /\ num(i) \in 1 .. chain_state.total
    BY NumberTypes DEF DetectTampering
  <1>4. Numbers(DetectTampering) = {num(i) : i \in DetectTampering}
    BY DEF Numbers
  <1> HIDE DEF type, num
  <1>5. {a[1] : a \in anomalies'} = Numbers(DetectTampering)
    <2>1. \A a \in anomalies' : a[1] \in Numbers(DetectTampering)
      BY <1>1, <1>4
    <2>2. \A n \in Numbers(DetectTampering) : \E a \in anomalies' : a[1] = n
      <3>1. \A i : <<num(i), type(i)>>[1] = num(i)
        OBVIOUS
      <3> QED  BY <1>1, <1>4, <3>1
    <2> QED  BY <2>1, <2>2
  <1>6. anomalies' \subseteq (1 .. chain_state.total) \X AnomalyTypes
    BY <1>1, <1>2, <1>3
  <1>7. found_at_scan' = Numbers(DetectTampering)
    BY DetectExact DEF Scan
  <1>8. Numbers(DetectTampering) \subseteq 1 .. chain_state.total
    BY <1>3, <1>4
  <1>9. OnlyVerdicts /\ UNCHANGED <<chain_state, written>>
    BY <1>0, ScanOnlyVerdicts DEF Scan, OnlyVerdicts
  <1>10. /\ DOMAIN entries' = DOMAIN entries
         /\ \A i \in DOMAIN entries :
               /\ entries'[i].sequence_number = entries[i].sequence_number
               /\ entries'[i].body = entries[i].body
               /\ entries'[i].data_hash = entries[i].data_hash
               /\ entries'[i].previous_hash = entries[i].previous_hash
               /\ entries'[i].current_hash = entries[i].current_hash
               /\ entries'[i].audit_id = entries[i].audit_id
    BY <1>0, <1>9, VerdictsKeepRecords
  <1>11. \A s, t : FetchEntries(s, t)' = FetchEntries(s, t)
    BY <1>10 DEF FetchEntries
  <1>12. Missing' = Missing
    BY <1>9, <1>11 DEF Missing
  <1>13. SummaryTampered' = Numbers(DetectTampering) \union Missing
    <2>1. \A i \in DOMAIN entries : entries[i] \in StoredRecord
      BY <1>0 DEF ChainTypeOK
    <2>2. \A i \in DOMAIN entries : entries'[i].verified = AllValid(i)
      <3>1. \A i \in DOMAIN entries : entries'[i] = [entries[i] EXCEPT !.verified = AllValid(i)]
        BY FetchExact DEF Scan, ScanChain
      <3> QED  BY <2>1, <3>1 DEF StoredRecord
    <2>3. DetectTampering = {i \in DOMAIN entries : ~AllValid(i)}
      BY DetectsInvalid
    <2>4. SummaryTampered' = {s \in 1 .. chain_state.total :
                                 ~\E i \in FetchEntries(s, s) : AllValid(i)}
      <3>1. \A s \in 1 .. chain_state.total :
               (\E i \in FetchEntries(s, s)' : entries'[i].verified)
                  <=> (\E i \in FetchEntries(s, s) : AllValid(i))
        <4> SUFFICES ASSUME NEW s \in 1 .. chain_state.total
                     PROVE  (\E i \in FetchEntries(s, s)' : entries'[i].verified)
                               <=> (\E i \in FetchEntries(s, s) : AllValid(i))
          OBVIOUS
        <4>1. FetchEntries(s, s)' = FetchEntries(s, s)
          BY <1>11
        <4>2. \A i \in FetchEntries(s, s) : entries'[i].verified = AllValid(i)
          BY <2>2 DEF FetchEntries
        <4> QED  BY <4>1, <4>2
      <3> QED  BY <1>9, <3>1 DEF SummaryTampered
    <2>5. ASSUME NEW s \in 1 .. chain_state.total
          PROVE  (~\E i \in FetchEntries(s, s) : AllValid(i))
                    <=> (s \in Numbers(DetectTampering) \/ s \in Missing)
      <3>1. FetchEntries(s, s) = {i \in DOMAIN entries : entries[i].sequence_number = s}
        BY FetchOne
      <3>2. \A i, j \in FetchEntries(s, s) : i = j
        BY <3>1, NumbersDiffer
      <3>3. s \in Missing <=> FetchEntries(s, s) = {}
        BY DEF Missing
      <3>4. s \in Numbers(DetectTampering)
               <=> \E i \in FetchEntries(s, s) : ~AllValid(i)
        BY <2>3, <3>1 DEF Numbers
      <3> QED  BY <3>2, <3>3, <3>4
    <2>6. Missing \subseteq 1 .. chain_state.total
      BY DEF Missing
    <2> QED  BY <1>8, <2>4, <2>5, <2>6
  <1>14. Misfits' = Misfits
    <2>1. VerificationInv'
      BY <1>9, VerdictsKeepChain
    <2>2. DetectTampering' = DetectTampering
      <3>1. \A i \in DOMAIN entries : AllValid(i)' = AllValid(i)
        BY <1>10, <1>11 DEF AllValid, DataHashValid, ChainHashValid, PreviousHashValid,
                            Recomputed, FetchEntries
      <3>2. DetectTampering = {i \in DOMAIN entries : ~AllValid(i)}
        BY DetectsInvalid
      <3>3. (VerificationInv => DetectTampering = {i \in DOMAIN entries : ~AllValid(i)})'
        BY DetectsInvalid, PTL
      <3>4. DetectTampering' = {i \in DOMAIN entries' : ~AllValid(i)'}
        BY <2>1, <3>3
      <3> QED  BY <1>10, <3>1, <3>2, <3>4
    <2>3. Numbers(DetectTampering)' = Numbers(DetectTampering)
      BY <1>3, <1>10, <2>2 DEF Numbers
    <2>4. (VerificationInv => Numbers(DetectTampering) = Misfits)'
      BY DetectExact, PTL
    <2> QED  BY <2>1, <2>3, <2>4, DetectExact
  <1> QED  BY <1>5, <1>6, <1>7, <1>8, <1>9, <1>12, <1>13, <1>14

-----------------------------------------------------------------------------
\* What the walk finds.

\* A row whose chain hash is the one the service computed, and is that of the row's
\* own fields, has the fields the service hashed.
LEMMA SealFixesRow ==
    ASSUME VerificationInv, NEW i \in DOMAIN entries,
           SealAsWritten(i), Recomputed(i) = entries[i].current_hash
    PROVE  AsWritten(i)
  <1> DEFINE s == entries[i].sequence_number
  <1>1. s \in DOMAIN written
    BY DEF VerificationInv, RowsInOrder
  <1>2. written[s].current_hash =
           ComputeChainHash(written[s].previous_hash, written[s].data_hash, s)
    BY <1>1 DEF VerificationInv, WrittenLinked
  <1>3. ComputeChainHash(entries[i].previous_hash, entries[i].data_hash, s)
           = ComputeChainHash(written[s].previous_hash, written[s].data_hash, s)
    BY <1>2 DEF SealAsWritten, Recomputed
  <1> QED  BY <1>3, ChainHashInjective DEF AsWritten

\* The link carries that to the row before: it is the record written before.
LEMMA LinkFixesRow ==
    ASSUME VerificationInv, NEW i \in DOMAIN entries, NEW j \in DOMAIN entries,
           AsWritten(i), entries[i].previous_hash = entries[j].current_hash,
           Recomputed(j) = entries[j].current_hash
    PROVE  SealAsWritten(j) /\ entries[i].sequence_number = entries[j].sequence_number + 1
  <1> DEFINE s == entries[i].sequence_number
             t == entries[j].sequence_number
  <1>1. s \in DOMAIN written /\ s \in Nat /\ t \in Nat
    BY NumberTypes, WrittenDomain DEF VerificationInv
  <1>2. entries[j].current_hash = written[s].previous_hash
    BY DEF AsWritten
  <1>3. entries[j].current_hash =
           ComputeChainHash(entries[j].previous_hash, entries[j].data_hash, t)
    BY DEF Recomputed
  <1>4. written[s].previous_hash = IF s = 1 THEN GENESIS_HASH ELSE written[s - 1].current_hash
    BY <1>1 DEF VerificationInv, WrittenLinked
  <1>5. s # 1
    BY <1>2, <1>3, <1>4, ChainHashNotGenesis
  <1>6. s - 1 \in DOMAIN written
    BY <1>1, <1>5, WrittenDomain DEF VerificationInv
  <1>7. written[s - 1].current_hash =
           ComputeChainHash(written[s - 1].previous_hash, written[s - 1].data_hash, s - 1)
    BY <1>6 DEF VerificationInv, WrittenLinked
  <1>8. t = s - 1
    <2>1. ComputeChainHash(entries[j].previous_hash, entries[j].data_hash, t)
             = ComputeChainHash(written[s - 1].previous_hash, written[s - 1].data_hash, s - 1)
      BY <1>2, <1>3, <1>4, <1>5, <1>7
    <2> QED  BY <2>1, ChainHashInjective
  <1>9. entries[j].current_hash = written[t].current_hash
    BY <1>2, <1>4, <1>5, <1>8
  <1> QED  BY <1>1, <1>8, <1>9 DEF SealAsWritten

\* Of the rows of a range whose chain hash is not the one written, the last would be
\* followed by one that fixes it: there is none.
LEMMA CleanWalkFixesRows ==
    ASSUME VerificationInv, NEW first, NEW last,
           \A i \in FetchEntries(first, last) :
              i + 1 \notin FetchEntries(first, last) => SealAsWritten(i),
           VerifyChainIntegrity(first, last) = {}
    PROVE  \A i \in FetchEntries(first, last) :
              /\ AsWritten(i)
              /\ i + 1 \in FetchEntries(first, last) =>
                    entries[i + 1].sequence_number = entries[i].sequence_number + 1
  <1> DEFINE rows == FetchEntries(first, last)
             T == {Len(entries) - i : i \in {k \in rows : ~SealAsWritten(k)}}
  <1>1. \A i \in rows : /\ i \in DOMAIN entries /\ i \in 1 .. Len(entries)
                        /\ Recomputed(i) = entries[i].current_hash
                        /\ i - 1 \in rows => entries[i].previous_hash = entries[i - 1].current_hash
    BY EntriesDomain DEF FetchEntries, VerifyChainIntegrity, VerificationInv
  <1>2. Len(entries) \in Nat
    BY EntriesDomain DEF VerificationInv
  <1> HIDE DEF rows
  <1>3. \A i \in rows : i + 1 \in rows =>
           entries[i + 1].previous_hash = entries[i].current_hash
    <2> SUFFICES ASSUME NEW i \in rows, i + 1 \in rows
                 PROVE  entries[i + 1].previous_hash = entries[i].current_hash
      OBVIOUS
    <2>1. (i + 1) - 1 = i
      BY <1>1
    <2> QED  BY <1>1, <2>1
  <1>4. ASSUME T # {}
        PROVE  FALSE
    <2>1. T \subseteq Nat
      BY <1>1, <1>2
    <2>2. PICK m \in T : \A n \in T : m <= n
      BY <1>4, <2>1, LeastNatural
    <2>3. PICK i \in rows : m = Len(entries) - i /\ ~SealAsWritten(i)
      OBVIOUS
    <2>4. i + 1 \in rows
      BY <2>3 DEF rows
    <2>5. SealAsWritten(i + 1)
      <3>1. SUFFICES ASSUME ~SealAsWritten(i + 1)
                     PROVE  FALSE
        OBVIOUS
      <3>2. Len(entries) - (i + 1) \in T
        BY <2>4, <3>1
      <3>3. m <= Len(entries) - (i + 1)
        BY <2>2, <3>2
      <3> QED  BY <1>1, <1>2, <2>3, <3>3
    <2>6. AsWritten(i + 1)
      BY <1>1, <2>4, <2>5, SealFixesRow
    <2> QED  BY <1>1, <1>3, <2>3, <2>4, <2>6, LinkFixesRow
  <1>5. \A i \in rows : SealAsWritten(i)
    BY <1>4
  <1>6. \A i \in rows : AsWritten(i)
    BY <1>1, <1>5, SealFixesRow
  <1>7. \A i \in rows : i + 1 \in rows =>
           entries[i + 1].sequence_number = entries[i].sequence_number + 1
    BY <1>1, <1>3, <1>6, LinkFixesRow
  <1> QED  BY <1>6, <1>7 DEF rows

\* Rows as they were written, with none missing between them, pass the walk.
LEMMA WrittenRowsPass ==
    ASSUME VerificationInv, NEW first, NEW last,
           \A i \in FetchEntries(first, last) :
              /\ AsWritten(i)
              /\ i + 1 \in FetchEntries(first, last) =>
                    entries[i + 1].sequence_number = entries[i].sequence_number + 1
    PROVE  VerifyChainIntegrity(first, last) = {}
  <1> SUFFICES ASSUME NEW i \in FetchEntries(first, last)
               PROVE  /\ Recomputed(i) = entries[i].current_hash
                      /\ i - 1 \in FetchEntries(first, last) =>
                            entries[i].previous_hash = entries[i - 1].current_hash
    BY DEF VerifyChainIntegrity
  <1> DEFINE s == entries[i].sequence_number
  <1>1. /\ i \in DOMAIN entries /\ i \in Nat
        /\ s \in DOMAIN written /\ s \in Nat
    BY NumberTypes, EntriesDomain DEF FetchEntries, VerificationInv, RowsInOrder
  <1>2. written[s].current_hash =
           ComputeChainHash(written[s].previous_hash, written[s].data_hash, s)
    BY <1>1 DEF VerificationInv, WrittenLinked
  <1>3. AsWritten(i)
    OBVIOUS
  <1>4. Recomputed(i) = entries[i].current_hash
    BY <1>2, <1>3 DEF AsWritten, SealAsWritten, Recomputed
  <1>5. ASSUME i - 1 \in FetchEntries(first, last)
        PROVE  entries[i].previous_hash = entries[i - 1].current_hash
    <2>1. (i - 1) + 1 = i
      BY <1>1
    <2>2. AsWritten(i - 1) /\ s = entries[i - 1].sequence_number + 1
      BY <1>5, <2>1
    <2>3. entries[i - 1].sequence_number = s - 1 /\ s # 1
      <3>1. i - 1 \in DOMAIN entries
        BY <1>5 DEF FetchEntries
      <3>2. entries[i - 1].sequence_number \in Nat \ {0}
        BY <3>1, NumberTypes
      <3> QED  BY <1>1, <2>2, <3>2
    <2>4. written[s].previous_hash = written[s - 1].current_hash
      BY <1>1, <2>3 DEF VerificationInv, WrittenLinked
    <2> QED  BY <1>3, <2>2, <2>3, <2>4 DEF AsWritten, SealAsWritten
  <1> QED  BY <1>4, <1>5

LEMMA WalkIsExact == VerificationInv => WalkExact
  BY CleanWalkFixesRows, WrittenRowsPass DEF WalkExact

-----------------------------------------------------------------------------
\* The detector's types: anomalies name written records, whatever was altered or
\* removed since.
THEOREM VerificationTypes == VerificationSpec => []VerificationTypeOK
  <1>1. VerificationInit => VerificationInv /\ VerificationTypeOK
    <2> SUFFICES ASSUME VerificationInit PROVE VerificationInv /\ VerificationTypeOK
      OBVIOUS
    <2>1. anomalies = {} /\ found_at_scan = {} /\ alterations = 0
      BY DEF VerificationInit
    <2>2. alterations \in 0 .. MaxAlterations
      BY <2>1, VerificationAssumption
    <2> QED  BY <2>1, <2>2, InitVerificationInv DEF VerificationTypeOK, VerificationInv
  <1>2. /\ VerificationInv /\ VerificationTypeOK /\ [VerificationNext]_verificationVars
        => (VerificationInv /\ VerificationTypeOK)'
    <2> SUFFICES ASSUME VerificationInv, VerificationTypeOK, [VerificationNext]_verificationVars
                 PROVE  VerificationInv' /\ VerificationTypeOK'
      OBVIOUS
    <2>1. VerificationInv' /\ chain_state'.total \in {chain_state.total, chain_state.total + 1}
      BY NextVerificationInv
    <2>2. 1 .. chain_state.total \subseteq 1 .. chain_state'.total
      BY <2>1 DEF VerificationInv, ChainTypeOK
    <2>3. AnomalyTypes' = AnomalyTypes
      BY DEF AnomalyTypes
    <2>4. /\ anomalies' \subseteq (1 .. chain_state'.total) \X AnomalyTypes
          /\ found_at_scan' \subseteq 1 .. chain_state'.total
      <3>1. CASE Scan
        BY <2>2, <3>1, ScanLeaves
      <3>2. CASE UNCHANGED <<anomalies, found_at_scan>>
        BY <2>2, <3>2 DEF VerificationTypeOK
      <3> QED  BY <3>1, <3>2 DEF VerificationNext, Write, AlterRecord, RemoveRecord, VerifyOne,
                                 verificationVars
    <2>5. alterations' \in 0 .. MaxAlterations
      <3>1. CASE \E i \in DOMAIN entries : AlterRecord(i) \/ RemoveRecord(i)
        <4>1. alterations < MaxAlterations /\ alterations' = alterations + 1
          BY <3>1, Zenon DEF AlterRecord, RemoveRecord
        <4> QED  BY <4>1, VerificationAssumption DEF VerificationTypeOK
      <3>2. CASE UNCHANGED alterations
        BY <3>2 DEF VerificationTypeOK
      <3> QED  BY <3>1, <3>2 DEF VerificationNext, Write, Scan, VerifyOne, verificationVars
    <2> QED  BY <2>1, <2>3, <2>4, <2>5 DEF VerificationTypeOK, VerificationInv
  <1> QED  BY <1>1, <1>2, PTL DEF VerificationSpec

\* Over any range whose last record has the hash it was written with, verify_chain
\* reports nothing exactly when the range is as it was written, whatever was written,
\* altered, removed and verified before.
THEOREM VerificationWalkExact == VerificationSpec => []WalkExact
  <1> QED  BY VerificationInvHolds, WalkIsExact, PTL

\* The anomalies on display are the records that were not what the service would have
\* written in their place when the last scan ran.
THEOREM VerificationAnomaliesOfLastScan == VerificationSpec => []AnomaliesAreOfLastScan
  <1>1. VerificationInit => AnomaliesAreOfLastScan
    BY DEF VerificationInit, AnomaliesAreOfLastScan
  <1>2. /\ VerificationInv /\ AnomaliesAreOfLastScan /\ [VerificationNext]_verificationVars
        => AnomaliesAreOfLastScan'
    <2> SUFFICES ASSUME VerificationInv, AnomaliesAreOfLastScan,
                        [VerificationNext]_verificationVars
                 PROVE  AnomaliesAreOfLastScan'
      OBVIOUS
    <2>1. CASE Scan
      BY <2>1, ScanLeaves DEF AnomaliesAreOfLastScan
    <2>2. CASE UNCHANGED <<anomalies, found_at_scan>>
      BY <2>2 DEF AnomaliesAreOfLastScan
    <2> QED  BY <2>1, <2>2 DEF VerificationNext, Write, AlterRecord, RemoveRecord, VerifyOne,
                               verificationVars
  <1> QED  BY <1>1, <1>2, VerificationInvHolds, PTL DEF VerificationSpec

\* Right after a scan, the summary counts what the scan found and what is gone.
THEOREM VerificationSummaryMatchesScan == VerificationSpec => SummaryMatchesScan
  <1>1. (VerificationInv => Numbers(DetectTampering) = Misfits)'
    BY DetectExact, PTL
  <1>2. /\ VerificationInv /\ [VerificationNext]_verificationVars
        => [Scan => SummaryTampered' = (Numbers(DetectTampering) \union Missing)']_verificationVars
    <2> SUFFICES ASSUME VerificationInv, [VerificationNext]_verificationVars, Scan
                 PROVE  SummaryTampered' = Numbers(DetectTampering)' \union Missing'
      OBVIOUS
    <2>1. Numbers(DetectTampering)' = Misfits'
      BY <1>1, NextVerificationInv
    <2>2. /\ SummaryTampered' = Numbers(DetectTampering) \union Missing
          /\ Missing' = Missing
          /\ Misfits' = Misfits
      BY ScanLeaves
    <2>3. Numbers(DetectTampering) = Misfits
      BY DetectExact
    <2> QED  BY <2>1, <2>2, <2>3
  <1> QED  BY <1>2, VerificationInvHolds, PTL DEF VerificationSpec, SummaryMatchesScan
=============================================================================
