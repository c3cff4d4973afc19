-------------------------- MODULE AuditVerification --------------------------
(***************************************************************************)
(* The read side of audit-log-svc at work: AuditVerifier and TamperDetector *)
(* over a chain whose stored records may have been changed or removed by   *)
(* something other than the service, which can compute every hash itself.  *)
(* The audit id and the sequence number, by which a record is found, and   *)
(* the chain state stay.                                                   *)
(***************************************************************************)
EXTENDS HashChain

CONSTANT MaxAlterations   \* bound: records altered or removed

ASSUME VerificationAssumption == MaxAlterations \in Nat

VARIABLES
    anomalies,       \* TamperDetector._anomalies: sequence numbers and types
    written,         \* history: the records as create_chain_entry stored them
    found_at_scan,   \* history: the records that did not fit when scan() ran last
    alterations      \* how many records were altered or removed

verificationVars == <<chainVars, anomalies, written, found_at_scan, alterations>>

VerificationInit ==
    /\ ChainInit
    /\ anomalies = {} /\ written = <<>> /\ found_at_scan = {} /\ alterations = 0

\* create_chain_entry, called by AuditLogger, which stores an audit id once.
Write(e) ==
    /\ status[e] = "new"
    /\ CreateChainEntry(e)
    /\ written' = Append(written, ChainRecord(e))
    /\ UNCHANGED <<anomalies, found_at_scan, alterations>>

\* Record r with its chain hash computed anew.
Resealed(r) ==
    [r EXCEPT !.current_hash = ComputeChainHash(r.previous_hash, r.data_hash, r.sequence_number)]

\* Something other than the service changes a stored record: the body, the previous
\* hash, or both, with the data hash and the chain hash kept or computed anew.
AlterRecord(i) ==
    /\ alterations < MaxAlterations /\ alterations' = alterations + 1
    /\ \E body \in Entry, previous \in KnownHashes :
       \E data \in {entries[i].data_hash, DataHash(body)} :
       LET forged == [entries[i] EXCEPT !.body = body, !.data_hash = data,
                                        !.previous_hash = previous]
       IN  \E record \in {forged, Resealed(forged)} :
              record # entries[i] /\ entries' = [entries EXCEPT ![i] = record]
    /\ UNCHANGED <<chain_state, status, anomalies, written, found_at_scan>>

\* Something other than the service takes a stored record away.
RemoveRecord(i) ==
    /\ alterations < MaxAlterations /\ alterations' = alterations + 1
    /\ entries' = [j \in 1 .. Len(entries) - 1 |-> IF j < i THEN entries[j] ELSE entries[j + 1]]
    /\ UNCHANGED <<chain_state, status, anomalies, written, found_at_scan>>

\* The record create_chain_entry would have stored for the body that record i has,
\* on top of the record stored before it; its own previous hash is taken when the
\* sequence number before has no record.
Rewritten(i) ==
    LET sequence == entries[i].sequence_number
        before   == FetchEntries(sequence - 1, sequence - 1)
        previous == IF before = {} THEN entries[i].previous_hash
                    ELSE entries[CHOOSE j \in before : TRUE].current_hash
        data     == DataHash(entries[i].body)
    IN  [entries[i] EXCEPT !.previous_hash = previous, !.data_hash = data,
                           !.current_hash = ComputeChainHash(previous, data, sequence)]

\* The sequence numbers of S, a set of positions.
Numbers(S) == {entries[i].sequence_number : i \in S}

\* The records that are not what the service would have written in their place.
Misfits == Numbers({i \in DOMAIN entries : entries[i] # Rewritten(i)})

\* _classify_anomalies: the first failing test in this order names the anomaly.
AnomalyType(i) ==
    IF ~ChainHashValid(i) THEN "chain_hash_mismatch"
    ELSE IF ~DataHashValid(i) THEN "data_tampering"
    ELSE "chain_link_broken"

Anomaly(i) == <<entries[i].sequence_number, AnomalyType(FetchByAuditId(entries[i].audit_id))>>

\* Mutant: sequence numbers are reported from zero.
ScanFromZero ==
    /\ ScanChain
    /\ anomalies' = {<<Anomaly(i)[1] - 1, Anomaly(i)[2]>> : i \in DetectTampering}
    /\ found_at_scan' = Misfits
    /\ UNCHANGED <<written, alterations>>

\* Mutant: a scan adds to the anomalies of the scans before.
ScanAccumulates ==
    /\ ScanChain
    /\ anomalies' = anomalies \union {Anomaly(i) : i \in DetectTampering}
    /\ found_at_scan' = Misfits
    /\ UNCHANGED <<written, alterations>>

\* TamperDetector.scan
Scan ==
    /\ ScanChain
    /\ anomalies' = {Anomaly(i) : i \in DetectTampering}
    /\ found_at_scan' = Misfits
    /\ UNCHANGED <<written, alterations>>

\* POST /verify/{audit_id}
VerifyOne ==
    /\ \E e \in Entry : VerifyEntry(e)
    /\ UNCHANGED <<anomalies, written, found_at_scan, alterations>>

VerificationNext ==
    \/ \E e \in Entry : Write(e)
    \/ \E i \in DOMAIN entries : AlterRecord(i) \/ RemoveRecord(i)
    \/ Scan
    \/ VerifyOne

VerificationSpec == VerificationInit /\ [][VerificationNext]_verificationVars

-----------------------------------------------------------------------------

AnomalyTypes == {"chain_hash_mismatch", "data_tampering", "chain_link_broken"}

\* The type invariant of the detector.
VerificationTypeOK ==
    /\ ChainTypeOK
    /\ anomalies \subseteq (1 .. chain_state.total) \X AnomalyTypes
    /\ found_at_scan \subseteq 1 .. chain_state.total
    /\ alterations \in 0 .. MaxAlterations

\* Record i still has the hash the service computed for it, or all three.
SealAsWritten(i) == entries[i].current_hash = written[entries[i].sequence_number].current_hash
AsWritten(i) ==
    /\ SealAsWritten(i)
    /\ entries[i].previous_hash = written[entries[i].sequence_number].previous_hash
    /\ entries[i].data_hash = written[entries[i].sequence_number].data_hash

\* The last record of a range vouches for those before it: when it has the chain hash
\* the service computed for it, the walk of verify_chain over the range reports nothing
\* exactly when every record in it has the hashes it was written with and none between
\* them is gone.  The body is left to the scan, and a range without such a last record
\* may be a forgery that no walk can tell.
WalkExact ==
    \A first, last \in 1 .. Len(written) :
        LET rows == FetchEntries(first, last) IN
        (\A i \in rows : i + 1 \notin rows => SealAsWritten(i))
            => ((VerifyChainIntegrity(first, last) = {})
                   <=> (\A i \in rows :
                           /\ AsWritten(i)
                           /\ i + 1 \in rows =>
                                 entries[i + 1].sequence_number = entries[i].sequence_number + 1))

\* The numbers with no record.
Missing == {s \in 1 .. chain_state.total : FetchEntries(s, s) = {}}

\* scan() puts two counts side by side in one report, and they differ by the records
\* that are gone only: right after a scan, what get_verification_summary counts as
\* tampered is what detect_tampering lists and what is missing.  Between scans the
\* summary also counts every record that nothing verified yet.
SummaryMatchesScan ==
    [][Scan => SummaryTampered' = (Numbers(DetectTampering) \union Missing)']_verificationVars

\* The anomalies on display are the records that did not fit when the last scan ran:
\* each that is not what the service would have written on top of the record before
\* it is among them, none else is, and none is left over from the scan before.
AnomaliesAreOfLastScan == {a[1] : a \in anomalies} = found_at_scan
=============================================================================
