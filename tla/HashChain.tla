------------------------------ MODULE HashChain ------------------------------
(***************************************************************************)
(* The tamper-evident chain of audit-log-svc: HashChainManager and its     *)
(* in-memory _Store, with the read side that walks it (AuditVerifier).     *)
(*                                                                         *)
(* Hashes are symbolic.  compute_chain_hash is a SHA-256 of its arguments  *)
(* and is modelled as the tuple of them: equal hashes have equal inputs,   *)
(* and nothing else is known of one.                                       *)
(***************************************************************************)
EXTENDS Integers, Sequences

CONSTANTS
    Entry,           \* audit ids of the entries a client may submit
    Unserialisable   \* entries whose model_dump_json raises

ASSUME UnserialisableAssumption == Unserialisable \subseteq Entry

VARIABLES
    entries,         \* _Store._entries: the stored records, in insertion order
    chain_state,     \* _Store._chain_state
    status           \* AuditEntry.status of the caller's entry object

chainVars == <<entries, chain_state, status>>

\* What the hashes of the model are made of.
GENESIS_HASH == <<>>
DataHash(body) == <<"data", body>>
ComputeChainHash(previous, data_hash, sequence) == <<previous, data_hash, sequence>>

\* Entry object states: not yet submitted, AuditStatus.PENDING and COMPLETED.
EntryStatus == {"new", "pending", "completed"}

-----------------------------------------------------------------------------

ChainInit ==
    /\ entries = <<>>
    /\ chain_state = [last_sequence |-> 0, last_hash |-> GENESIS_HASH, total |-> 0]
    /\ status = [e \in Entry |-> "new"]

\* create_chain_entry raises while it serialises the entry, after it has read
\* the chain state and before it stores anything.
Writable(e) == e \notin Unserialisable

\* The record create_chain_entry stores for e.  `body` stands for the fields
\* the data hash covers.  An entry is PENDING from its creation on and is marked
\* COMPLETED only after the record is stored.
ChainRecord(e) ==
    LET next_seq  == chain_state.last_sequence + 1
        data_hash == DataHash(e)
    IN  [audit_id        |-> e,
         body            |-> e,
         data_hash       |-> data_hash,
         previous_hash   |-> chain_state.last_hash,
         current_hash    |-> ComputeChainHash(chain_state.last_hash, data_hash, next_seq),
         sequence_number |-> next_seq,
         status          |-> IF status[e] = "completed" THEN "completed" ELSE "pending",
         verified        |-> FALSE]

\* create_chain_entry(e) returns, and its caller marks the entry COMPLETED.
CreateChainEntry(e) ==
    LET record == ChainRecord(e)
    IN  /\ Writable(e)
        /\ entries' = Append(entries, record)
        /\ chain_state' = [last_sequence |-> record.sequence_number,
                           last_hash     |-> record.current_hash,
                           total         |-> chain_state.total + 1]
        /\ status' = [status EXCEPT ![e] = "completed"]

-----------------------------------------------------------------------------
\* The read side.

\* _Store.fetch_entries(first, last), as positions of the list.
FetchEntries(first, last) ==
    {i \in DOMAIN entries : entries[i].sequence_number \in first .. last}

\* _Store.fetch_by_audit_id: the first record with that id, 0 when none has it.
FetchByAuditId(e) ==
    IF \E i \in DOMAIN entries : entries[i].audit_id = e
    THEN CHOOSE i \in DOMAIN entries :
            /\ entries[i].audit_id = e
            /\ \A j \in 1 .. i - 1 : entries[j].audit_id # e
    ELSE 0

Recomputed(i) ==
    ComputeChainHash(entries[i].previous_hash, entries[i].data_hash,
                     entries[i].sequence_number)

\* Mutant: the link to the row before is not looked at.
VerifyChainIntegrityUnlinked(first, last) ==
    {i \in FetchEntries(first, last) : Recomputed(i) # entries[i].current_hash}

\* The rows verify_chain_integrity(first, last) reports as tampered.  The link is
\* to the row fetched before, which need not have the sequence number before, and
\* the first row of a range has none; the data hash is taken as stored.  Records
\* are stored in the order of their sequence numbers, so a range is an interval.
VerifyChainIntegrity(first, last) ==
    LET rows == FetchEntries(first, last)
    IN  {i \in rows :
            \/ /\ i - 1 \in rows
               /\ entries[i].previous_hash # entries[i - 1].current_hash
            \/ Recomputed(i) # entries[i].current_hash}

\* Mutant: the record's own current hash is taken for its predecessor's.
PreviousHashOfItself(i) ==
    \A j \in FetchEntries(entries[i].sequence_number, entries[i].sequence_number) :
        entries[i].previous_hash = entries[j].current_hash

\* The three tests verify_entry makes on the record at position i.
DataHashValid(i) == DataHash(entries[i].body) = entries[i].data_hash
ChainHashValid(i) == Recomputed(i) = entries[i].current_hash
PreviousHashValid(i) ==
    \A j \in FetchEntries(entries[i].sequence_number - 1, entries[i].sequence_number - 1) :
        entries[i].previous_hash = entries[j].current_hash

AllValid(i) == DataHashValid(i) /\ ChainHashValid(i) /\ PreviousHashValid(i)

\* The positions detect_tampering reports.  For each sequence number it takes the
\* record stored under it, if there is one, and verify_entry looks that audit id
\* up again.
DetectTampering ==
    {i \in DOMAIN entries : ~AllValid(FetchByAuditId(entries[i].audit_id))}

\* The sequence numbers get_verification_summary counts as tampered: of every record
\* whose verified flag is not set, whether or not anything ever verified it, and of
\* every record that is not there.
SummaryTampered ==
    {s \in 1 .. chain_state.total : ~\E i \in FetchEntries(s, s) : entries[i].verified}

\* verify_entry(e): the verdict is stored in the record that was examined.
VerifyEntry(e) ==
    LET i == FetchByAuditId(e)
    IN  /\ i # 0
        /\ entries' = [entries EXCEPT ![i].verified = AllValid(i)]
        /\ UNCHANGED <<chain_state, status>>

\* Mutant: every scanned record is marked verified.
ScanChainMarksAll ==
    /\ chain_state.total # 0
    /\ entries' = [i \in DOMAIN entries |-> [entries[i] EXCEPT !.verified = TRUE]]
    /\ UNCHANGED <<chain_state, status>>

\* detect_tampering, which is verify_entry for each stored sequence number.
ScanChain ==
    /\ chain_state.total # 0
    /\ entries' = [i \in DOMAIN entries |->
                      IF i = FetchByAuditId(entries[i].audit_id)
                      THEN [entries[i] EXCEPT !.verified = AllValid(i)]
                      ELSE entries[i]]
    /\ UNCHANGED <<chain_state, status>>

-----------------------------------------------------------------------------

InSeq(e, s) == \E i \in DOMAIN s : s[i] = e
InChain(e) == \E i \in DOMAIN entries : entries[i].audit_id = e

\* The hashes the records and the chain state hold.
KnownHashes ==
    {GENESIS_HASH, chain_state.last_hash}
        \union {entries[i].previous_hash : i \in DOMAIN entries}
        \union {entries[i].current_hash : i \in DOMAIN entries}

StoredRecord ==
    [audit_id        : Entry,
     body            : Entry,
     data_hash       : {DataHash(b) : b \in Entry},
     previous_hash   : KnownHashes,
     current_hash    : KnownHashes,
     sequence_number : Nat,
     status          : EntryStatus,
     verified        : BOOLEAN]

\* The type invariant of the store and of the callers' entry objects.
ChainTypeOK ==
    /\ entries \in Seq(StoredRecord)
    /\ chain_state \in [last_sequence : Nat, last_hash : KnownHashes, total : Nat]
    /\ status \in [Entry -> EntryStatus]

\* Every record carries its position as its sequence number, is hashed over the
\* fields it stores, and points at the record before it; the chain state is the
\* last record.  This is what create_chain_entry promises whoever verifies the
\* chain later, whichever of its callers wrote the record.
ChainLinked ==
    /\ chain_state.total = Len(entries)
    /\ chain_state.last_sequence = Len(entries)
    /\ chain_state.last_hash =
          IF entries = <<>> THEN GENESIS_HASH ELSE entries[Len(entries)].current_hash
    /\ \A i \in DOMAIN entries :
          /\ entries[i].sequence_number = i
          /\ entries[i].current_hash = Recomputed(i)
          /\ entries[i].data_hash = DataHash(entries[i].audit_id)
          /\ entries[i].previous_hash =
                IF i = 1 THEN GENESIS_HASH ELSE entries[i - 1].current_hash
=============================================================================
