--------------------------- MODULE HashChainProofs ---------------------------
(***************************************************************************)
(* Lemmas about the actions of HashChain, for the proof modules of the     *)
(* components that write to the chain or read it.                          *)
(***************************************************************************)
EXTENDS HashChain, WellFoundedInduction, TLAPS

\* What appending a record does to a sequence.
LEMMA AppendProperties ==
    ASSUME NEW S, NEW s \in Seq(S), NEW x
    PROVE  /\ Append(s, x) \in Seq(S \union {x})
           /\ Len(Append(s, x)) = Len(s) + 1
           /\ DOMAIN Append(s, x) = 1 .. Len(s) + 1
           /\ \A i \in 1 .. Len(s) : Append(s, x)[i] = s[i]
           /\ Append(s, x)[Len(s) + 1] = x
  OBVIOUS

\* A sequence over a set is one over any larger set.
LEMMA SeqMonotone ==
    ASSUME NEW S, NEW T, S \subseteq T, NEW s \in Seq(S)
    PROVE  s \in Seq(T)
  OBVIOUS

\* A function on the domain of a sequence is a sequence of the same length.
LEMMA SeqOfSameLength ==
    ASSUME NEW S, NEW s \in Seq(S), NEW T, NEW t \in [DOMAIN s -> T]
    PROVE  /\ t \in Seq(T)
           /\ Len(t) = Len(s)
           /\ DOMAIN t = DOMAIN s
  OBVIOUS

\* Membership of an entry in a queue that grows at its end or loses its head.
LEMMA InSeqAppend ==
    ASSUME NEW s \in Seq(Entry), NEW x \in Entry, NEW e \in Entry
    PROVE  InSeq(e, Append(s, x)) <=> (InSeq(e, s) \/ e = x)
  <1>1. /\ DOMAIN Append(s, x) = 1 .. Len(s) + 1
        /\ DOMAIN s = 1 .. Len(s)
        /\ Len(s) \in Nat
        /\ \A i \in 1 .. Len(s) : Append(s, x)[i] = s[i]
        /\ Append(s, x)[Len(s) + 1] = x
    BY AppendProperties
  <1>2. ASSUME InSeq(e, Append(s, x))
        PROVE  InSeq(e, s) \/ e = x
    <2>1. PICK i \in 1 .. Len(s) + 1 : Append(s, x)[i] = e
      BY <1>1, <1>2 DEF InSeq
    <2>2. i \in 1 .. Len(s) \/ i = Len(s) + 1
      BY <1>1
    <2> QED  BY <1>1, <2>1, <2>2 DEF InSeq
  <1>3. ASSUME InSeq(e, s)
        PROVE  InSeq(e, Append(s, x))
    <2>1. PICK i \in 1 .. Len(s) : s[i] = e
      BY <1>1, <1>3 DEF InSeq
    <2>2. i \in 1 .. Len(s) + 1 /\ Append(s, x)[i] = e
      BY <1>1, <2>1
    <2> QED  BY <1>1, <2>2 DEF InSeq
  <1>4. Len(s) + 1 \in 1 .. Len(s) + 1
    BY <1>1
  <1>5. InSeq(x, Append(s, x))
    BY <1>1, <1>4 DEF InSeq
  <1> QED  BY <1>2, <1>3, <1>5

LEMMA InSeqTail ==
    ASSUME NEW s \in Seq(Entry), s # <<>>, NEW e \in Entry
    PROVE  /\ Head(s) \in Entry
           /\ Tail(s) \in Seq(Entry)
           /\ Len(Tail(s)) = Len(s) - 1
           /\ InSeq(e, s) <=> (e = Head(s) \/ InSeq(e, Tail(s)))
  <1>1. /\ Head(s) = s[1] /\ s[1] \in Entry
        /\ Tail(s) \in Seq(Entry)
        /\ Len(Tail(s)) = Len(s) - 1
        /\ Len(s) \in Nat \ {0}
        /\ DOMAIN s = 1 .. Len(s)
        /\ DOMAIN Tail(s) = 1 .. Len(s) - 1
        /\ \A i \in 1 .. Len(s) - 1 : Tail(s)[i] = s[i + 1]
    OBVIOUS
  <1>2. ASSUME InSeq(e, s)
        PROVE  e = Head(s) \/ InSeq(e, Tail(s))
    <2>1. PICK i \in 1 .. Len(s) : s[i] = e
      BY <1>1, <1>2 DEF InSeq
    <2>2. CASE i = 1
      BY <1>1, <2>1, <2>2
    <2>3. CASE i # 1
      <3>1. i - 1 \in 1 .. Len(s) - 1 /\ (i - 1) + 1 = i
        BY <1>1, <2>1, <2>3
      <3> QED  BY <1>1, <2>1, <3>1 DEF InSeq
    <2> QED  BY <2>2, <2>3
  <1>3. ASSUME InSeq(e, Tail(s))
        PROVE  InSeq(e, s)
    <2>1. PICK i \in 1 .. Len(s) - 1 : Tail(s)[i] = e
      BY <1>1, <1>3 DEF InSeq
    <2>2. i + 1 \in 1 .. Len(s) /\ s[i + 1] = e
      BY <1>1, <2>1
    <2> QED  BY <1>1, <2>2 DEF InSeq
  <1>4. InSeq(Head(s), s)
    <2>1. 1 \in 1 .. Len(s)
      BY <1>1
    <2> QED  BY <1>1, <2>1 DEF InSeq
  <1> QED  BY <1>1, <1>2, <1>3, <1>4

LEMMA InSeqEmpty ==
    ASSUME NEW e
    PROVE  ~InSeq(e, <<>>)
  BY DEF InSeq

LEMMA EmptySeq ==
    ASSUME NEW S, NEW s \in Seq(S)
    PROVE  (s = <<>>) <=> (Len(s) = 0)
  OBVIOUS

\* A sequence with nothing after its head has length one.
LEMMA LastOfFlush ==
    ASSUME NEW s \in Seq(Entry), s # <<>>
    PROVE  (Len(s) = 1) <=> (Tail(s) = <<>>)
  <1>1. Len(Tail(s)) = Len(s) - 1 /\ Tail(s) \in Seq(Entry) /\ Len(s) \in Nat \ {0}
    OBVIOUS
  <1>2. (Tail(s) = <<>>) <=> (Len(Tail(s)) = 0)
    BY <1>1, EmptySeq
  <1> QED  BY <1>1, <1>2

\* The domain of the stored records.
LEMMA EntriesDomain ==
    ASSUME ChainTypeOK
    PROVE  /\ Len(entries) \in Nat
           /\ DOMAIN entries = 1 .. Len(entries)
           /\ (entries = <<>>) <=> (Len(entries) = 0)
  BY DEF ChainTypeOK

-----------------------------------------------------------------------------
\* create_chain_entry appends one record and keeps the rest.
LEMMA CreateAppends ==
    ASSUME ChainTypeOK, NEW e \in Entry, CreateChainEntry(e)
    PROVE  /\ Len(entries') = Len(entries) + 1
           /\ DOMAIN entries' = 1 .. Len(entries) + 1
           /\ \A i \in DOMAIN entries : entries'[i] = entries[i]
           /\ entries'[Len(entries) + 1] = ChainRecord(e)
           /\ entries' \in Seq(StoredRecord \union {ChainRecord(e)})
           /\ DOMAIN entries \subseteq DOMAIN entries'
           /\ Len(entries) + 1 \in DOMAIN entries'
  <1>1. entries \in Seq(StoredRecord)  BY DEF ChainTypeOK
  <1>2. entries' = Append(entries, ChainRecord(e))  BY DEF CreateChainEntry
  <1>3. DOMAIN entries = 1 .. Len(entries) /\ Len(entries) \in Nat  BY <1>1
  <1>4. /\ Len(entries') = Len(entries) + 1
        /\ DOMAIN entries' = 1 .. Len(entries) + 1
        /\ \A i \in DOMAIN entries : entries'[i] = entries[i]
        /\ entries'[Len(entries) + 1] = ChainRecord(e)
        /\ entries' \in Seq(StoredRecord \union {ChainRecord(e)})
    BY <1>1, <1>2, <1>3, AppendProperties
  <1>5. DOMAIN entries \subseteq DOMAIN entries' /\ Len(entries) + 1 \in DOMAIN entries'
    BY <1>3, <1>4
  <1> QED  BY <1>4, <1>5

\* Every position of the longer chain is an old one or the new one.
LEMMA CreatePositions ==
    ASSUME ChainTypeOK, NEW e \in Entry, CreateChainEntry(e), NEW i \in DOMAIN entries'
    PROVE  \/ i \in DOMAIN entries /\ entries'[i] = entries[i]
           \/ i = Len(entries) + 1 /\ entries'[i] = ChainRecord(e)
  <1>1. DOMAIN entries' = 1 .. Len(entries) + 1
    BY CreateAppends
  <1>2. i \in DOMAIN entries \/ i = Len(entries) + 1
    BY <1>1, EntriesDomain
  <1>3. CASE i \in DOMAIN entries
    BY <1>3, CreateAppends
  <1>4. CASE i = Len(entries) + 1
    BY <1>4, CreateAppends
  <1> QED  BY <1>2, <1>3, <1>4

\* create_chain_entry keeps the types.
LEMMA CreateKeepsTypes ==
    ASSUME ChainTypeOK, NEW e \in Entry, CreateChainEntry(e)
    PROVE  ChainTypeOK'
  <1> DEFINE r == ChainRecord(e)
  <1>1. /\ r.current_hash \in KnownHashes'
        /\ KnownHashes \subseteq KnownHashes'
    <2>1. Len(entries) + 1 \in DOMAIN entries' /\ entries'[Len(entries) + 1] = r
      BY CreateAppends
    <2>2. \A i \in DOMAIN entries : i \in DOMAIN entries' /\ entries'[i] = entries[i]
      BY CreateAppends
    <2>3. r.previous_hash = chain_state.last_hash
      BY DEF ChainRecord
    <2> HIDE DEF r
    <2> QED  BY <2>1, <2>2, <2>3 DEF KnownHashes
  <1>2. r \in StoredRecord'
    <2>1. chain_state.last_hash \in KnownHashes' /\ chain_state.last_sequence + 1 \in Nat
      BY <1>1 DEF ChainTypeOK
    <2> QED  BY <1>1, <2>1 DEF StoredRecord, ChainRecord, EntryStatus
  <1>3. StoredRecord \subseteq StoredRecord'
    BY <1>1 DEF StoredRecord
  <1>4. entries' \in Seq(StoredRecord')
    BY <1>2, <1>3, CreateAppends, SeqMonotone
  <1>5. chain_state' \in [last_sequence : Nat, last_hash : KnownHashes', total : Nat]
    <2>1. chain_state.total + 1 \in Nat
      BY DEF ChainTypeOK
    <2>2. r.sequence_number \in Nat
      BY DEF ChainTypeOK, ChainRecord
    <2> HIDE DEF r
    <2> QED  BY <1>1, <2>1, <2>2 DEF CreateChainEntry, r
  <1>6. status' \in [Entry -> EntryStatus]
    BY DEF CreateChainEntry, ChainTypeOK, EntryStatus
  <1> QED  BY <1>4, <1>5, <1>6 DEF ChainTypeOK

\* create_chain_entry keeps the chain linked: the new record is numbered by its
\* position, hashed over its own fields and points at the record before.
LEMMA CreateKeepsLinked ==
    ASSUME ChainTypeOK, ChainLinked, NEW e \in Entry, CreateChainEntry(e)
    PROVE  ChainLinked'
  <1> DEFINE n == Len(entries)
             r == ChainRecord(e)
  <1>1. /\ n \in Nat
        /\ chain_state.total = n
        /\ chain_state.last_sequence = n
        /\ chain_state.last_hash = IF entries = <<>> THEN GENESIS_HASH ELSE entries[n].current_hash
        /\ (entries = <<>>) <=> (n = 0)
    BY EntriesDomain DEF ChainLinked
  <1>2. /\ r.sequence_number = n + 1
        /\ r.audit_id = e
        /\ r.data_hash = DataHash(e)
        /\ r.previous_hash = chain_state.last_hash
        /\ r.current_hash = ComputeChainHash(r.previous_hash, r.data_hash, r.sequence_number)
    BY <1>1 DEF ChainRecord
  <1>3. /\ chain_state'.total = n + 1
        /\ chain_state'.last_sequence = n + 1
        /\ chain_state'.last_hash = r.current_hash
    <2>1. chain_state' = [last_sequence |-> r.sequence_number,
                          last_hash     |-> r.current_hash,
                          total         |-> chain_state.total + 1]
      BY DEF CreateChainEntry
    <2> HIDE DEF n, r
    <2> QED  BY <1>1, <1>2, <2>1
  <1>4. Len(entries') = n + 1 /\ entries'[n + 1] = r /\ entries' # <<>>
    <2>1. Len(entries') = n + 1 /\ entries'[n + 1] = r
      BY CreateAppends
    <2>2. n + 1 # 0
      BY <1>1
    <2>3. Len(<<>>) = 0
      OBVIOUS
    <2> HIDE DEF n, r
    <2> QED  BY <2>1, <2>2, <2>3
  <1>5. ASSUME NEW i \in DOMAIN entries'
        PROVE  /\ entries'[i].sequence_number = i
               /\ entries'[i].current_hash = Recomputed(i)'
               /\ entries'[i].data_hash = DataHash(entries'[i].audit_id)
               /\ entries'[i].previous_hash =
                     IF i = 1 THEN GENESIS_HASH ELSE entries'[i - 1].current_hash
    <2>1. CASE i \in DOMAIN entries /\ entries'[i] = entries[i]
      <3>1. (i # 1) => i - 1 \in DOMAIN entries
        BY <2>1, EntriesDomain
      <3>2. (i # 1) => entries'[i - 1] = entries[i - 1]
        BY <3>1, CreateAppends
      <3> QED  BY <2>1, <3>1, <3>2 DEF ChainLinked, Recomputed
    <2>2. CASE i = n + 1 /\ entries'[i] = r
      <3>1. (i # 1) => (i - 1 = n /\ n \in DOMAIN entries)
        BY <2>2, EntriesDomain
      <3>4. (i # 1) => entries'[n] = entries[n]
        BY <3>1, CreateAppends
      <3>2. entries'[i].previous_hash =
                IF i = 1 THEN GENESIS_HASH ELSE entries'[i - 1].current_hash
        BY <1>1, <1>2, <2>2, <3>1, <3>4
      <3>3. entries'[i].current_hash = Recomputed(i)'
        BY <1>2, <2>2 DEF Recomputed
      <3> QED  BY <1>2, <2>2, <3>2, <3>3
    <2> QED  BY <2>1, <2>2, CreatePositions
  <1> HIDE DEF n, r
  <1> QED  BY <1>1, <1>3, <1>4, <1>5 DEF ChainLinked

-----------------------------------------------------------------------------
\* The read side writes nothing but verdicts: verify_entry and detect_tampering
\* leave records that differ from the stored ones in `verified` only.
OnlyVerdicts ==
    /\ entries' = [i \in DOMAIN entries |->
                      [entries[i] EXCEPT !.verified = entries'[i].verified]]
    /\ \A i \in DOMAIN entries : entries'[i].verified \in BOOLEAN
    /\ UNCHANGED <<chain_state, status>>

LEMMA AllValidBoolean ==
    ASSUME NEW i
    PROVE  AllValid(i) \in BOOLEAN
  BY DEF AllValid, DataHashValid, ChainHashValid, PreviousHashValid

LEMMA VerifyOnlyVerdicts ==
    ASSUME ChainTypeOK, NEW e \in Entry, VerifyEntry(e)
    PROVE  OnlyVerdicts
  <1> DEFINE k == FetchByAuditId(e)
             valid == AllValid(k)
  <1>1. entries' = [i \in DOMAIN entries |->
                      IF i = k THEN [entries[i] EXCEPT !.verified = valid] ELSE entries[i]]
    BY DEF VerifyEntry
  <1>2. valid \in BOOLEAN
    BY AllValidBoolean
  <1>3. \A i \in DOMAIN entries : entries[i] \in StoredRecord
    BY DEF ChainTypeOK
  <1> HIDE DEF k, valid
  <1>4. \A i \in DOMAIN entries :
            /\ entries'[i] = [entries[i] EXCEPT !.verified = entries'[i].verified]
            /\ entries'[i].verified \in BOOLEAN
    BY <1>1, <1>2, <1>3 DEF StoredRecord
  <1> QED  BY <1>1, <1>4 DEF OnlyVerdicts, VerifyEntry

LEMMA ScanOnlyVerdicts ==
    ASSUME ChainTypeOK, ScanChain
    PROVE  OnlyVerdicts
  <1> DEFINE first(i) == FetchByAuditId(entries[i].audit_id)
  <1>1. entries' = [i \in DOMAIN entries |->
                      IF i = first(i)
                      THEN [entries[i] EXCEPT !.verified = AllValid(i)]
                      ELSE entries[i]]
    BY DEF ScanChain
  <1>2. \A i \in DOMAIN entries : AllValid(i) \in BOOLEAN
    BY AllValidBoolean
  <1>3. \A i \in DOMAIN entries : entries[i] \in StoredRecord
    BY DEF ChainTypeOK
  <1> HIDE DEF first
  <1>4. \A i \in DOMAIN entries :
            /\ entries'[i] = [entries[i] EXCEPT !.verified = entries'[i].verified]
            /\ entries'[i].verified \in BOOLEAN
    BY <1>1, <1>2, <1>3 DEF StoredRecord
  <1> QED  BY <1>1, <1>4 DEF OnlyVerdicts, ScanChain

\* The records keep their place, identity and hashes.
LEMMA VerdictsKeepRecords ==
    ASSUME ChainTypeOK, OnlyVerdicts
    PROVE  /\ Len(entries') = Len(entries)
           /\ DOMAIN entries' = DOMAIN entries
           /\ (entries' = <<>>) <=> (entries = <<>>)
           /\ KnownHashes' = KnownHashes
           /\ \A i \in DOMAIN entries :
                 /\ entries'[i] \in StoredRecord
                 /\ entries'[i].audit_id = entries[i].audit_id
                 /\ entries'[i].body = entries[i].body
                 /\ entries'[i].data_hash = entries[i].data_hash
                 /\ entries'[i].previous_hash = entries[i].previous_hash
                 /\ entries'[i].current_hash = entries[i].current_hash
                 /\ entries'[i].sequence_number = entries[i].sequence_number
           /\ entries' \in Seq(StoredRecord)
  <1>1. \A i \in DOMAIN entries : entries[i] \in StoredRecord
    BY DEF ChainTypeOK
  <1>2. DOMAIN entries' = DOMAIN entries
    BY DEF OnlyVerdicts
  <1>3. \A i \in DOMAIN entries :
            entries'[i] = [entries[i] EXCEPT !.verified = entries'[i].verified]
    BY DEF OnlyVerdicts
  <1>4. \A i \in DOMAIN entries :
                 /\ entries'[i] \in StoredRecord
                 /\ entries'[i].audit_id = entries[i].audit_id
                 /\ entries'[i].body = entries[i].body
                 /\ entries'[i].data_hash = entries[i].data_hash
                 /\ entries'[i].previous_hash = entries[i].previous_hash
                 /\ entries'[i].current_hash = entries[i].current_hash
                 /\ entries'[i].sequence_number = entries[i].sequence_number
    BY <1>1, <1>3 DEF OnlyVerdicts, StoredRecord
  <1>5. entries' \in [DOMAIN entries -> StoredRecord]
    BY <1>4 DEF OnlyVerdicts
  <1>6. entries' \in Seq(StoredRecord) /\ Len(entries') = Len(entries)
    BY <1>5, SeqOfSameLength DEF ChainTypeOK
  <1>7. KnownHashes' = KnownHashes
    BY <1>2, <1>4 DEF KnownHashes, OnlyVerdicts
  <1>8. (entries' = <<>>) <=> (entries = <<>>)
    BY <1>6 DEF ChainTypeOK
  <1> QED  BY <1>2, <1>4, <1>6, <1>7, <1>8

LEMMA VerdictsKeepTypes ==
    ASSUME ChainTypeOK, OnlyVerdicts
    PROVE  ChainTypeOK'
  <1>1. StoredRecord' = StoredRecord
    BY VerdictsKeepRecords DEF StoredRecord
  <1> QED  BY <1>1, VerdictsKeepRecords DEF ChainTypeOK, OnlyVerdicts

LEMMA VerdictsKeepLinked ==
    ASSUME ChainTypeOK, ChainLinked, OnlyVerdicts
    PROVE  ChainLinked'
  <1>1. chain_state' = chain_state
    BY DEF OnlyVerdicts
  <1>2. ASSUME NEW i \in DOMAIN entries'
        PROVE  /\ entries'[i].sequence_number = i
               /\ entries'[i].current_hash = Recomputed(i)'
               /\ entries'[i].data_hash = DataHash(entries'[i].audit_id)
               /\ entries'[i].previous_hash =
                     IF i = 1 THEN GENESIS_HASH ELSE entries'[i - 1].current_hash
    <2>1. i \in DOMAIN entries
      BY VerdictsKeepRecords
    <2>2. (i # 1) => i - 1 \in DOMAIN entries
      BY <2>1, EntriesDomain
    <2> QED  BY <2>1, <2>2, VerdictsKeepRecords DEF ChainLinked, Recomputed
  <1>3. (entries # <<>>) => Len(entries) \in DOMAIN entries
    BY EntriesDomain
  <1> QED  BY <1>1, <1>2, <1>3, VerdictsKeepRecords DEF ChainLinked

-----------------------------------------------------------------------------
\* Which entries are in the chain after a step.

LEMMA CreateInChain ==
    ASSUME ChainTypeOK, NEW e \in Entry, CreateChainEntry(e), NEW x
    PROVE  InChain(x)' <=> (InChain(x) \/ x = e)
  <1>1. ChainRecord(e).audit_id = e
    BY DEF ChainRecord
  <1>2. ASSUME InChain(x)'
        PROVE  InChain(x) \/ x = e
    <2>1. PICK i \in DOMAIN entries' : entries'[i].audit_id = x
      BY <1>2 DEF InChain
    <2> QED  BY <1>1, <2>1, CreatePositions DEF InChain
  <1>3. ASSUME InChain(x)
        PROVE  InChain(x)'
    BY <1>3, CreateAppends DEF InChain
  <1>4. InChain(e)'
    BY <1>1, CreateAppends DEF InChain
  <1> QED  BY <1>2, <1>3, <1>4

LEMMA VerdictsInChain ==
    ASSUME ChainTypeOK, OnlyVerdicts, NEW x
    PROVE  InChain(x)' <=> InChain(x)
  BY VerdictsKeepRecords DEF InChain

-----------------------------------------------------------------------------
\* The empty chain has its types and is linked.
LEMMA ChainInitOK ==
    ASSUME ChainInit
    PROVE  ChainTypeOK /\ ChainLinked
  <1>1. entries = <<>> /\ DOMAIN entries = {} /\ Len(entries) = 0
    BY DEF ChainInit
  <1>2. entries \in Seq(StoredRecord)
    BY <1>1
  <1>3. ChainTypeOK
    BY <1>2 DEF ChainInit, ChainTypeOK, EntryStatus, KnownHashes
  <1>4. ChainLinked
    BY <1>1 DEF ChainInit, ChainLinked
  <1> QED  BY <1>3, <1>4

-----------------------------------------------------------------------------
\* Looking a record up, and what verification finds in a chain nobody altered.

LEMMA LeastNatural ==
    ASSUME NEW T, T \subseteq Nat, T # {}
    PROVE  \E x \in T : \A y \in T : x <= y
  <1>1. PICK x \in T : \A y \in T : ~(<<y, x>> \in OpToRel(<, Nat))
    BY NatLessThanWellFounded, WFMin
  <1>2. \A y \in T : ~(y < x)
    BY <1>1 DEF OpToRel
  <1>3. \A y \in T : x <= y
    BY <1>2
  <1> QED  BY <1>3, Zenon

\* fetch_by_audit_id finds the first record with that id.
LEMMA FetchFinds ==
    ASSUME ChainTypeOK, NEW i \in DOMAIN entries
    PROVE  LET k == FetchByAuditId(entries[i].audit_id)
           IN  /\ k \in DOMAIN entries
               /\ entries[k].audit_id = entries[i].audit_id
               /\ \A j \in 1 .. k - 1 : entries[j].audit_id # entries[i].audit_id
  <1> DEFINE e == entries[i].audit_id
             Same == {j \in DOMAIN entries : entries[j].audit_id = e}
             First(k) == /\ entries[k].audit_id = e
                         /\ \A j \in 1 .. k - 1 : entries[j].audit_id # e
  <1>1. DOMAIN entries = 1 .. Len(entries) /\ Len(entries) \in Nat
    BY DEF ChainTypeOK
  <1>2. Same \subseteq Nat /\ i \in Same
    BY <1>1
  <1>3. PICK k \in Same : \A j \in Same : k <= j
    BY <1>2, LeastNatural
  <1>4. k \in DOMAIN entries /\ First(k)
    <2>1. k \in 1 .. Len(entries) /\ entries[k].audit_id = e
      BY <1>1
    <2>2. ASSUME NEW j \in 1 .. k - 1
          PROVE  j \notin Same /\ j \in DOMAIN entries
      BY <1>1, <1>3, <2>1
    <2> QED  BY <1>1, <2>1, <2>2
  <1>5. FetchByAuditId(e) = CHOOSE m \in DOMAIN entries : First(m)
    BY DEF FetchByAuditId
  <1> HIDE DEF First
  <1>6. FetchByAuditId(e) \in DOMAIN entries /\ First(FetchByAuditId(e))
    BY <1>4, <1>5, Zenon
  <1> QED  BY <1>6 DEF First

\* The bodies are still those of the audit ids: nothing altered a record.
BodiesKept == \A i \in DOMAIN entries : entries[i].body = entries[i].audit_id

LEMMA CreateKeepsBodies ==
    ASSUME ChainTypeOK, BodiesKept, NEW e \in Entry, CreateChainEntry(e)
    PROVE  BodiesKept'
  <1>1. ChainRecord(e).body = e /\ ChainRecord(e).audit_id = e
    BY DEF ChainRecord
  <1> QED  BY <1>1, CreateAppends, CreatePositions DEF BodiesKept

LEMMA LinkedIsValid ==
    ASSUME ChainTypeOK, ChainLinked, BodiesKept
    PROVE  /\ \A first, last \in 1 .. Len(entries) : VerifyChainIntegrity(first, last) = {}
           /\ DetectTampering = {}
  <1>1. ASSUME NEW i \in DOMAIN entries
        PROVE  /\ ChainHashValid(i) /\ DataHashValid(i)
               /\ \A j \in DOMAIN entries : j = i - 1 => entries[i].previous_hash = entries[j].current_hash
    BY EntriesDomain DEF ChainLinked, BodiesKept, ChainHashValid, DataHashValid
  <1>2. ASSUME NEW first \in 1 .. Len(entries), NEW last \in 1 .. Len(entries)
        PROVE  VerifyChainIntegrity(first, last) = {}
    BY <1>1 DEF VerifyChainIntegrity, FetchEntries, ChainHashValid
  <1>3. ASSUME NEW i \in DOMAIN entries
        PROVE  PreviousHashValid(i)
    BY <1>1 DEF PreviousHashValid, FetchEntries, ChainLinked
  <1>4. ASSUME NEW i \in DOMAIN entries
        PROVE  AllValid(FetchByAuditId(entries[i].audit_id))
    <2> DEFINE k == FetchByAuditId(entries[i].audit_id)
    <2>1. k \in DOMAIN entries
      BY FetchFinds
    <2> HIDE DEF k
    <2>2. AllValid(k)
      BY <1>1, <1>3, <2>1 DEF AllValid
    <2> QED  BY <2>2 DEF k
  <1> QED  BY <1>2, <1>4 DEF DetectTampering
=============================================================================
