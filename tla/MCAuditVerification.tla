------------------------- MODULE MCAuditVerification -------------------------
\* Instances of AuditVerification for TLC: three entries, so that a record with
\* neighbours on both sides can be altered.
EXTENDS AuditVerification, TLC

CONSTANTS e1, e2, e3

MCEntry == {e1, e2, e3}
MCUnserialisable == {}

\* Nothing in the model tells one entry from another.
Symmetry == Permutations(MCEntry)
=============================================================================
