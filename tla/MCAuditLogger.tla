---------------------------- MODULE MCAuditLogger ----------------------------
\* Instances of AuditLogger for TLC: four entries of which one cannot be
\* serialised, and a buffer of three, so that a flush meets a failing entry
\* first, in the middle and last, by size, by the loop and at stop().
EXTENDS AuditLogger

CONSTANTS e1, e2, e3, e4

MCEntry == {e1, e2, e3, e4}
MCUnserialisable == {e2}
=============================================================================
