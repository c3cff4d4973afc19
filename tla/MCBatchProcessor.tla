--------------------------- MODULE MCBatchProcessor ---------------------------
\* Instances of BatchProcessor for TLC: batches of two, a breaker that opens at
\* the second failure in a row, and entries enough to open it, test recovery
\* with a failing and with a good batch, and close it again.
EXTENDS BatchProcessor

CONSTANTS e1, e2, e3, e4, e5

MCEntry == {e1, e2, e3, e4, e5}
MCUnserialisable == {e2, e4}
=============================================================================
