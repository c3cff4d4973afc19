--------------------------- MODULE MCPolicyManager ---------------------------
\* Instances of PolicyManager for TLC: two requests in progress together, or one
\* at a time, over a handful of policies.
EXTENDS PolicyManager

CONSTANTS p1, p2

MCOneProc == {p1}
MCTwoProcs == {p1, p2}
=============================================================================
