--------------------------- MODULE MCDetectionCore ---------------------------
\* Instances of DetectionCore for TLC: c1, c2 and c3 are calls, d1 is a detector
\* that can be made, d2 one that cannot (approval_velocity).
EXTENDS DetectionCore, TLC

CONSTANTS c1, c2, c3, t1, t2, d1, d2

MCCall == {c1, c2, c3}
MCTransaction == {t1, t2}
MCDetector == {d1, d2}
MCRunnable == {d1}
=============================================================================
