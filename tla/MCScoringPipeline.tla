-------------------------- MODULE MCScoringPipeline --------------------------
\* Instances of ScoringPipeline for TLC.
EXTENDS ScoringPipeline

CONSTANTS t1, t2

MCTransaction == {t1, t2}
MCUnextractable == {t2}
MCOneTransaction == {t1}
MCNone == {}
=============================================================================
