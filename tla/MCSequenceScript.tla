-------------------------- MODULE MCSequenceScript --------------------------
EXTENDS SequenceScript

CONSTANTS s1, c1, c2

OneSingle == {s1}
TwoCyclics == {c1, c2}
=============================================================================
