---------------------------- MODULE MCCanFrames ----------------------------
EXTENDS CanFrames

\* More than two CAN-FD frames, with each remainder.
UpToTwoFrames == {TooShort} \cup 0..130
=============================================================================
