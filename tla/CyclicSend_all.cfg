SPECIFICATION Spec
CONSTANTS
    Scripted <- WithScripts
    MaxRepetitions = 2
    MaxPresses = 3
    MaxCancels = 2
INVARIANT RunIsDriven
INVARIANT ChainsBounded
PROPERTY SendsInLockstep
PROPERTY ProgramCloses
