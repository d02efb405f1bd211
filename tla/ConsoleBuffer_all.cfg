SPECIFICATION Spec
CONSTANTS
    Shown <- OnlyReceived
    Logged <- Dirs
    MaxChars = 5
    LineBytes = 2
    BreakBytes <- Breaks
    StampBytes <- Stamps
    Sizes <- Short
    MaxBytes = 8
INVARIANT CountersAreSizes
INVARIANT KeepsTheEnd
INVARIANT LinesAreShort
INVARIANT StampsFollow
