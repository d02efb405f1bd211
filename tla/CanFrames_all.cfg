SPECIFICATION Spec
CONSTANTS
    Lengths <- UpToTwoFrames
    MaxSendError = 2
    MaxArrivals = 2
INVARIANT WireIsMessage
INVARIANT NothingLost
PROPERTY AllRead
