SPECIFICATION SafeSpec
CONSTANTS
    r1 = r1
    r2 = r2
    r3 = r3
    p1 = p1
    p2 = p2
    Requests = {r1, r2}
    Chunks <- TwoSends
    Types <- Everything
    Peers = {p1, p2}
    MaxConnects = 3
INVARIANT BlockedOnlyInSend
INVARIANT WellNested
INVARIANT SuccessMeansGone
INVARIANT OnlyConfiguredOpen
INVARIANT AnnouncedIsTrue
INVARIANT ReadAfterSuccess
PROPERTY AnswersOnce
PROPERTY NothingReopens
