SPECIFICATION Spec
CONSTANTS
    MaxEntries = 3
    MaxAdds = 4
    MaxPresses = 3
INVARIANT SelectionIsSent
INVARIANT OneAtATime
INVARIANT TakesHistoryData
PROPERTY HistorySendEnds
