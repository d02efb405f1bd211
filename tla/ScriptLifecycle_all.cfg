SPECIFICATION Spec
CONSTANTS
    a = a  b = b  t1 = t1  t2 = t2
    Scripts <- TwoScripts
    Threads <- TwoThreads
    Windowed <- OneWindow
    NoThread = NoThread
    MaxActs = 4
INVARIANT NoDanglingThread
INVARIANT NoOrphans
INVARIANT TerminatesTheRightOne
PROPERTY StopsEnd
PROPERTY CallsReturn
