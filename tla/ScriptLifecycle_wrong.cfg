SPECIFICATION SafeSpec
CONSTANTS
    a = a  b = b  t1 = t1  t2 = t2
    Scripts <- TwoScripts
    Threads <- TwoThreads
    Windowed <- OneWindow
    NoThread = NoThread
    MaxActs = 4
INVARIANT TerminatedWereAsked
