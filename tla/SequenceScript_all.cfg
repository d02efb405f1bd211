SPECIFICATION Spec
CONSTANTS
    s1 = s1  c1 = c1  c2 = c2
    Singles <- OneSingle
    Cyclics <- TwoCyclics
    NoCall = NoCall
    MaxDialogs = 2
PROPERTY DialogKeepsThread
INVARIANT RequestsAreLive
INVARIANT ScriptDataOrNothing
PROPERTY EveryCallEnds
