SPECIFICATION Spec
CONSTANTS
    s1 = s1  s2 = s2  dev = dev  cli = cli  srv = srv
    Scripts <- TwoScripts
    Configs <- ThreeConfigs
    Saved <- OneSaved
    Kind <- OneEach
    Gui = Gui
    MaxCalls = 2
    MaxRepeats = 2
INVARIANT AnswerIsOwn
INVARIANT WaitersHaveOrders
INVARIANT GivenUpIsWithdrawn
INVARIANT FlagIsCurrent
PROPERTY CallsReturn
PROPERTY CloseEnds
CHECK_DEADLOCK FALSE
