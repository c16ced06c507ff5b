SPECIFICATION FairSpec
CONSTANTS
    c1 = c1
    c2 = c2
    k1 = k1
    k2 = k2
    Free = Free
    None = None
    NoAnswer = NoAnswer
    Callers <- const_Callers
    Keys <- const_Keys
    Asks <- const_Asks
    MinSpacing = 1
    MaxPenalty = 2
INVARIANTS ResultsExplained OneRequestEach
PROPERTIES ObeysThrottler EveryCallReturns
