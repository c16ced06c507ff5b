SPECIFICATION FairSpec
CONSTANTS
    c1 = c1
    c2 = c2
    c3 = c3
    Free = Free
    NoAnswer = NoAnswer
    Callers <- const_Callers
    Answers <- const_Answers
    Throttled <- const_Throttled
    MinSpacing = 2
    MaxPenalty = 5
INVARIANTS TypeOK SleepIsExact
PROPERTIES GrantsAreSpaced EveryoneGetsThrough
