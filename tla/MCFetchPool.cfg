SPECIFICATION FairSpec
CONSTANTS
    p1 = p1
    p2 = p2
    p3 = p3
    p4 = p4
    Free = Free
    None = None
    Requested <- const_Requested
    Pilots <- const_Pilots
    Answers <- const_Answers
    Limit = 2
INVARIANTS AtMostLimit
PROPERTIES Gathers Returns
CHECK_DEADLOCK FALSE
