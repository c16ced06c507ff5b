SPECIFICATION FairSpec
CONSTANTS
    c1 = c1
    c2 = c2
    i1 = i1
    i2 = i2
    None = None
    Callers <- const_Callers
    Ids <- const_Ids
    Methods <- const_Resolve
    RetryMax = 2
PROPERTIES RetriesAreUsed
