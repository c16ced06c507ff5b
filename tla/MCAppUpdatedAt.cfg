SPECIFICATION FairSpec
CONSTANTS
    p1 = p1
    p2 = p2
    a = a
    b = b
    None = None
    Procs <- const_Procs
    Chars <- const_OneChar
    TopN = 1
    Saves <- const_Saves
    MaxSessions = 1
    MaxClock = 4
PROPERTIES UpdatedAtMovesForward
CHECK_DEADLOCK FALSE
