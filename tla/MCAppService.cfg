SPECIFICATION Spec
CONSTANTS
    p1 = p1
    p2 = p2
    a = a
    b = b
    None = None
    Procs <- const_Procs
    Chars <- const_Chars
    TopN = 1
    Saves <- const_Saves
    MaxSessions = 1
    MaxClock = 3
INVARIANTS DetailsAccounted SettingsStayValid
PROPERTIES SourceNeverChanges
CHECK_DEADLOCK FALSE
SYMMETRY const_Symmetry
