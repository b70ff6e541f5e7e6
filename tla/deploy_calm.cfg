SPECIFICATION FairSpec
CONSTANTS
    c1 = c1
    c2 = c2
    c3 = c3
    c4 = c4
    f1 = f1
    f2 = f2
    None = None
    Call <- Calls4
    File <- Files1
    MaxInstances = 2
    MaxTicks = 1
    Faults <- NoFaults
INVARIANTS SingleInstance ReturnedFilesPresent
PROPERTY EveryCallSettles
CHECK_DEADLOCK FALSE
