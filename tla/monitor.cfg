SPECIFICATION FairSpec
CONSTANTS
    f1 = f1
    f2 = f2
    Other = Other
    None = None
    Fatal <- TwoFatals
    maxRestarts = 1
    MAX_QUEUE_SIZE = 1
    MaxChunks = 2
    Faults <- AnyFault
INVARIANTS TypeOK RestartBudget SpawnsCounted OneChildUntilFatal NoStrandedOutput
PROPERTIES ImplementsSupervisor ShutdownEnds RestartHappens
CHECK_DEADLOCK FALSE
