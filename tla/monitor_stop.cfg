SPECIFICATION Spec
CONSTANTS
    f1 = f1
    f2 = f2
    Other = Other
    None = None
    Fatal <- OneFatal
    maxRestarts = 1
    MAX_QUEUE_SIZE = 1
    MaxChunks = 1
    Faults <- Stubborn
PROPERTY ShutdownTerminates
CHECK_DEADLOCK FALSE
