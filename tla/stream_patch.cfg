SPECIFICATION StreamSpec
CONSTANTS
    File = {file}
    OldFiles = {}
    Garbled = Garbled
    NoFile = NoFile
    retryLimit = 1
    chunk_size = 1
    MaxLines = 6
INVARIANT PatchesApplied
CHECK_DEADLOCK FALSE
