SPECIFICATION ServicesSpec
CONSTANTS
    Reader = {reader1, reader2}
    RuntimeError = {runtimeError}
    ClientError = {clientError}
    MaxReads = 3
    MaxInstances = 2
    Turn = {1, 2, 3}
    Quoting = {2, 3}
    MIN_MESSAGES_FOR_CLEANUP = 3
    MaxMemos = 1
    CommandRequest = {request1, request2}
    Cmd = {install}
    chunkSize = 1
    replayChunkSize = 2
    MaxSandboxes = 2
    Create = {create1, create2}
    Lookup = {}
    PackageJson = PackageJson
    Rest = Rest
    NoOne = NoOne
    MaxPort = 2
    MaxLosses = 1
    Login = {login1, login2}
    Refresh = {refresh}
    maxSessions = 1
    MaxLogins = 4
    MaxUses = 2
    maxRetries = 2
    MaxSockets = 5
    File = {new, old}
    OldFiles = {old}
    Garbled = Garbled
    NoFile = NoFile
    retryLimit = 2
    chunk_size = 2
    MaxLines = 5
    maxLines = 3
    CHECK_INTERVAL = 1
    LockAttempts = 1
    MaxLogLines = 2
    MaxLogReads = 2
INVARIANTS
    ServicesTypeOK
    
    AnswersInContext LostOnlyByOverlap
    HistoryInstalled
    CreatedComplete PreviewShowsOwnApp NoFalseAlarm
    SessionsLimited
    RetriesBounded NeverStranded OnlyOwnSocket
    AnswerAsWritten
    LogLinesAccounted LockGivenBack
PROPERTIES
    MostRecentKept
    CommandRunsEnd
    CreatesAnswered
CHECK_DEADLOCK FALSE
