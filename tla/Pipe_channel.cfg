SPECIFICATION PipeSpec
CONSTANTS
    w1 = w1
    w2 = w2
    r1 = r1
    r2 = r2
    Nobody = Nobody
    Processes = {w1, w2, r1, r2}
    Writers = {w1, w2}
    Readers = {r1, r2}
    Killers = {}
    Writes <- TwoWriters
    ReadSize <- TwoReaders
    PIPE_BUFFER_SIZE = 2
    SemaphoresAtomic = TRUE
    ReturnsFromMain = TRUE
    Names = {"mutex", "read", "write"}
    MAX_PROCESSES = 4
    MAX_SEMAPHORES = 3
    MaxUsers = 2
    InitialValues = {0, 1, 2}
    MaxValue = 6
INVARIANTS
    TokenMeansByte
    SleepersCanBeWoken
PROPERTIES
    AllIsRead
    Implements
