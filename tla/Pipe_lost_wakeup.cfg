SPECIFICATION PipeSpec
CHECK_DEADLOCK FALSE
CONSTANTS
    w1 = w1
    w2 = w2
    r1 = r1
    r2 = r2
    Nobody = Nobody
    Processes = {w1, r1}
    Writers = {w1}
    Readers = {r1}
    Killers = {}
    Writes <- OneByteCalls
    ReadSize <- OneReader
    PIPE_BUFFER_SIZE = 1
    SemaphoresAtomic = FALSE
    ReturnsFromMain = TRUE
    Names = {"mutex", "read", "write"}
    MAX_PROCESSES = 4
    MAX_SEMAPHORES = 3
    MaxUsers = 2
    InitialValues = {0, 1}
    MaxValue = 6
INVARIANTS
    SleepersCanBeWoken
