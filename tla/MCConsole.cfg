SPECIFICATION ConsoleSpec
CHECK_DEADLOCK FALSE
CONSTANTS
    Writers = {"w1", "w2"}
    Readers = {"r1"}
    Killers = {"k1", "k2"}
    Processes = {"w1", "w2", "r1", "k1", "k2"}
    Nobody = "nobody"
    Writes <- KilledWrites
    ReadSize <- KilledReads
    PIPE_BUFFER_SIZE = 2
    SemaphoresAtomic = TRUE
    ReturnsFromMain = FALSE
    Names = {"mutex", "read", "write"}
    MAX_PROCESSES = 5
    MAX_SEMAPHORES = 3
    MaxUsers = 2
    InitialValues = {0, 1, 2}
    MaxValue = 6
    BUFFER_LENGTH = 3
    MaxWait = 1
    MaxKeys = 5
    MaxModifiers = 3
    First = "s1"
    Second = "s2"
    Jobs = {"j1"}
    NoProcess = "none"
    Proc = {1, 2, 3}
    Secs = {0}
    PerSecond = 3
    INT_MAX = 31
    ULONG_MAX = 255
    MaxReal = 8
INVARIANTS
    ModeIsTheCommands
    SleepIsOnTime
    
PROPERTIES
    QueueSpec
    KeysGoToTheForeground
    
