SPECIFICATION ProgramsSpec
CHECK_DEADLOCK FALSE
CONSTANTS
    Writers = {"w1", "w2"}
    Readers = {"r1", "r2"}
    Main = "main"
    Processes = {"w1", "w2", "r1", "r2", "main"}
    Names = {"empty", "full"}
    MAX_PROCESSES = 6
    MAX_SEMAPHORES = 2
    MaxUsers = 5
    Increasing = {"w1", "w2"}
    Decreasing = {"r1", "r2"}
    N = 2
    SEM_ID = "empty"
    InitialValues = {0, 1}
    MaxValue = 2
    MAX_PRIORITY = 1
    AGING_THRESHOLD = 1
    AGING_STEP = 1
    priority_time_slices <- OneSlice
    Priorities = {0}
    NiceValues = {0}
    CLEANUP_INTERVAL = 3
    MaxPid = 8
    MaxArgument = 4
INVARIANTS
    RecordIsTheTable
    ResultIsTheSum
PROPERTIES
    AllFinish
    MVarSpec
