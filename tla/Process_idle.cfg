SPECIFICATION ProcessSpec
CONSTANTS
    MAX_PROCESSES = 3
    MAX_PRIORITY = 1
    AGING_THRESHOLD = 1
    AGING_STEP = 1
    priority_time_slices <- OneSlice
    Priorities = {0}
    NiceValues = {0}
    CLEANUP_INTERVAL = 3
    MaxPid = 2
INVARIANTS
    HaltsAfterTheShell
