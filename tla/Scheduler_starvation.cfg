SPECIFICATION FairScheduler
CONSTANTS
    MAX_PROCESSES = 3
    MAX_PRIORITY = 2
    AGING_THRESHOLD = 2
    AGING_STEP = 1
    priority_time_slices <- OneSlice
    Priorities = {0, 2}
    NiceValues = {}
PROPERTIES
    NoStarvation
