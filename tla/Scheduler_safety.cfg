SPECIFICATION SchedulerSpec
CONSTANTS
    MAX_PROCESSES = 3
    MAX_PRIORITY = 2
    AGING_THRESHOLD = 2
    AGING_STEP = 1
    priority_time_slices <- TwoSlices
    Priorities = {0, 2}
    NiceValues = {0, 2}
INVARIANTS
    TypeOK
    QueueIsReadySet
    RoomForCurrent
    NeverWorseThanNice
PROPERTIES
    NoOvertakingAtTheTop
