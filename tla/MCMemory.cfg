SPECIFICATION MemorySpec
CHECK_DEADLOCK FALSE
CONSTANTS
    UserData = UserData
    TotalBlocks = 6
    BlockSize = 2
    Colors = 2
    Requests = {1, 2, 3, 4, 5}
    Tester = {1, 2}
    MaxMemory = 4
    MAX_BLOCKS = 2
    MAX_PROCESSES = 4
    Priorities = {0, 1, 2}
INVARIANTS
    NoBlockLost
    NobodyFails
PROPERTIES
    BitmapImplements
    BuddyImplements
    RunQueueSpec
