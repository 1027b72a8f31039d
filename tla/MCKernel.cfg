SPECIFICATION KernelSpec
CHECK_DEADLOCK FALSE
CONSTANTS
    Processes = {1, 2, 3, 4}
    Names = {"s", "t", "u"}
    MAX_PROCESSES = 4
    LastSlot = 3
    Blocks = {1, 2, 3, 4}
    STACK_SIZE = 1
    MaxArgs = 2
    CLEANUP_INTERVAL = 3
    MAX_SEMAPHORES = 2
    MaxUsers = 2
    InitialValues = {0, 1}
    MaxValue = 2
    Procs = {1, 2, 3}
    Init0 = 1
    PipeNames = {"a", "b"}
    NoName = "none"
    MAX_PIPES = 2
    PIPE_BUFFER_SIZE = 1
INVARIANTS
    BlocksHaveOneOwner
    CountsAreDescriptors
    NoSwitchInCreation
    NoIdleToken
    SleepersAreQueued
PROPERTIES
    CurrentStackIsKept
    FirstComeFirstServed
