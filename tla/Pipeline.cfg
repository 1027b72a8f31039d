SPECIFICATION Spec
CHECK_DEADLOCK FALSE
CONSTANTS
    Procs = {0, 1, 2, 3, 4}
    Init0 = 0
    PipeNames = {"cat", "wc", "help", "ps"}
    NoName = "none"
    MAX_PIPES = 2
    PIPE_BUFFER_SIZE = 2
    Commands <- Whole
    Reads = {"cat", "wc"}
    Echoes = {"cat"}
    Pieces <- Prints
    MaxKeys = 3
    MaxPipelines = 2
    Troubled <- CatWc
INVARIANTS
    OwnBytesOnly
    

    
