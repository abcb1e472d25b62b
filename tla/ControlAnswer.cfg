SPECIFICATION FairSpec
CONSTANTS
    c1 = c1
    Commands = {c1}
    p1 = p1
    Pids = {p1}
    Limit = 2
    ChunkBytes = 3
    Bytes = 4
    MaxBytes <- BytesEach
    MaxThreadFaults = 1
    PipesMayEnd = TRUE
    Closer = Closer
    None = None
INVARIANT ThreadsGoOn
INVARIANT AnswerTellsOutput
PROPERTY CommandsAnswered
PROPERTY ControlProcessesEnd
CHECK_DEADLOCK FALSE
