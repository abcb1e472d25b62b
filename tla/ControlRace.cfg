SPECIFICATION Spec
CONSTANTS
    c1 = c1
    c2 = c2
    Commands = {c1, c2}
    p1 = p1
    p2 = p2
    Pids = {p1, p2}
    Limit = 1
    ChunkBytes = 1
    Bytes = 0
    MaxBytes <- BytesEach
    MaxThreadFaults = 1
    PipesMayEnd = FALSE
    Closer = Closer
    None = None
SYMMETRY RaceSymmetry
INVARIANT TypeOK
INVARIANT LiveControlIsListed
INVARIANT SweptControlsAreDead
CHECK_DEADLOCK FALSE
