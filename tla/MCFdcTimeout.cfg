SPECIFICATION Spec
CONSTANTS
    NULL = NULL
    Callers = {c1}
    Sectors <- MCSectors
    Data = {d1, d2}
    Kinds = {"read", "write"}
    Retries = 3
    Faults = {"seek", "fifo"}
INVARIANTS SeekSuccessMeansThere
CHECK_DEADLOCK FALSE
