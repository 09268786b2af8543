SPECIFICATION Spec
CONSTANTS
    NULL = NULL
    GARBAGE = GARBAGE
    Names = {m1, m2}
    Objects = {v1, v2, v3, v4, v5, v6}
    Files = {}
    FileSize = 1
    Word = 8
    INIT_MPOINTS = 16
    Events = {}
    MaxSlots = 10
SYMMETRY HeapSymmetry
INVARIANTS NoWildAccess
