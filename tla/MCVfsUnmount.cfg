SPECIFICATION Spec
CONSTANTS
    NULL = NULL
    GARBAGE = GARBAGE
    Names = {m1, m2}
    Objects = {v1, v2}
    Files = {f1}
    FileSize = 2
    Word = 8
    INIT_MPOINTS = 16
    Events = {"unmount"}
    MaxSlots = 5
SYMMETRY HeapSymmetry
INVARIANTS NoUseAfterUnmount
