SPECIFICATION Spec
CONSTANTS
    NULL = NULL
    DOT = "."
    PAD = " "
    NAME = 2
    EXT = 1
    PathMax = 6
    Mounts <- MCMounts
    MountedAt <- MCMountedAt
    MaxDevices = 2
    Clusters <- MCClusters
    BlockSize = 2
    EntrySize = 1
    JunkBytes = {0, 255}
    Word = 16
    NumBlocks <- MCNumBlocks
    Workloads <- MCWorkloads
    Inputs <- MCInputs
INVARIANTS ReadReturnsFileBytes
CHECK_DEADLOCK FALSE
