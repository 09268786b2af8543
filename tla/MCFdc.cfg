SPECIFICATION FairSpec
CONSTANTS
    NULL = NULL
    Callers = {c1}
    Sectors <- MCSectors
    Data = {d1, d2}
    Kinds = {"read", "write"}
    Retries = 3
    Faults = {"seek"}
INVARIANTS TypeOK OneInterruptPerWait ReadyBetweenCalls SuccessMeansTransferred SeekSuccessMeansThere
PROPERTIES OnlyTheWrittenSectorChanges MotorOffUnlessReadFailed EveryCallReturns
