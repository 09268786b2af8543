SPECIFICATION FairSpec
CONSTANTS
    Callers = {c1}
    Sectors <- MCSectors
    Data = {x, y}
    Attached <- CdAndDisk
    Faults = {"media", "drive", "slow"}
INVARIANTS TypeOK DoneMeansTransferred
PROPERTIES NoCommandWhileBusy EveryCallReturns
CHECK_DEADLOCK FALSE
