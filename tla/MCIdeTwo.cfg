SPECIFICATION Spec
CONSTANTS
    Callers = {c1, c2}
    Sectors <- MCSectors
    Data = {x, y}
    Attached <- MasterOnly
    Faults = {}
INVARIANTS DoneMeansTransferred
