SPECIFICATION Spec
CONSTANTS
    NULL = NULL
    LoadMsg <- MCLoadMsg
    LogMsg <- MCLogMsg
    OtherCalls <- MCOtherCalls
    Workloads <- MCWorkloads
INVARIANTS TypeOK LineCarriesTheText InterruptsOnTheirVectors FloppyTransferAsProgrammed
PROPERTIES ChannelsIndependent EveryRequestServed
CHECK_DEADLOCK FALSE
