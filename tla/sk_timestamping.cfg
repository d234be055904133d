CONSTANTS
    Sockets = {s1}
    Configs <- AllConfigs
    Drivers <- AllDrivers
    CheckFupsync = TRUE
    SelectErrQueue = FALSE
    SockoptFails = TRUE
    RxCap = 1
    ErrCap = 1
SPECIFICATION Spec
INVARIANTS
    EventRxStamped
