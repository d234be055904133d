CONSTANTS
    Sockets = {s1, s2}
    Configs <- SharedConfigs
    Drivers <- SplitDrivers
    CheckFupsync = FALSE
    SelectErrQueue = TRUE
    SockoptFails = FALSE
    RxCap = 1
    ErrCap = 1
SPECIFICATION Spec
INVARIANTS
    EventRxStamped
