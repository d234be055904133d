CONSTANTS
    NONE = NONE
    USER_HZ = 1024
    Freqs <- FreqSet
    Phases = {0}
    TaiOffsets = {37}
    StepWidth = 6
    NS_PER_SEC = 10
    StepArgs <- StepArgsFew
    KernelFails = TRUE
SPECIFICATION Spec
INVARIANTS
    TypeOK
    LeapSynced
CHECK_DEADLOCK FALSE
