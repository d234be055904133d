CONSTANTS
    NONE = NONE
    USER_HZ = 100
    Freqs <- FreqSet
    Phases = {0, 1000}
    TaiOffsets = {37}
    StepWidth = 6
    NS_PER_SEC = 10
    StepArgs <- StepArgsNoMin
    KernelFails = FALSE
SPECIFICATION Spec
INVARIANTS
    FreqHonoured
    StepExact
    CompareMatchesReference
    CompareOffsetBounded
