CONSTANTS
    ReadTimes = {0, 1, 2, 3, 5}
    Sigma = 7
    Theta = 2
    Steps <- ForwardStep
    MaxReadings = 2
    INT64_MAX = 1000
    FAIL = FAIL
    NONE = NONE
SPECIFICATION Spec
INVARIANTS
    MatchesReference
    OffsetBounded
