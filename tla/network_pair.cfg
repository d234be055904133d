CONSTANTS
    NULL = NULL
    Clocks <- PairClocks
    NumPorts = 2
    Peer <- PairPeer
    DefaultDS <- EqualDS
    MaxStepsRemoved = 3
    LinkLoss = FALSE
    Failing = {}
    Restarting = {}
    SteadyFailures = FALSE
SPECIFICATION Spec
PROPERTIES
    Converges
