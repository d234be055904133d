CONSTANTS
    NULL = NULL
    Clocks <- RingClocks
    NumPorts = 2
    Peer <- RingPeer
    DefaultDS <- PrimaryDS
    MaxStepsRemoved = 2
    LinkLoss = TRUE
    Failing = {}
    Restarting = {}
    SteadyFailures = FALSE
SPECIFICATION Spec
INVARIANTS
    TypeOK
    QuiescentIsTree
