CONSTANTS
    NULL = NULL
    Clocks <- RingClocks
    NumPorts = 2
    Peer <- RingPeer
    DefaultDS <- PrimaryDS
    MaxStepsRemoved = 2
    LinkLoss = TRUE
    Failing = {1}
    Restarting = {}
    SteadyFailures = TRUE
SPECIFICATION Spec
INVARIANTS
    QuiescentIsTree
