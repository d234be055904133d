CONSTANTS
    NULL = NULL
    Clocks <- PairClocks
    NumPorts = 2
    Peer <- PairPeer
    DefaultDS <- EqualDS
    MaxStepsRemoved = 3
    LinkLoss = FALSE
    Failing = {1}
    Restarting = {1}
    SteadyFailures = FALSE
SPECIFICATION Spec
INVARIANTS
    QuiescentIsTree
PROPERTIES
    Converges
    ElectionRefined
