CONSTANTS
    NULL = NULL
    Refs <- StaleRefs
SPECIFICATION Spec
INVARIANTS
    TotalPreorder
