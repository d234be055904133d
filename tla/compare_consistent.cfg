CONSTANTS
    NULL = NULL
    Refs <- ConsistentRefs
SPECIFICATION Spec
INVARIANTS
    TypeOK
    Antisymmetric
    TotalPreorder
