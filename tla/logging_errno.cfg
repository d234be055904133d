CONSTANTS
    Tags <- TagSet
    Names = {n1}
    Errnos = {EINTR, ENOMEM}
    StdioErr = EPIPE
    StdioFails = TRUE
    NONE = NONE
SPECIFICATION Spec
INVARIANT ReturnsCause
