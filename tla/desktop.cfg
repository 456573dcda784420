CONSTANTS
    MaxRequests = 3
    MaxMishaps = 1

SPECIFICATION Spec

CHECK_DEADLOCK FALSE

INVARIANTS
    TypeOK
    Watched
    NoOrphan
    NoCoreAfterDisconnect
