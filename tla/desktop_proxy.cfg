CONSTANTS
    MaxRequests = 2
    MaxMishaps = 0

SPECIFICATION Spec

CHECK_DEADLOCK FALSE

INVARIANTS
    ProxyOnlyWithCore
