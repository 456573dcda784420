CONSTANTS
    d1 = d1
    d2 = d2
    d3 = d3
    d4 = d4
    Documents <- MCDocuments
    Bundle <- MCBundle
    Paused = {d4}
    MaxChanges = 2
    MaxUpsets = 3

SPECIFICATION Spec

CHECK_DEADLOCK FALSE

INVARIANTS
    TypeOK
    ReadyIsServed
    KnownGoodWasProven
    KnownGoodIsLocal

PROPERTIES
    Converges
