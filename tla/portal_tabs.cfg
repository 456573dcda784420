CONSTANTS
    Tabs = {t1, t2}
    Requests = {r1, r2, r3}
    ProbesSession = TRUE
    MaxExpiries = 1
SPECIFICATION Spec
INVARIANTS FlagIsTheRefresh OwnRotationAccepted
CHECK_DEADLOCK FALSE
