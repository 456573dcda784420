CONSTANTS
    Tabs = {t1}
    Requests = {r1, r2}
    ProbesSession = TRUE
    MaxExpiries = 1
SPECIFICATION Spec
PROPERTY EveryRequestSettles
CHECK_DEADLOCK FALSE
