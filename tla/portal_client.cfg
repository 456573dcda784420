CONSTANTS
    Tabs = {t1}
    Requests = {r1, r2, r3}
    ProbesSession = FALSE
    MaxExpiries = 2
SPECIFICATION Spec
INVARIANTS TypeOK NobodyLeftBehind
PROPERTIES EveryRequestSettles ImplementsSingleFlight
CHECK_DEADLOCK FALSE
