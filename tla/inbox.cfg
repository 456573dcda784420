CONSTANTS
    Others = {o1}
    Notifications = {n1}
    Pages = {{"conversations", "detail"}, {"notifications"}}
    MaxVersion = 3
    Cached = {{"conversations"}, {"conversations", "notifications"}}
    QueueSize = 1
    MaxUpsets = 1
SPECIFICATION Spec
INVARIANTS TypeOK ToldIsShown OverflowIsAnnounced SyncingIsTrue
PROPERTIES RecoveriesEnd
CHECK_DEADLOCK FALSE
