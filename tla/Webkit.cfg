SPECIFICATION FairSpec
CONSTANTS
    Targets = {p1}
    Threads = {t1, t2, t3}
    None = None
    MaxChanges = 3
INVARIANTS NoStacking NoWaitUnderLock
PROPERTIES PagesAreHooked
CHECK_DEADLOCK FALSE
