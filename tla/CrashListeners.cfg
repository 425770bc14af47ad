\* A listener that is added after a crash was told to another.
SPECIFICATION ListenersSpec
CONSTANTS
    Crashes = {k1}
    MaxListeners = 2
    MaxConnections = 1
    None = None
INVARIANTS NoNotificationMissed
CHECK_DEADLOCK FALSE
