\* A child without coroutines that may hang: calls, destruction and crash reports still come to an end.
SPECIFICATION FairSpec
CONSTANTS
    MaxCalls = 1
    MaxNotifies = 2
    MaxSaid = 1
    SocketCapacity = 2
    Coroutines = FALSE
    Oversized = TRUE
    MayCrash = TRUE
    ParentMayDie = FALSE
    PidReuse = FALSE
PROPERTIES CallsReturn DestroyEnds CrashNoticed InOrder
CHECK_DEADLOCK FALSE
