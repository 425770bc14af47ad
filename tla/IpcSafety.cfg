\* Calls and what can happen to them: crashes, rejected frames, death of the parent, reused pids.
SPECIFICATION Spec
CONSTANTS
    MaxCalls = 2
    MaxNotifies = 0
    MaxSaid = 1
    SocketCapacity = 2
    Coroutines = TRUE
    Oversized = TRUE
    MayCrash = TRUE
    ParentMayDie = TRUE
    PidReuse = TRUE
INVARIANTS TypeOK OutcomeJustified UnloadOnce CrashIsReal DestroyedMeansGone
PROPERTIES PromiseOnce
CHECK_DEADLOCK FALSE
