\* Two threads, four operations, two sessions, failing file operations.
SPECIFICATION Spec
CONSTANTS
    Threads = {t1, t2}
    Settings = {theme}
    PluginKeys = {k1, k2}
    Values = {d, v}
    DefaultValue = d
    Absent = Absent
    Keep = Keep
    Missing = Missing
    Torn = Torn
    None = None
    MaxKeys = 1
    MaxAttempts = 2
    ListenerSaves = {0, 1}
    MayFail = TRUE
    MaxOps = 4
    MaxStarts = 2
INVARIANTS TypeOK NoChangeForgotten
PROPERTIES FileReplacedWhole UnreadIsKept
CHECK_DEADLOCK FALSE
