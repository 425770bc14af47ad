\* A plugin sets a value while a setting is changed: both wait for ever.
SPECIFICATION FairSpec
CONSTANTS
    Threads = {t1, t2}
    Settings = {theme}
    PluginKeys = {k1}
    Values = {d, v}
    DefaultValue = d
    Absent = Absent
    Keep = Keep
    Missing = Missing
    Torn = Torn
    None = None
    MaxKeys = 1
    MaxAttempts = 2
    ListenerSaves = {0, 1}
    MayFail = FALSE
    MaxOps = 2
    MaxStarts = 1
PROPERTIES ChangesArePersisted
CHECK_DEADLOCK FALSE
