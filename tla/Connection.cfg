\* The connection: three starts of the browser, a stop of the loader at any time.
\* The listeners: two crashes, two connections, three listeners of tasks or MEP clients.
SPECIFICATION MCSpec
CONSTANTS
    MaxPipes = 3
    Crashes = {k1, k2}
    MaxListeners = 3
    MaxConnections = 2
    None = None
INVARIANTS CrashesAreOffered
PROPERTIES NewPipeIsTaken StopEndsConnection
CHECK_DEADLOCK FALSE
