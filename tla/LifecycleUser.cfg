\* A user enables, disables and stops plugins, from before the backends are started.
SPECIFICATION Spec
CONSTANTS
    Plugins = {a, b}
    Processes = {i1, i2}
    Users = {u1}
    Main = Main
    Frontend = Frontend
    None = None
    MaxOps = 1
    MaxConnects = 1
    Stops = TRUE
    MayCrash = TRUE
SYMMETRY Symmetric
INVARIANTS TypeOK NoMissedDispatch CallbackOnce ChildrenOwned
CHECK_DEADLOCK FALSE
