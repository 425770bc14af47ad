\* A plugin is disabled while another is still to be started: the frontend starts too early.
SPECIFICATION Spec
CONSTANTS
    Plugins = {a, b}
    Processes = {i1, i2}
    Users = {u1}
    Main = Main
    Frontend = Frontend
    None = None
    MaxOps = 1
    MaxConnects = 1
    Stops = FALSE
    MayCrash = FALSE
SYMMETRY Symmetric
PROPERTIES BackendsBeforeFrontend
CHECK_DEADLOCK FALSE
