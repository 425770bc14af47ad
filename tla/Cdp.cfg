\* One request, of a thread or of a callback, races the endpoint, the cleanup thread and shutdown().
SPECIFICATION FairSpec
CONSTANTS
    Requests = {r1}
    CallbackRequests = {r1}
    Events = {e1}
    Tokens = {t1}
    NoEvent = NoEvent
    NoRequest = NoRequest
    Pool = {p1}
    QueueLimit = 1
    MaxEvents = 1
INVARIANTS TypeOK NoRequestLost SingleOwner OutcomeJustified TokensConsistent QuietWhenDone
PROPERTIES ImplementsFutures RequestsResolve BackpressureReleased ShutdownReturns
CHECK_DEADLOCK FALSE
