\* A callback waits for a future while shutdown() joins the pool.
SPECIFICATION FairSpec
CONSTANTS
    Requests = {r1}
    CallbackRequests = {r1}
    Events = {e1}
    Tokens = {t1}
    NoEvent = NoEvent
    NoRequest = NoRequest
    Pool = {p1}
    QueueLimit = 1
    MaxEvents = 1
PROPERTIES BlockingCallbacksAreSafe
CHECK_DEADLOCK FALSE
