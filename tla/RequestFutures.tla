--------------------------- MODULE RequestFutures ---------------------------
(***************************************************************************)
(* What cdp_client promises the threads that call send_host(): the future  *)
(* of a request is resolved at most once, to the endpoint's own answer or  *)
(* to a failure that has a reason.  CdpClient implements this module.      *)
(***************************************************************************)
CONSTANTS Requests, Bodies

VARIABLES
    future,  \* "idle", "waiting", a body of the endpoint or a failure
    answer,  \* what the endpoint answered, "none" until it does
    closed   \* shutdown() has been called

futures == <<future, answer, closed>>

Init ==
    /\ future = [r \in Requests |-> "idle"]
    /\ answer = [r \in Requests |-> "none"]
    /\ closed = FALSE

(* A request made of a closed client fails at once.                          *)
Issue(r) ==
    /\ future[r] = "idle"
    /\ future' = [future EXCEPT ![r] = IF closed THEN "client_shutdown" ELSE "waiting"]
    /\ UNCHANGED <<answer, closed>>

(* The endpoint may answer after the future was given up on.                 *)
Answer(r, b) ==
    /\ future[r] # "idle"
    /\ answer[r] = "none"
    /\ answer' = [answer EXCEPT ![r] = b]
    /\ UNCHANGED <<future, closed>>

Deliver(r) ==
    /\ future[r] = "waiting"
    /\ answer[r] # "none"
    /\ future' = [future EXCEPT ![r] = answer[r]]
    /\ UNCHANGED <<answer, closed>>

TimeOut(r) ==
    /\ future[r] = "waiting"
    /\ future' = [future EXCEPT ![r] = "timeout"]
    /\ UNCHANGED <<answer, closed>>

(* A request that could not be sent is never answered.                       *)
Undeliverable(r) ==
    /\ future[r] = "waiting"
    /\ answer[r] = "none"
    /\ future' = [future EXCEPT ![r] = "send_failed"]
    /\ UNCHANGED <<answer, closed>>

Close ==
    /\ ~closed
    /\ closed' = TRUE
    /\ UNCHANGED <<future, answer>>

(* The closed client gives up on some of the futures it still owes.          *)
Abandon(R) ==
    /\ closed
    /\ \A r \in R : future[r] = "waiting"
    /\ future' = [r \in Requests |-> IF r \in R THEN "shutdown" ELSE future[r]]
    /\ UNCHANGED <<answer, closed>>

Next ==
    \/ \E r \in Requests : Issue(r) \/ Deliver(r) \/ TimeOut(r) \/ Undeliverable(r)
    \/ \E r \in Requests, b \in Bodies : Answer(r, b)
    \/ Close
    \/ \E R \in SUBSET Requests : Abandon(R)

Spec == Init /\ [][Next]_futures
=============================================================================
