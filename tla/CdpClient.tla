------------------------------ MODULE CdpClient ------------------------------
(***************************************************************************)
(* cdp_client (src/engine/cdp_api.cc): a Chrome DevTools Protocol client   *)
(* shared by many threads.  The threads are                                *)
(*   - the callers of send_host(), one per request (a request of           *)
(*     CallbackRequests may be issued by an event callback instead, which  *)
(*     then blocks in future.get() on the pool thread that runs it);       *)
(*   - the socket reader, which hands each message to handle_message();    *)
(*   - m_incoming_worker, which pops the queue and runs process_message(); *)
(*   - m_cleanup_thread, which times out stale requests;                   *)
(*   - the threads of m_callback_pool, which run event callbacks;          *)
(*   - whichever thread wins the compare-exchange of shutdown().           *)
(* A step is what one thread does between two points where another thread  *)
(* can see or change what it uses.  A wait on a condition variable is      *)
(* three steps: the predicate is found false with the mutex held           *)
(* ("blocking"), the mutex is released and the thread joins the wait set   *)
(* ("waiting"), and a notification sends it back to evaluate again.        *)
(***************************************************************************)
EXTENDS Integers, Sequences, FiniteSets

CONSTANTS
    Requests,          \* the requests ever issued; an element is its message id
    CallbackRequests,  \* those an event callback may issue
    Events,            \* event names, e.g. "Target.targetCreated"
    Tokens,            \* listener tokens returned by on()
    NoEvent,           \* m_token_to_event has no entry
    NoRequest,         \* a pool thread waits for no future
    Pool,              \* threads of m_callback_pool
    QueueLimit,        \* m_incoming_queue_limit
    MaxEvents          \* bound: events and malformed messages the endpoint sends

ASSUME CallbackAssumption == CallbackRequests \subseteq Requests
ASSUME NoEventAssumption == NoEvent \notin Events
ASSUME NoRequestAssumption == NoRequest \notin Requests
ASSUME LimitAssumption == QueueLimit \in Nat \ {0}
ASSUME MaxEventsAssumption == MaxEvents \in Nat

VARIABLES
    m_shutdown,        \* the atomic flag
    caller,            \* where send_host() is, per request
    m_pending_requests,
    outcome,           \* what the promise was set to; "none" until completed
    expired,           \* requests whose timeout has elapsed
    stale,             \* to_timeout of cleanup_stale_requests()
    cleanup,           \* where the cleanup thread is
    m_incoming_queue,
    reader,            \* where the socket reader is in handle_message()
    payload,           \* the message it carries
    worker,            \* where m_incoming_worker is
    message,           \* the message it processes
    todo,              \* callbacks copied by process_message(), not enqueued yet
    remaining,         \* the queue swapped out after the worker's loop
    draining,          \* the worker has left its loop
    m_event_callbacks,
    m_token_to_event,
    registration,      \* where on() is, per token
    tasks,             \* the pool's queue of callbacks
    pool,              \* where each pool thread is
    awaited,           \* the request whose future a pool thread waits for
    stop,              \* the pool's stop flag
    closing,           \* where the thread inside shutdown() is
    written,           \* requests fully written to the transport
    answer,            \* the endpoint's answer, per request
    emitted            \* events and malformed messages the endpoint has sent

requestVars == <<caller, m_pending_requests, outcome, expired>>
cleanupVars == <<stale, cleanup>>
incomingVars == <<m_incoming_queue, reader, payload>>
workerVars == <<worker, message, todo, remaining, draining>>
eventVars == <<m_event_callbacks, m_token_to_event, registration>>
poolVars == <<tasks, pool, awaited, stop>>
endpointVars == <<written, answer, emitted>>
vars == <<m_shutdown, closing, requestVars, cleanupVars, incomingVars, workerVars,
          eventVars, poolVars, endpointVars>>

(* what the steps of each thread leave alone *)
outsideCaller == <<m_shutdown, closing, expired, cleanupVars, incomingVars, workerVars,
                   eventVars>>
outsideReader == <<m_shutdown, closing, requestVars, cleanupVars, message, todo, remaining,
                   draining, eventVars, poolVars>>
outsideWorker == <<m_shutdown, closing, caller, expired, cleanupVars, payload, eventVars,
                   pool, awaited, stop, endpointVars>>
outsideCleanup == <<m_shutdown, closing, caller, incomingVars, workerVars, eventVars,
                    poolVars, endpointVars>>
outsideEvents == <<m_shutdown, closing, requestVars, cleanupVars, incomingVars, workerVars,
                   poolVars, endpointVars>>
outsidePool == <<m_shutdown, closing, cleanupVars, incomingVars, workerVars, eventVars,
                 endpointVars>>
outsideShutdown == <<caller, expired, cleanupVars, m_incoming_queue, payload, message, todo,
                     remaining, draining, registration, pool, awaited, endpointVars>>

Bodies == {"result", "error", "invalid"}
Failures == {"client_shutdown", "send_failed", "timeout", "shutdown"}
Messages == [kind : {"response"}, id : Requests, body : Bodies]
            \cup [kind : {"event"}, method : Events]
            \cup [kind : {"garbage"}]

NoMessage == [kind |-> "garbage"]

(* The types, and the bound the backpressure of handle_message() keeps.      *)
TypeOK ==
    /\ m_shutdown \in BOOLEAN
    /\ caller \in [Requests -> {"new", "checked", "registered", "unsent", "done"}]
    /\ m_pending_requests \subseteq Requests
    /\ outcome \in [Requests -> {"none"} \cup Bodies \cup Failures]
    /\ expired \subseteq Requests
    /\ stale \subseteq Requests
    /\ cleanup \in {"top", "scan", "fail", "exit"}
    /\ m_incoming_queue \in Seq(Messages) /\ Len(m_incoming_queue) <= QueueLimit
    /\ reader \in {"idle", "push", "blocking", "waiting"}
    /\ payload \in Messages
    /\ worker \in {"top", "eval", "blocking", "waiting", "process", "complete",
                   "dispatch", "swap", "remaining", "exit"}
    /\ message \in Messages /\ (worker = "complete" => message.kind = "response")
    /\ todo \subseteq Tokens
    /\ remaining \in Seq(Messages)
    /\ draining \in BOOLEAN
    /\ m_event_callbacks \in [Events -> SUBSET Tokens]
    /\ m_token_to_event \in [Tokens -> Events \cup {NoEvent}]
    /\ registration \in [Tokens -> {"new", "checked", "returned"}]
    /\ tasks \in Seq(Tokens)
    /\ pool \in [Pool -> {"idle", "run", "await", "exit"}]
    /\ awaited \in [Pool -> Requests \cup {NoRequest}]
    /\ stop \in BOOLEAN
    /\ closing \in {"running", "set", "notified", "joined", "clean", "poolJoin", "fail", "done"}
    /\ written \subseteq Requests
    /\ answer \in [Requests -> {"none"} \cup Bodies]
    /\ emitted \in 0 .. MaxEvents

Init ==
    /\ m_shutdown = FALSE
    /\ caller = [r \in Requests |-> "new"]
    /\ m_pending_requests = {}
    /\ outcome = [r \in Requests |-> "none"]
    /\ expired = {}
    /\ stale = {}
    /\ cleanup = "top"
    /\ m_incoming_queue = <<>>
    /\ reader = "idle"
    /\ payload = NoMessage
    /\ worker = "top"
    /\ message = NoMessage
    /\ todo = {}
    /\ remaining = <<>>
    /\ draining = FALSE
    /\ m_event_callbacks = [e \in Events |-> {}]
    /\ m_token_to_event = [t \in Tokens |-> NoEvent]
    /\ registration = [t \in Tokens |-> "new"]
    /\ tasks = <<>>
    /\ pool = [p \in Pool |-> "idle"]
    /\ awaited = [p \in Pool |-> NoRequest]
    /\ stop = FALSE
    /\ closing = "running"
    /\ written = {}
    /\ answer = [r \in Requests |-> "none"]
    /\ emitted = 0

-----------------------------------------------------------------------------
(* async_request.completed.exchange(true) decides who sets the promise: the  *)
(* first completion wins and every later one is ignored.                     *)
Completed(r, o) == [outcome EXCEPT ![r] = IF @ = "none" THEN o ELSE @]

(* m_incoming_mutex is held between a false predicate and the wait; every    *)
(* other section that holds it is a single step.                             *)
IncomingMutexFree == worker # "blocking" /\ reader # "blocking"

(* m_incoming_cv.notify: the worker, its only waiter, evaluates again.       *)
NotifiedWorker == IF worker = "waiting" THEN "eval" ELSE worker

(* variant: nobody is notified                                               *)
SleepingReader == reader

(* m_incoming_space_cv.notify: the reader evaluates again.                   *)
NotifiedReader == IF reader = "waiting" THEN "push" ELSE reader

(***************************************************************************)
(* send_host()                                                             *)
(***************************************************************************)

(* variant: the early return is missing                                      *)
CheckNothing(r) ==
    /\ caller[r] = "new"
    /\ caller' = [caller EXCEPT ![r] = "checked"]
    /\ UNCHANGED outcome

(* The early return of send_host(): a request of a client that is shut down  *)
(* fails at once; otherwise the caller goes on to register it.               *)
CheckShutdown(r) ==
    /\ caller[r] = "new"
    /\ IF m_shutdown
       THEN /\ outcome' = Completed(r, "client_shutdown")
            /\ caller' = [caller EXCEPT ![r] = "done"]
       ELSE /\ caller' = [caller EXCEPT ![r] = "checked"]
            /\ UNCHANGED outcome

Send(r) ==
    /\ CheckShutdown(r)
    /\ UNCHANGED <<outsideCaller, m_pending_requests, poolVars, endpointVars>>

Register(r) ==
    /\ caller[r] = "checked"
    /\ caller' = [caller EXCEPT ![r] = "registered"]
    /\ m_pending_requests' = m_pending_requests \cup {r}
    /\ UNCHANGED <<outsideCaller, outcome, poolVars, endpointVars>>

(* m_sender(payload) under m_send_mutex, which a failed send keeps until the *)
(* request is erased.                                                        *)
Write(r) ==
    /\ caller[r] = "registered"
    /\ \A q \in Requests : caller[q] # "unsent"
    /\ \/ /\ written' = written \cup {r}
          /\ caller' = [caller EXCEPT ![r] = "done"]
       \/ /\ caller' = [caller EXCEPT ![r] = "unsent"]
          /\ UNCHANGED written
    /\ UNCHANGED <<outsideCaller, m_pending_requests, outcome, poolVars, answer, emitted>>

SendFailed(r) ==
    /\ caller[r] = "unsent"
    /\ caller' = [caller EXCEPT ![r] = "done"]
    /\ m_pending_requests' = m_pending_requests \ {r}
    /\ outcome' = Completed(r, "send_failed")
    /\ UNCHANGED <<outsideCaller, poolVars, endpointVars>>

(***************************************************************************)
(* handle_message(), called by the socket reader                           *)
(***************************************************************************)

(* The reader takes message m from the transport; after shutdown             *)
(* handle_message() returns before it looks at the queue.                    *)
HandleMessage(m) ==
    /\ reader = "idle"
    /\ IF m_shutdown
       THEN UNCHANGED <<reader, payload>>
       ELSE reader' = "push" /\ payload' = m
    /\ UNCHANGED <<outsideReader, m_incoming_queue, worker, written>>

(* external: the endpoint answers each request written to it at most once.   *)
EndpointAnswers(r, b) ==
    /\ r \in written
    /\ answer[r] = "none"
    /\ answer' = [answer EXCEPT ![r] = b]
    /\ UNCHANGED emitted
    /\ HandleMessage([kind |-> "response", id |-> r, body |-> b])

(* external: the endpoint sends an event, or something json::parse rejects.  *)
EndpointEmits(m) ==
    /\ emitted < MaxEvents
    /\ emitted' = emitted + 1
    /\ UNCHANGED answer
    /\ HandleMessage(m)

(* variant: the limit is off by one                                          *)
HasSpaceForOneMore == Len(m_incoming_queue) <= QueueLimit

HasSpace == Len(m_incoming_queue) < QueueLimit

(* The wait on m_incoming_space_cv and the push with its notify_one.         *)
Push ==
    /\ reader = "push"
    /\ IncomingMutexFree
    /\ \/ /\ m_shutdown
          /\ reader' = "idle"
          /\ UNCHANGED <<m_incoming_queue, worker>>
       \/ /\ ~m_shutdown /\ HasSpace
          /\ m_incoming_queue' = Append(m_incoming_queue, payload)
          /\ worker' = NotifiedWorker
          /\ reader' = "idle"
       \/ /\ ~m_shutdown /\ ~HasSpace
          /\ reader' = "blocking"
          /\ UNCHANGED <<m_incoming_queue, worker>>
    /\ UNCHANGED <<outsideReader, payload, endpointVars>>

ReaderWaits ==
    /\ reader = "blocking"
    /\ reader' = "waiting"
    /\ UNCHANGED <<outsideReader, m_incoming_queue, worker, payload, endpointVars>>

(***************************************************************************)
(* m_incoming_worker                                                       *)
(***************************************************************************)
WorkerLoop ==
    /\ worker = "top"
    /\ worker' = IF m_shutdown THEN "swap" ELSE "eval"
    /\ draining' = m_shutdown
    /\ UNCHANGED <<outsideWorker, m_pending_requests, outcome, m_incoming_queue, reader,
                   message, todo, remaining, tasks>>

(* The predicate of m_incoming_cv and, when it holds, the pop with the       *)
(* notify_one that tells a blocked reader there is space.                    *)
Pop ==
    /\ worker = "eval"
    /\ IncomingMutexFree
    /\ \/ /\ m_incoming_queue # <<>>
          /\ message' = Head(m_incoming_queue)
          /\ m_incoming_queue' = Tail(m_incoming_queue)
          /\ reader' = NotifiedReader
          /\ worker' = "process"
       \/ /\ m_incoming_queue = <<>>
          /\ worker' = IF m_shutdown THEN "top" ELSE "blocking"
          /\ UNCHANGED <<message, m_incoming_queue, reader>>
    /\ UNCHANGED <<outsideWorker, m_pending_requests, outcome, todo, remaining, draining, tasks>>

WorkerWaits ==
    /\ worker = "blocking"
    /\ worker' = "waiting"
    /\ UNCHANGED <<outsideWorker, m_pending_requests, outcome, m_incoming_queue, reader,
                   message, todo, remaining, draining, tasks>>

(* where the worker goes once process_message() has returned                 *)
NextMessage == IF draining THEN "remaining" ELSE "top"

(* process_message() up to the erase of the request, or to the copy of the   *)
(* callbacks.                                                                *)
ProcessMessage ==
    /\ worker = "process"
    /\ \/ /\ \/ m_shutdown
             \/ message.kind = "garbage"
             \/ message.kind = "response" /\ message.id \notin m_pending_requests
          /\ worker' = NextMessage
          /\ UNCHANGED <<m_pending_requests, todo>>
       \/ /\ ~m_shutdown
          /\ message.kind = "response"
          /\ message.id \in m_pending_requests
          /\ m_pending_requests' = m_pending_requests \ {message.id}
          /\ worker' = "complete"
          /\ UNCHANGED todo
       \/ /\ ~m_shutdown
          /\ message.kind = "event"
          /\ todo' = m_event_callbacks[message.method]
          /\ worker' = "dispatch"
          /\ UNCHANGED m_pending_requests
    /\ UNCHANGED <<outsideWorker, outcome, m_incoming_queue, reader, message, remaining,
                   draining, tasks>>

CompleteResponse ==
    /\ worker = "complete"
    /\ outcome' = Completed(message.id, message.body)
    /\ worker' = NextMessage
    /\ UNCHANGED <<outsideWorker, m_pending_requests, m_incoming_queue, reader, message, todo,
                   remaining, draining, tasks>>

(* One enqueue of thread_pool per copied callback; a stopped pool drops it.  *)
Dispatch ==
    /\ worker = "dispatch"
    /\ \/ \E t \in todo :
            /\ tasks' = IF stop THEN tasks ELSE Append(tasks, t)
            /\ todo' = todo \ {t}
            /\ UNCHANGED worker
       \/ /\ todo = {}
          /\ worker' = NextMessage
          /\ UNCHANGED <<tasks, todo>>
    /\ UNCHANGED <<outsideWorker, m_pending_requests, outcome, m_incoming_queue, reader,
                   message, remaining, draining>>

SwapRemaining ==
    /\ worker = "swap"
    /\ IncomingMutexFree
    /\ remaining' = m_incoming_queue
    /\ m_incoming_queue' = <<>>
    /\ worker' = "remaining"
    /\ UNCHANGED <<outsideWorker, m_pending_requests, outcome, reader, message, todo, draining,
                   tasks>>

TakeRemaining ==
    /\ worker = "remaining"
    /\ IF remaining = <<>>
       THEN worker' = "exit" /\ UNCHANGED <<message, remaining>>
       ELSE /\ worker' = "process"
            /\ message' = Head(remaining)
            /\ remaining' = Tail(remaining)
    /\ UNCHANGED <<outsideWorker, m_pending_requests, outcome, m_incoming_queue, reader, todo,
                   draining, tasks>>

(***************************************************************************)
(* m_cleanup_thread                                                        *)
(***************************************************************************)

(* The timeout of a request that send_host() has stamped elapses.            *)
Expire(r) ==
    /\ caller[r] # "new"
    /\ r \notin expired
    /\ expired' = expired \cup {r}
    /\ UNCHANGED <<outsideCleanup, m_pending_requests, outcome, cleanupVars>>

(* One turn of cleanup_loop() up to cleanup_stale_requests(): the wait ends  *)
(* after a second or when shutdown() notifies it under m_cleanup_mutex.      *)
CleanupLoop ==
    /\ cleanup = "top"
    /\ cleanup' = IF m_shutdown THEN "exit" ELSE "scan"
    /\ UNCHANGED <<outsideCleanup, m_pending_requests, outcome, expired, stale>>

(* variants: the comparison with the timeout is missing, or never true       *)
TimedOutAll == m_pending_requests
TimedOutNever == {}

TimedOut == m_pending_requests \cap expired

(* variant: the stale requests stay in the map                               *)
NotErased == m_pending_requests

(* variant: the map is emptied                                               *)
NoneKept == {}

NotTimedOut == m_pending_requests \ TimedOut

(* The stale requests are taken out of the map under m_requests_mutex ...    *)
CollectStale ==
    /\ cleanup = "scan"
    /\ IF m_shutdown
       THEN cleanup' = "top" /\ UNCHANGED <<stale, m_pending_requests>>
       ELSE /\ stale' = TimedOut
            /\ m_pending_requests' = NotTimedOut
            /\ cleanup' = "fail"
    /\ UNCHANGED <<outsideCleanup, outcome, expired>>

StillStale(r) == stale \ {r}

(* ... and failed one by one after it is released.                           *)
FailStale ==
    /\ cleanup = "fail"
    /\ \/ \E r \in stale :
            /\ outcome' = Completed(r, "timeout")
            /\ stale' = StillStale(r)
            /\ UNCHANGED cleanup
       \/ /\ stale = {}
          /\ cleanup' = "top"
          /\ UNCHANGED <<outcome, stale>>
    /\ UNCHANGED <<outsideCleanup, m_pending_requests, expired>>

(***************************************************************************)
(* on(), off(), off_all()                                                  *)
(***************************************************************************)
On(t) ==
    /\ registration[t] = "new"
    /\ registration' = [registration EXCEPT ![t] = IF m_shutdown THEN "returned" ELSE "checked"]
    /\ UNCHANGED <<outsideEvents, m_event_callbacks, m_token_to_event>>

AddListener(t, e) ==
    /\ registration[t] = "checked"
    /\ registration' = [registration EXCEPT ![t] = "returned"]
    /\ m_event_callbacks' = [m_event_callbacks EXCEPT ![e] = @ \cup {t}]
    /\ m_token_to_event' = [m_token_to_event EXCEPT ![t] = e]
    /\ UNCHANGED outsideEvents

Off(t) ==
    /\ registration[t] = "returned"
    /\ m_token_to_event[t] # NoEvent
    /\ m_event_callbacks' = [m_event_callbacks EXCEPT ![m_token_to_event[t]] = @ \ {t}]
    /\ m_token_to_event' = [m_token_to_event EXCEPT ![t] = NoEvent]
    /\ UNCHANGED <<outsideEvents, registration>>

(* variant: off_all() leaves the reverse map alone                           *)
KeepTokens(e) == m_token_to_event

ForgetTokens(e) == [t \in Tokens |-> IF t \in m_event_callbacks[e] THEN NoEvent
                                     ELSE m_token_to_event[t]]

OffAll(e) ==
    /\ m_event_callbacks[e] # {}
    /\ m_token_to_event' = ForgetTokens(e)
    /\ m_event_callbacks' = [m_event_callbacks EXCEPT ![e] = {}]
    /\ UNCHANGED <<outsideEvents, registration>>

(***************************************************************************)
(* The callback pool (src/engine/thread_pool.cc)                           *)
(***************************************************************************)
TakeTask(p) ==
    /\ pool[p] = "idle"
    /\ tasks # <<>>
    /\ tasks' = Tail(tasks)
    /\ pool' = [pool EXCEPT ![p] = "run"]
    /\ UNCHANGED <<outsidePool, requestVars, awaited, stop>>

(* A callback calls send_host() and then future.get().                       *)
CallbackSends(p, r) ==
    /\ pool[p] = "run"
    /\ r \in CallbackRequests
    /\ CheckShutdown(r)
    /\ pool' = [pool EXCEPT ![p] = "await"]
    /\ awaited' = [awaited EXCEPT ![p] = r]
    /\ UNCHANGED <<outsidePool, m_pending_requests, expired, tasks, stop>>

CallbackResumes(p) ==
    /\ pool[p] = "await"
    /\ caller[awaited[p]] = "done"
    /\ outcome[awaited[p]] # "none"
    /\ pool' = [pool EXCEPT ![p] = "run"]
    /\ awaited' = [awaited EXCEPT ![p] = NoRequest]
    /\ UNCHANGED <<outsidePool, requestVars, tasks, stop>>

CallbackReturns(p) ==
    /\ pool[p] = "run"
    /\ pool' = [pool EXCEPT ![p] = "idle"]
    /\ UNCHANGED <<outsidePool, requestVars, tasks, awaited, stop>>

PoolThreadExits(p) ==
    /\ pool[p] = "idle"
    /\ stop
    /\ tasks = <<>>
    /\ pool' = [pool EXCEPT ![p] = "exit"]
    /\ UNCHANGED <<outsidePool, requestVars, tasks, awaited, stop>>

(***************************************************************************)
(* shutdown(), by the thread whose compare-exchange succeeds.  Another     *)
(* thread that calls it returns at once and changes nothing.               *)
(***************************************************************************)
Shutdown ==
    /\ closing = "running"
    /\ m_shutdown' = TRUE
    /\ closing' = "set"
    /\ UNCHANGED <<outsideShutdown, m_pending_requests, outcome, worker, reader,
                   m_event_callbacks, m_token_to_event, tasks, stop>>

(* "wake up all waiting threads": neither mutex is taken.                    *)
NotifyAll ==
    /\ closing = "set"
    /\ worker' = NotifiedWorker
    /\ reader' = NotifiedReader
    /\ closing' = "notified"
    /\ UNCHANGED <<outsideShutdown, m_shutdown, m_pending_requests, outcome,
                   m_event_callbacks, m_token_to_event, tasks, stop>>

(* variant: the pool threads are detached instead of joined                  *)
PoolDetached == TRUE

PoolJoined == \A p \in Pool : pool[p] = "exit"

(* One join after another, in the order of the code.                         *)
Join ==
    /\ \/ closing = "notified" /\ worker = "exit" /\ closing' = "joined"
       \/ closing = "joined" /\ cleanup = "exit" /\ closing' = "clean"
       \/ closing = "poolJoin" /\ PoolJoined /\ closing' = "fail"
    /\ UNCHANGED <<outsideShutdown, m_shutdown, m_pending_requests, outcome, worker, reader,
                   m_event_callbacks, m_token_to_event, tasks, stop>>

(* variant: the pool threads are not told to stop                            *)
ClearPool ==
    /\ closing = "clean"
    /\ tasks' = <<>>
    /\ closing' = "poolJoin"
    /\ UNCHANGED <<outsideShutdown, m_shutdown, m_pending_requests, outcome, worker, reader,
                   m_event_callbacks, m_token_to_event, stop>>

StopPool ==
    /\ closing = "clean"
    /\ stop' = TRUE
    /\ tasks' = <<>>
    /\ closing' = "poolJoin"
    /\ UNCHANGED <<outsideShutdown, m_shutdown, m_pending_requests, outcome, worker, reader,
                   m_event_callbacks, m_token_to_event>>

FailPending ==
    /\ closing = "fail"
    /\ outcome' = [r \in Requests |-> IF r \in m_pending_requests /\ outcome[r] = "none"
                                      THEN "shutdown" ELSE outcome[r]]
    /\ m_pending_requests' = {}
    /\ m_event_callbacks' = [e \in Events |-> {}]
    /\ m_token_to_event' = [t \in Tokens |-> NoEvent]
    /\ closing' = "done"
    /\ UNCHANGED <<outsideShutdown, m_shutdown, worker, reader, tasks, stop>>

-----------------------------------------------------------------------------
CallerStep(r) == Register(r) \/ Write(r) \/ SendFailed(r)
ReaderStep == Push \/ ReaderWaits
WorkerStep == \/ WorkerLoop \/ Pop \/ WorkerWaits \/ ProcessMessage \/ CompleteResponse
              \/ Dispatch \/ SwapRemaining \/ TakeRemaining
CleanupStep == CleanupLoop \/ CollectStale \/ FailStale
PoolStep(p) == TakeTask(p) \/ CallbackResumes(p) \/ CallbackReturns(p) \/ PoolThreadExits(p)
ShutdownStep == NotifyAll \/ Join \/ StopPool \/ FailPending

Next ==
    \/ \E r \in Requests : Send(r) \/ CallerStep(r) \/ Expire(r)
    \/ \E r \in Requests, b \in Bodies : EndpointAnswers(r, b)
    \/ \E e \in Events : EndpointEmits([kind |-> "event", method |-> e])
    \/ EndpointEmits([kind |-> "garbage"])
    \/ ReaderStep
    \/ WorkerStep
    \/ CleanupStep
    \/ \E t \in Tokens : On(t) \/ Off(t) \/ (\E e \in Events : AddListener(t, e))
    \/ \E e \in Events : OffAll(e)
    \/ \E p \in Pool : PoolStep(p) \/ (\E r \in Requests : CallbackSends(p, r))
    \/ Shutdown
    \/ ShutdownStep

(* Every thread that can step does so eventually, time passes, a callback    *)
(* that is not blocked returns, and a write to the pipe returns.  Nobody     *)
(* has to call send_host(), on(), off() or shutdown(), and the endpoint      *)
(* need not answer.                                                          *)
Fairness ==
    /\ \A r \in Requests : WF_vars(CallerStep(r)) /\ WF_vars(Expire(r))
    /\ WF_vars(ReaderStep)
    /\ WF_vars(WorkerStep)
    /\ WF_vars(CleanupStep)
    /\ \A p \in Pool : WF_vars(PoolStep(p))
    /\ WF_vars(ShutdownStep)

Spec == Init /\ [][Next]_vars
FairSpec == Spec /\ Fairness

-----------------------------------------------------------------------------
(* Properties *)

(* the request whose promise the worker is about to set *)
InWorkersHand == IF worker = "complete" THEN {message.id} ELSE {}

(* A registered request whose future is unresolved is in one of the places   *)
(* it can be resolved from: the map, the cleanup thread's to_timeout list,   *)
(* or the hand of the worker that has just erased it.  No interleaving of    *)
(* send_host(), process_message(), cleanup_stale_requests() and shutdown()   *)
(* loses one on the way.  (One that is registered after shutdown() has       *)
(* emptied the map stays in it, with nobody left to resolve it.)             *)
NoRequestLost ==
    \A r \in Requests :
        caller[r] \in {"registered", "unsent", "done"} /\ outcome[r] = "none"
            => r \in m_pending_requests \cup stale \cup InWorkersHand

(* The erase under m_requests_mutex hands a request to one thread only: the  *)
(* map, the to_timeout list and the worker never hold the same request.      *)
SingleOwner ==
    /\ m_pending_requests \cap stale = {}
    /\ InWorkersHand \cap (m_pending_requests \cup stale) = {}

(* The future tells the truth about what happened: an answer is the one the  *)
(* endpoint gave, "Send failed" means the endpoint never saw the request,    *)
(* "Request timeout" that the time was up, the two shutdown errors that      *)
(* shutdown() was called.                                                    *)
OutcomeJustified ==
    \A r \in Requests :
        /\ outcome[r] \in Bodies => answer[r] = outcome[r]
        /\ outcome[r] = "send_failed" => r \notin written
        /\ outcome[r] = "timeout" => r \in expired
        /\ outcome[r] \in {"client_shutdown", "shutdown"} => m_shutdown

(* m_event_callbacks and its reverse map m_token_to_event agree after every  *)
(* on(), off(), off_all() and shutdown().                                    *)
TokensConsistent ==
    \A t \in Tokens, e \in Events : t \in m_event_callbacks[e] <=> m_token_to_event[t] = e

(* When shutdown() returns no thread of the client runs, so no event         *)
(* callback is running or will run.                                          *)
QuietWhenDone ==
    closing = "done" => /\ worker = "exit"
                        /\ cleanup = "exit"
                        /\ \A p \in Pool : pool[p] = "exit"
                        /\ tasks = <<>>

(* CdpClient implements RequestFutures: a thread that holds a future sees no *)
(* more of the client than that module says.                                 *)
Futures == INSTANCE RequestFutures WITH
    future <- [r \in Requests |-> CASE outcome[r] # "none" -> outcome[r]
                                    [] caller[r] = "new" -> "idle"
                                    [] OTHER -> "waiting"],
    closed <- m_shutdown
ImplementsFutures == Futures!Spec

(* While the client is up every registered request is resolved in the end,   *)
(* whatever the endpoint does: a response, a failed send or the cleanup      *)
(* thread sees to it.                                                        *)
RequestsResolve ==
    \A r \in Requests :
        caller[r] = "registered" ~> (outcome[r] # "none" \/ m_shutdown)

(* Backpressure is released: a reader blocked on the full queue gets to push *)
(* its message.                                                              *)
BackpressureReleased == (reader = "waiting") ~> (reader = "idle" \/ m_shutdown)

(* Once its worker has been joined, shutdown() returns: the cleanup thread   *)
(* and the pool cannot keep it waiting as long as no callback blocks on a    *)
(* future of this client.                                                    *)
ShutdownReturns ==
    (closing = "joined") ~> (closing = "done" \/ \E p \in Pool : pool[p] = "await")

(* The comment on on(): a callback may block, and call back into the client. *)
BlockingCallbacksAreSafe == (closing = "poolJoin") ~> (closing = "done")
=============================================================================
