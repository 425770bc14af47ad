--------------------------- MODULE CdpClientProofs ---------------------------
(***************************************************************************)
(* Theorems about CdpClient, for every set of requests, listeners and pool *)
(* threads and every queue limit.                                          *)
(***************************************************************************)
EXTENDS CdpClient, SequenceTheorems, TLAPS

-----------------------------------------------------------------------------
LEMMA PopType ==
    ASSUME NEW S, NEW s \in Seq(S), s # <<>>
    PROVE  Head(s) \in S /\ Tail(s) \in Seq(S) /\ Len(Tail(s)) = Len(s) - 1 /\ Len(s) \in Nat
  BY HeadTailProperties, LenProperties

LEMMA AppendType ==
    ASSUME NEW S, NEW s \in Seq(S), NEW e \in S
    PROVE  Append(s, e) \in Seq(S) /\ Len(Append(s, e)) = Len(s) + 1 /\ Len(s) \in Nat
  BY AppendProperties, LenProperties

LEMMA CompletedType ==
    ASSUME TypeOK, NEW r \in Requests, NEW o \in Bodies \cup Failures
    PROVE  /\ Completed(r, o) \in [Requests -> {"none"} \cup Bodies \cup Failures]
           /\ \A q \in Requests : outcome[q] # "none" => Completed(r, o)[q] = outcome[q]
           /\ \A q \in Requests : q # r => Completed(r, o)[q] = outcome[q]
           /\ Completed(r, o)[r] # "none"
           /\ outcome[r] = "none" => Completed(r, o)[r] = o
  BY DEF TypeOK, Completed, Bodies, Failures

LEMMA MessageType ==
    ASSUME NEW m \in Messages
    PROVE  /\ m.kind \in {"response", "event", "garbage"}
           /\ m.kind = "response" => m.id \in Requests /\ m.body \in Bodies
           /\ m.kind = "event" => m.method \in Events
  BY DEF Messages

LEMMA MessageMade ==
    /\ \A r \in Requests, b \in Bodies : [kind |-> "response", id |-> r, body |-> b] \in Messages
    /\ \A e \in Events : [kind |-> "event", method |-> e] \in Messages
    /\ [kind |-> "garbage"] \in Messages
  BY DEF Messages

LEMMA FailureNames == {"client_shutdown", "send_failed", "timeout", "shutdown"} \subseteq Failures
  BY DEF Failures

LEMMA InitType == Init => TypeOK
<1> SUFFICES ASSUME Init PROVE TypeOK
  OBVIOUS
<1>1. NoMessage \in Messages
  BY MessageMade DEF NoMessage
<1>2. <<>> \in Seq(Messages) /\ <<>> \in Seq(Tokens) /\ Len(<<>>) <= QueueLimit
  BY LimitAssumption
<1>3. 0 \in 0 .. MaxEvents
  BY MaxEventsAssumption
<1> QED
  BY <1>1, <1>2, <1>3 DEF Init, TypeOK

LEMMA CheckShutdownType ==
    ASSUME TypeOK, NEW r \in Requests, CheckShutdown(r)
    PROVE  /\ caller' \in [Requests -> {"new", "checked", "registered", "unsent", "done"}]
           /\ outcome' \in [Requests -> {"none"} \cup Bodies \cup Failures]
<1>1. Completed(r, "client_shutdown") \in [Requests -> {"none"} \cup Bodies \cup Failures]
  BY CompletedType, FailureNames
<1> QED
  BY <1>1 DEF TypeOK, CheckShutdown

LEMMA NextType == TypeOK /\ [Next]_vars => TypeOK'
<1> SUFFICES ASSUME TypeOK, [Next]_vars PROVE TypeOK'
  OBVIOUS
<1> USE DEF vars, requestVars, cleanupVars, incomingVars, workerVars, eventVars, poolVars,
            endpointVars
<1>1. ASSUME NEW r \in Requests, Send(r) PROVE TypeOK'
  BY <1>1, CheckShutdownType DEF TypeOK, Send, outsideCaller
<1>2. ASSUME NEW r \in Requests, Register(r) PROVE TypeOK'
  BY <1>2 DEF TypeOK, Register, outsideCaller
<1>3. ASSUME NEW r \in Requests, Write(r) PROVE TypeOK'
  BY <1>3 DEF TypeOK, Write, outsideCaller
<1>4. ASSUME NEW r \in Requests, SendFailed(r) PROVE TypeOK'
  <2>1. Completed(r, "send_failed") \in [Requests -> {"none"} \cup Bodies \cup Failures]
    BY CompletedType, FailureNames
  <2> QED
    BY <1>4, <2>1 DEF TypeOK, SendFailed, outsideCaller
<1>5. ASSUME NEW r \in Requests, Expire(r) PROVE TypeOK'
  BY <1>5 DEF TypeOK, Expire, outsideCleanup
<1>6. ASSUME NEW r \in Requests, NEW b \in Bodies, EndpointAnswers(r, b) PROVE TypeOK'
  BY <1>6, MessageMade DEF TypeOK, EndpointAnswers, HandleMessage, outsideReader
<1>7. ASSUME NEW m \in Messages, EndpointEmits(m) PROVE TypeOK'
  BY <1>7, MaxEventsAssumption DEF TypeOK, EndpointEmits, HandleMessage, outsideReader
<1>8. ASSUME Push PROVE TypeOK'
  <2>1. m_incoming_queue' \in Seq(Messages) /\ Len(m_incoming_queue') <= QueueLimit
    <3>1. Append(m_incoming_queue, payload) \in Seq(Messages)
      BY AppendType DEF TypeOK
    <3>2. HasSpace => Len(Append(m_incoming_queue, payload)) <= QueueLimit
      BY AppendType, LimitAssumption DEF TypeOK, HasSpace
    <3>3. \/ m_incoming_queue' = m_incoming_queue
          \/ HasSpace /\ m_incoming_queue' = Append(m_incoming_queue, payload)
      BY <1>8 DEF Push
    <3> QED
      BY <3>1, <3>2, <3>3 DEF TypeOK
  <2>2. worker' \in {worker, "eval"} /\ reader' \in {"idle", "blocking"}
    BY <1>8 DEF Push, NotifiedWorker
  <2>3. UNCHANGED <<outsideReader, payload, endpointVars>>
    BY <1>8 DEF Push
  <2> QED
    BY <2>1, <2>2, <2>3 DEF TypeOK, outsideReader
<1>9. ASSUME ReaderWaits PROVE TypeOK'
  BY <1>9 DEF TypeOK, ReaderWaits, outsideReader
<1>10. ASSUME WorkerLoop PROVE TypeOK'
  BY <1>10 DEF TypeOK, WorkerLoop, outsideWorker
<1>11. ASSUME Pop PROVE TypeOK'
  <2>1. m_incoming_queue' \in Seq(Messages) /\ Len(m_incoming_queue') <= QueueLimit
    <3>1. m_incoming_queue # <<>> => /\ Tail(m_incoming_queue) \in Seq(Messages)
                                     /\ Len(Tail(m_incoming_queue)) <= QueueLimit
      BY PopType, LimitAssumption DEF TypeOK
    <3>2. \/ m_incoming_queue' = m_incoming_queue
          \/ m_incoming_queue # <<>> /\ m_incoming_queue' = Tail(m_incoming_queue)
      BY <1>11 DEF Pop
    <3> QED
      BY <3>1, <3>2 DEF TypeOK
  <2>2. message' \in Messages
    BY <1>11, PopType DEF TypeOK, Pop
  <2>3. worker' \in {"process", "top", "blocking"} /\ reader' \in {reader, "push"}
    BY <1>11 DEF Pop, NotifiedReader
  <2>4. UNCHANGED <<outsideWorker, m_pending_requests, outcome, todo, remaining, draining, tasks>>
    BY <1>11 DEF Pop
  <2> QED
    BY <2>1, <2>2, <2>3, <2>4 DEF TypeOK, outsideWorker
<1>12. ASSUME WorkerWaits PROVE TypeOK'
  BY <1>12 DEF TypeOK, WorkerWaits, outsideWorker
<1>13. ASSUME ProcessMessage PROVE TypeOK'
  BY <1>13, MessageType DEF TypeOK, ProcessMessage, NextMessage, outsideWorker
<1>14. ASSUME Dispatch PROVE TypeOK'
  <2>1. tasks' \in Seq(Tokens)
    <3>1. \A t \in todo : Append(tasks, t) \in Seq(Tokens)
      BY AppendType DEF TypeOK
    <3>2. tasks' = tasks \/ \E t \in todo : tasks' = Append(tasks, t)
      BY <1>14 DEF Dispatch
    <3> QED
      BY <3>1, <3>2 DEF TypeOK
  <2>2. todo' \subseteq todo /\ worker' \in {"dispatch", "remaining", "top"}
    BY <1>14 DEF Dispatch, NextMessage
  <2>3. UNCHANGED <<outsideWorker, m_pending_requests, outcome, m_incoming_queue, reader,
                    message, remaining, draining>>
    BY <1>14 DEF Dispatch
  <2> QED
    BY <2>1, <2>2, <2>3 DEF TypeOK, outsideWorker
<1>15. ASSUME SwapRemaining PROVE TypeOK'
  BY <1>15, LimitAssumption DEF TypeOK, SwapRemaining, outsideWorker
<1>16. ASSUME TakeRemaining PROVE TypeOK'
  <2>1. message' \in Messages /\ remaining' \in Seq(Messages)
    BY <1>16, PopType DEF TypeOK, TakeRemaining
  <2>2. worker' \in {"exit", "process"}
    BY <1>16 DEF TakeRemaining
  <2>3. UNCHANGED <<outsideWorker, m_pending_requests, outcome, m_incoming_queue, reader, todo,
                    draining, tasks>>
    BY <1>16 DEF TakeRemaining
  <2> QED
    BY <2>1, <2>2, <2>3 DEF TypeOK, outsideWorker
<1>17. ASSUME CleanupStep PROVE TypeOK'
  <2>1. CASE CleanupLoop
    BY <2>1 DEF TypeOK, CleanupLoop, outsideCleanup
  <2>2. CASE CollectStale
    BY <2>2 DEF TypeOK, CollectStale, TimedOut, NotTimedOut, outsideCleanup
  <2>3. CASE FailStale
    BY <2>3, CompletedType DEF TypeOK, FailStale, StillStale, outsideCleanup, Failures
  <2> QED
    BY <1>17, <2>1, <2>2, <2>3 DEF CleanupStep
<1>18. ASSUME NEW t \in Tokens, On(t) PROVE TypeOK'
  BY <1>18 DEF TypeOK, On, outsideEvents
<1>19. ASSUME NEW t \in Tokens, Off(t) PROVE TypeOK'
  BY <1>19 DEF TypeOK, Off, outsideEvents
<1>20. ASSUME NEW t \in Tokens, NEW e \in Events, AddListener(t, e) PROVE TypeOK'
  BY <1>20 DEF TypeOK, AddListener, outsideEvents
<1>21. ASSUME NEW e \in Events, OffAll(e) PROVE TypeOK'
  BY <1>21 DEF TypeOK, OffAll, ForgetTokens, outsideEvents
<1>22. ASSUME NEW p \in Pool, PoolStep(p) PROVE TypeOK'
  <2>1. tasks' \in Seq(Tokens)
    <3>1. tasks # <<>> => Tail(tasks) \in Seq(Tokens)
      BY PopType DEF TypeOK
    <3>2. tasks' = tasks \/ (tasks # <<>> /\ tasks' = Tail(tasks))
      BY <1>22 DEF PoolStep, TakeTask, CallbackResumes, CallbackReturns, PoolThreadExits
    <3> QED
      BY <3>1, <3>2 DEF TypeOK
  <2>2. pool' \in [Pool -> {"idle", "run", "await", "exit"}]
    BY <1>22 DEF TypeOK, PoolStep, TakeTask, CallbackResumes, CallbackReturns, PoolThreadExits
  <2>3. awaited' \in [Pool -> Requests \cup {NoRequest}]
    BY <1>22 DEF TypeOK, PoolStep, TakeTask, CallbackResumes, CallbackReturns, PoolThreadExits
  <2>4. UNCHANGED <<outsidePool, requestVars, stop>>
    BY <1>22 DEF PoolStep, TakeTask, CallbackResumes, CallbackReturns, PoolThreadExits
  <2> QED
    BY <2>1, <2>2, <2>3, <2>4 DEF TypeOK, outsidePool
<1>23. ASSUME NEW p \in Pool, NEW r \in Requests, CallbackSends(p, r) PROVE TypeOK'
  BY <1>23, CheckShutdownType DEF TypeOK, CallbackSends, outsidePool
<1>24. ASSUME Shutdown PROVE TypeOK'
  BY <1>24 DEF TypeOK, Shutdown, outsideShutdown
<1>25. ASSUME ShutdownStep PROVE TypeOK'
  <2>1. CASE NotifyAll
    BY <2>1 DEF TypeOK, NotifyAll, NotifiedWorker, NotifiedReader, outsideShutdown
  <2>2. CASE Join
    BY <2>2 DEF TypeOK, Join, outsideShutdown
  <2>3. CASE StopPool
    BY <2>3 DEF TypeOK, StopPool, outsideShutdown
  <2>4. CASE FailPending
    BY <2>4 DEF TypeOK, FailPending, outsideShutdown, Failures
  <2> QED
    BY <1>25, <2>1, <2>2, <2>3, <2>4 DEF ShutdownStep
<1>26. ASSUME CompleteResponse PROVE TypeOK'
  <2>1. Completed(message.id, message.body) \in [Requests -> {"none"} \cup Bodies \cup Failures]
    BY <1>26, CompletedType, MessageType DEF TypeOK, CompleteResponse
  <2> QED
    BY <1>26, <2>1 DEF TypeOK, CompleteResponse, NextMessage, outsideWorker
<1>27. CASE UNCHANGED vars
  BY <1>27 DEF TypeOK
<1> QED
  BY <1>1, <1>2, <1>3, <1>4, <1>5, <1>6, <1>7, <1>8, <1>9, <1>10, <1>11, <1>12, <1>13,
     <1>14, <1>15, <1>16, <1>17, <1>18, <1>19, <1>20, <1>21, <1>22, <1>23, <1>24, <1>25,
     <1>26, <1>27, MessageMade
     DEF Next, CallerStep, ReaderStep, WorkerStep

(* Type correctness, with the bound on the incoming queue that the           *)
(* backpressure of handle_message() keeps.                                   *)
THEOREM TypeCorrect == Spec => []TypeOK
  BY InitType, NextType, PTL DEF Spec

-----------------------------------------------------------------------------
(***************************************************************************)
(* No request is lost and none has two owners.  What has to be added to    *)
(* make this inductive: only a registered request is owned, so Register    *)
(* finds the request in nobody's hands; to_timeout is empty outside the    *)
(* loop over it, so collecting the stale requests forgets none.            *)
(***************************************************************************)
Owned == m_pending_requests \cup stale \cup InWorkersHand

OwnedRegistered ==
    /\ \A r \in Owned : caller[r] \in {"registered", "unsent", "done"}
    /\ cleanup # "fail" => stale = {}

RequestInv == NoRequestLost /\ SingleOwner /\ OwnedRegistered

LEMMA InitRequest == Init => RequestInv
  BY DEF Init, RequestInv, NoRequestLost, SingleOwner, OwnedRegistered, Owned, InWorkersHand

(* RequestInv reads these variables only.                                    *)
LEMMA RequestFrame ==
    ASSUME RequestInv, InWorkersHand' = InWorkersHand,
           UNCHANGED <<caller, m_pending_requests, outcome, stale, cleanup>>
    PROVE  RequestInv'
  BY DEF RequestInv, NoRequestLost, SingleOwner, OwnedRegistered, Owned

LEMMA NextRequest == TypeOK /\ RequestInv /\ [Next]_vars => RequestInv'
<1> SUFFICES ASSUME TypeOK, RequestInv, [Next]_vars PROVE RequestInv'
  OBVIOUS
<1> USE DEF vars, requestVars, cleanupVars, incomingVars, workerVars, eventVars, poolVars,
            endpointVars
<1>1. ASSUME NEW r \in Requests, CheckShutdown(r),
             UNCHANGED <<m_pending_requests, stale, cleanup, worker, message>>
      PROVE  RequestInv'
  <2>1. /\ Completed(r, "client_shutdown")[r] # "none"
        /\ \A q \in Requests : q # r => Completed(r, "client_shutdown")[q] = outcome[q]
    BY CompletedType, FailureNames
  <2>2. \A q \in Requests : q # r => caller'[q] = caller[q] /\ outcome'[q] = outcome[q]
    BY <1>1, <2>1 DEF TypeOK, CheckShutdown
  <2>3. caller[r] = "new" /\ caller'[r] \in {"checked", "done"}
    BY <1>1 DEF TypeOK, CheckShutdown
  <2>4. caller'[r] = "done" => outcome'[r] # "none"
    BY <1>1, <2>1 DEF TypeOK, CheckShutdown
  <2>5. Owned' = Owned /\ InWorkersHand' = InWorkersHand /\ r \notin Owned /\ Owned \subseteq Requests
    BY <1>1, <2>3, MessageType DEF TypeOK, Owned, InWorkersHand, RequestInv, OwnedRegistered
  <2> QED
    BY <1>1, <2>2, <2>3, <2>4, <2>5
       DEF RequestInv, NoRequestLost, SingleOwner, OwnedRegistered, Owned
<1>2. ASSUME NEW r \in Requests, Register(r) PROVE RequestInv'
  <2>1. InWorkersHand' = InWorkersHand /\ UNCHANGED <<outcome, stale, cleanup>>
    BY <1>2 DEF Register, outsideCaller, InWorkersHand
  <2>2. r \notin Owned /\ Owned \subseteq Requests /\ Owned' = Owned \cup {r}
    BY <1>2, <2>1, MessageType
       DEF TypeOK, Register, Owned, InWorkersHand, RequestInv, OwnedRegistered
  <2>3. caller'[r] = "registered" /\ \A q \in Requests : q # r => caller'[q] = caller[q]
    BY <1>2 DEF TypeOK, Register
  <2> QED
    BY <1>2, <2>1, <2>2, <2>3
       DEF Register, RequestInv, NoRequestLost, SingleOwner, OwnedRegistered, Owned
<1>3. ASSUME NEW r \in Requests, Write(r) PROVE RequestInv'
  <2>1. InWorkersHand' = InWorkersHand /\ UNCHANGED <<outcome, stale, cleanup, m_pending_requests>>
    BY <1>3 DEF Write, outsideCaller, InWorkersHand
  <2>2. /\ caller[r] = "registered" /\ caller'[r] \in {"unsent", "done"}
        /\ \A q \in Requests : q # r => caller'[q] = caller[q]
    BY <1>3 DEF TypeOK, Write
  <2>3. Owned \subseteq Requests
    BY MessageType DEF TypeOK, Owned, InWorkersHand
  <2> QED
    BY <2>1, <2>2, <2>3
       DEF RequestInv, NoRequestLost, SingleOwner, OwnedRegistered, Owned
<1>4. ASSUME NEW r \in Requests, SendFailed(r) PROVE RequestInv'
  <2>1. /\ Completed(r, "send_failed")[r] # "none"
        /\ \A q \in Requests : q # r => Completed(r, "send_failed")[q] = outcome[q]
    BY CompletedType, FailureNames
  <2>2. InWorkersHand' = InWorkersHand /\ UNCHANGED <<stale, cleanup>>
    BY <1>4 DEF SendFailed, outsideCaller, InWorkersHand
  <2>3. /\ caller'[r] = "done" /\ outcome'[r] # "none"
        /\ \A q \in Requests : q # r => caller'[q] = caller[q] /\ outcome'[q] = outcome[q]
    BY <1>4, <2>1 DEF TypeOK, SendFailed
  <2>4. m_pending_requests' = m_pending_requests \ {r}
    BY <1>4 DEF SendFailed
  <2>5. Owned \subseteq Requests
    BY MessageType DEF TypeOK, Owned, InWorkersHand
  <2> QED
    BY <2>2, <2>3, <2>4, <2>5
       DEF RequestInv, NoRequestLost, SingleOwner, OwnedRegistered, Owned
<1>5. ASSUME ProcessMessage PROVE RequestInv'
  <2>1. UNCHANGED <<caller, outcome, stale, cleanup, message>> /\ InWorkersHand = {}
    BY <1>5 DEF ProcessMessage, outsideWorker, InWorkersHand
  <2>2. CASE m_pending_requests' = m_pending_requests /\ worker' # "complete"
    BY <2>1, <2>2, RequestFrame DEF InWorkersHand
  <2>3. CASE /\ message.id \in m_pending_requests
             /\ m_pending_requests' = m_pending_requests \ {message.id}
             /\ worker' = "complete"
    <3>1. InWorkersHand' = {message.id}
      BY <2>1, <2>3 DEF InWorkersHand
    <3> QED
      BY <2>1, <2>3, <3>1 DEF RequestInv, NoRequestLost, SingleOwner, OwnedRegistered, Owned
  <2> QED
    BY <1>5, <2>2, <2>3 DEF ProcessMessage, NextMessage
<1>6. ASSUME CompleteResponse PROVE RequestInv'
  <2>1. message.id \in Requests /\ message.body \in Bodies /\ InWorkersHand = {message.id}
    BY <1>6, MessageType DEF TypeOK, CompleteResponse, InWorkersHand
  <2>2. /\ outcome'[message.id] # "none"
        /\ \A q \in Requests : q # message.id => outcome'[q] = outcome[q]
    BY <1>6, <2>1, CompletedType DEF CompleteResponse
  <2>3. InWorkersHand' = {} /\ UNCHANGED <<caller, stale, cleanup, m_pending_requests>>
    BY <1>6 DEF CompleteResponse, NextMessage, outsideWorker, InWorkersHand
  <2> QED
    BY <2>1, <2>2, <2>3
       DEF RequestInv, NoRequestLost, SingleOwner, OwnedRegistered, Owned
<1>7. ASSUME CollectStale PROVE RequestInv'
  <2>1. UNCHANGED <<caller, outcome>> /\ InWorkersHand' = InWorkersHand /\ stale = {}
    BY <1>7 DEF CollectStale, outsideCleanup, InWorkersHand, RequestInv, OwnedRegistered
  <2>2. \/ UNCHANGED <<stale, m_pending_requests>>
        \/ /\ stale' = TimedOut
           /\ m_pending_requests' = NotTimedOut
           /\ cleanup' = "fail"
    BY <1>7 DEF CollectStale
  <2> QED
    BY <2>1, <2>2 DEF TimedOut, NotTimedOut, RequestInv, NoRequestLost, SingleOwner,
                      OwnedRegistered, Owned
<1>8. ASSUME FailStale PROVE RequestInv'
  <2>1. UNCHANGED <<caller, m_pending_requests>> /\ InWorkersHand' = InWorkersHand
    BY <1>8 DEF FailStale, outsideCleanup, InWorkersHand
  <2>2. CASE stale = {} /\ UNCHANGED <<outcome, stale>>
    BY <2>1, <2>2 DEF RequestInv, NoRequestLost, SingleOwner, OwnedRegistered, Owned
  <2>3. ASSUME NEW r \in stale, outcome' = Completed(r, "timeout"), stale' = StillStale(r),
               UNCHANGED cleanup
        PROVE  RequestInv'
    <3>1. /\ outcome'[r] # "none"
          /\ \A q \in Requests : q # r => outcome'[q] = outcome[q]
      BY <2>3, CompletedType, FailureNames DEF TypeOK
    <3> QED
      BY <1>8, <2>1, <2>3, <3>1
         DEF FailStale, StillStale, RequestInv, NoRequestLost, SingleOwner, OwnedRegistered, Owned
  <2> QED
    BY <1>8, <2>2, <2>3 DEF FailStale
<1>9. ASSUME FailPending PROVE RequestInv'
  <2>1. /\ UNCHANGED <<caller, stale, cleanup>> /\ InWorkersHand' = InWorkersHand
        /\ m_pending_requests' = {}
    BY <1>9 DEF FailPending, outsideShutdown, InWorkersHand
  <2>2. \A r \in Requests : IF r \in m_pending_requests THEN outcome'[r] # "none"
                            ELSE outcome'[r] = outcome[r]
    BY <1>9 DEF FailPending
  <2> QED
    BY <2>1, <2>2 DEF RequestInv, NoRequestLost, SingleOwner, OwnedRegistered, Owned
<1>10. ASSUME NEW r \in Requests, Send(r) PROVE RequestInv'
  BY <1>1, <1>10 DEF Send, outsideCaller
<1>11. ASSUME NEW p \in Pool, NEW r \in Requests, CallbackSends(p, r) PROVE RequestInv'
  BY <1>1, <1>11 DEF CallbackSends, outsidePool
<1>12. ASSUME CleanupLoop PROVE RequestInv'
  <2>1. /\ UNCHANGED <<caller, m_pending_requests, outcome, stale>>
        /\ InWorkersHand' = InWorkersHand /\ cleanup = "top"
    BY <1>12 DEF CleanupLoop, outsideCleanup, InWorkersHand
  <2> QED
    BY <2>1 DEF RequestInv, NoRequestLost, SingleOwner, OwnedRegistered, Owned
<1>13. ASSUME \/ \E r \in Requests : Expire(r)
              \/ \E r \in Requests, b \in Bodies : EndpointAnswers(r, b)
              \/ \E m \in Messages : EndpointEmits(m)
       PROVE  RequestInv'
  BY <1>13, RequestFrame
     DEF Expire, EndpointAnswers, EndpointEmits, HandleMessage, outsideCleanup, outsideReader,
         InWorkersHand
<1>14. ASSUME ReaderStep PROVE RequestInv'
  <2>1. UNCHANGED outsideReader /\ worker' \in {worker, NotifiedWorker}
    BY <1>14 DEF ReaderStep, Push, ReaderWaits
  <2> QED
    BY <2>1, RequestFrame DEF outsideReader, InWorkersHand, NotifiedWorker
<1>15. ASSUME WorkerLoop \/ Pop \/ WorkerWaits \/ Dispatch \/ SwapRemaining \/ TakeRemaining
       PROVE  RequestInv'
  <2>1. /\ UNCHANGED <<caller, m_pending_requests, outcome, stale, cleanup>>
        /\ worker # "complete" /\ worker' # "complete"
    BY <1>15 DEF WorkerLoop, Pop, WorkerWaits, Dispatch, SwapRemaining, TakeRemaining,
                 NextMessage, outsideWorker
  <2> QED
    BY <2>1, RequestFrame DEF InWorkersHand
<1>16. ASSUME \/ \E t \in Tokens : On(t) \/ Off(t) \/ (\E e \in Events : AddListener(t, e))
              \/ \E e \in Events : OffAll(e)
       PROVE  RequestInv'
  BY <1>16, RequestFrame DEF On, Off, AddListener, OffAll, outsideEvents, InWorkersHand
<1>17. ASSUME NEW p \in Pool, PoolStep(p) PROVE RequestInv'
  BY <1>17, RequestFrame
     DEF PoolStep, TakeTask, CallbackResumes, CallbackReturns, PoolThreadExits, outsidePool,
         InWorkersHand
<1>18. ASSUME Shutdown \/ NotifyAll \/ Join \/ StopPool PROVE RequestInv'
  <2>1. UNCHANGED <<outsideShutdown, m_pending_requests, outcome>> /\ worker' \in {worker, NotifiedWorker}
    BY <1>18 DEF Shutdown, NotifyAll, Join, StopPool
  <2> QED
    BY <2>1, RequestFrame DEF outsideShutdown, InWorkersHand, NotifiedWorker
<1>19. CASE UNCHANGED vars
  BY <1>19, RequestFrame DEF InWorkersHand
<1> QED
  BY <1>2, <1>3, <1>4, <1>5, <1>6, <1>7, <1>8, <1>9, <1>10, <1>11, <1>12, <1>13, <1>14,
     <1>15, <1>16, <1>17, <1>18, <1>19, MessageMade
     DEF Next, CallerStep, WorkerStep, CleanupStep, ShutdownStep

(* No interleaving of callers, worker, cleanup thread and shutdown() loses a *)
(* registered request: until its future is resolved somebody holds it.       *)
THEOREM RequestsAreKept == Spec => []NoRequestLost
  BY InitType, NextType, InitRequest, NextRequest, PTL DEF Spec, RequestInv

(* The erase under m_requests_mutex hands a request to one thread only.      *)
THEOREM RequestsHaveOneOwner == Spec => []SingleOwner
  BY InitType, NextType, InitRequest, NextRequest, PTL DEF Spec, RequestInv

-----------------------------------------------------------------------------
(***************************************************************************)
(* m_event_callbacks and m_token_to_event agree.  A token that on() has    *)
(* not returned yet is in neither map, so that AddListener cannot leave an *)
(* older entry of it behind.                                               *)
(***************************************************************************)
TokensInv ==
    /\ TokensConsistent
    /\ \A t \in Tokens : registration[t] # "returned" => m_token_to_event[t] = NoEvent

LEMMA InitTokens == Init => TokensInv
  BY NoEventAssumption DEF Init, TokensInv, TokensConsistent

LEMMA NextTokens == TypeOK /\ TokensInv /\ [Next]_vars => TokensInv'
<1> SUFFICES ASSUME TypeOK, TokensInv, [Next]_vars PROVE TokensInv'
  OBVIOUS
<1> USE NoEventAssumption
        DEF vars, requestVars, cleanupVars, incomingVars, workerVars, eventVars, poolVars,
            endpointVars
<1>1. ASSUME NEW t \in Tokens, On(t) PROVE TokensInv'
  BY <1>1 DEF TypeOK, On, TokensInv, TokensConsistent
<1>2. ASSUME NEW t \in Tokens, NEW e \in Events, AddListener(t, e) PROVE TokensInv'
  <2>1. /\ m_token_to_event[t] = NoEvent /\ registration'[t] = "returned"
        /\ \A s \in Tokens : s # t => registration'[s] = registration[s]
        /\ \A s \in Tokens : m_token_to_event'[s] = IF s = t THEN e ELSE m_token_to_event[s]
    BY <1>2 DEF TypeOK, AddListener, TokensInv
  <2>2. \A d \in Events : m_event_callbacks'[d] = IF d = e THEN m_event_callbacks[d] \cup {t}
                                                  ELSE m_event_callbacks[d]
    BY <1>2 DEF TypeOK, AddListener
  <2> QED
    <3>1. TokensConsistent'
      <4> SUFFICES ASSUME NEW s \in Tokens, NEW d \in Events
                   PROVE  s \in m_event_callbacks'[d] <=> m_token_to_event'[s] = d
        BY DEF TokensConsistent
      <4>1. CASE s = t
        BY <2>1, <2>2, <4>1 DEF TokensInv, TokensConsistent
      <4>2. CASE s # t
        <5>1. s \in m_event_callbacks'[d] <=> s \in m_event_callbacks[d]
          BY <2>2, <4>2
        <5>2. m_token_to_event'[s] = m_token_to_event[s]
          BY <2>1, <4>2
        <5> QED
          BY <5>1, <5>2 DEF TokensInv, TokensConsistent
      <4> QED
        BY <4>1, <4>2
    <3> QED
      BY <2>1, <3>1 DEF TokensInv
<1>3. ASSUME NEW t \in Tokens, Off(t) PROVE TokensInv'
  <2>1. /\ m_token_to_event[t] \in Events
        /\ \A s \in Tokens : m_token_to_event'[s] = IF s = t THEN NoEvent ELSE m_token_to_event[s]
    BY <1>3 DEF TypeOK, Off
  <2>2. \A d \in Events : m_event_callbacks'[d] = IF d = m_token_to_event[t]
                                                  THEN m_event_callbacks[d] \ {t}
                                                  ELSE m_event_callbacks[d]
    BY <1>3 DEF TypeOK, Off
  <2> QED
    BY <1>3, <2>1, <2>2 DEF Off, TokensInv, TokensConsistent
<1>4. ASSUME NEW e \in Events, OffAll(e) PROVE TokensInv'
  BY <1>4 DEF TypeOK, OffAll, ForgetTokens, TokensInv, TokensConsistent
<1>5. ASSUME FailPending PROVE TokensInv'
  BY <1>5 DEF FailPending, outsideShutdown, TokensInv, TokensConsistent
<1>6. ASSUME UNCHANGED eventVars PROVE TokensInv'
  BY <1>6 DEF TokensInv, TokensConsistent
<1>7. ASSUME NEW r \in Requests, Send(r) \/ CallerStep(r) \/ Expire(r) PROVE TokensInv'
  BY <1>6, <1>7 DEF Send, CallerStep, Register, Write, SendFailed, Expire, outsideCaller,
                    outsideCleanup
<1>8. ASSUME \/ \E r \in Requests, b \in Bodies : EndpointAnswers(r, b)
             \/ \E m \in Messages : EndpointEmits(m)
             \/ ReaderStep
      PROVE  TokensInv'
  BY <1>6, <1>8 DEF EndpointAnswers, EndpointEmits, HandleMessage, ReaderStep, Push, ReaderWaits,
                    outsideReader
<1>9. ASSUME WorkerStep PROVE TokensInv'
  BY <1>6, <1>9 DEF WorkerStep, WorkerLoop, Pop, WorkerWaits, ProcessMessage, CompleteResponse,
                    Dispatch, SwapRemaining, TakeRemaining, outsideWorker
<1>10. ASSUME CleanupStep PROVE TokensInv'
  BY <1>6, <1>10 DEF CleanupStep, CleanupLoop, CollectStale, FailStale, outsideCleanup
<1>11. ASSUME NEW p \in Pool, PoolStep(p) \/ (\E r \in Requests : CallbackSends(p, r))
       PROVE  TokensInv'
  BY <1>6, <1>11 DEF PoolStep, TakeTask, CallbackResumes, CallbackReturns, PoolThreadExits,
                     CallbackSends, outsidePool
<1>12. ASSUME Shutdown \/ NotifyAll \/ Join \/ StopPool PROVE TokensInv'
  BY <1>6, <1>12 DEF Shutdown, NotifyAll, Join, StopPool, outsideShutdown
<1>13. CASE UNCHANGED vars
  BY <1>6, <1>13
<1> QED
  BY <1>1, <1>2, <1>3, <1>4, <1>5, <1>7, <1>8, <1>9, <1>10, <1>11, <1>12, <1>13, MessageMade
     DEF Next, ShutdownStep

(* The two maps of listeners agree whatever on(), off(), off_all() and       *)
(* shutdown() do to them and in whichever order they get the mutex.          *)
THEOREM ListenersAgree == Spec => []TokensConsistent
  BY InitType, NextType, InitTokens, NextTokens, PTL DEF Spec, TokensInv

-----------------------------------------------------------------------------
(***************************************************************************)
(* shutdown() returns last.  Each join leaves a thread that has ended for  *)
(* good; once the worker has ended nothing refills the queue of the pool.  *)
(***************************************************************************)
ClosingInv ==
    /\ closing \in {"joined", "clean", "poolJoin", "fail", "done"} => worker = "exit"
    /\ closing \in {"clean", "poolJoin", "fail", "done"} => cleanup = "exit"
    /\ closing \in {"poolJoin", "fail", "done"} => tasks = <<>>
    /\ closing \in {"fail", "done"} => PoolJoined

LEMMA NextClosing == TypeOK /\ ClosingInv /\ [Next]_vars => ClosingInv'
<1> SUFFICES ASSUME TypeOK, ClosingInv, [Next]_vars PROVE ClosingInv'
  OBVIOUS
<1> USE DEF ClosingInv, PoolJoined, vars, requestVars, cleanupVars, incomingVars, workerVars,
            eventVars, poolVars, endpointVars
<1>1. ASSUME UNCHANGED <<closing, worker, cleanup, tasks, pool>> PROVE ClosingInv'
  BY <1>1
<1>2. ASSUME NEW r \in Requests, Send(r) \/ CallerStep(r) \/ Expire(r) PROVE ClosingInv'
  BY <1>1, <1>2 DEF Send, CallerStep, Register, Write, SendFailed, Expire, outsideCaller,
                    outsideCleanup
<1>3. ASSUME \/ \E r \in Requests, b \in Bodies : EndpointAnswers(r, b)
             \/ \E m \in Messages : EndpointEmits(m)
      PROVE  ClosingInv'
  BY <1>1, <1>3 DEF EndpointAnswers, EndpointEmits, HandleMessage, outsideReader
<1>4. ASSUME ReaderStep PROVE ClosingInv'
  BY <1>4 DEF ReaderStep, Push, ReaderWaits, NotifiedWorker, outsideReader
<1>5. ASSUME WorkerStep PROVE ClosingInv'
  <2>1. worker # "exit" /\ UNCHANGED <<closing, cleanup, pool>>
    BY <1>5 DEF WorkerStep, WorkerLoop, Pop, WorkerWaits, ProcessMessage, CompleteResponse,
                Dispatch, SwapRemaining, TakeRemaining, outsideWorker
  <2> QED
    BY <2>1
<1>6. ASSUME CleanupStep PROVE ClosingInv'
  <2>1. cleanup # "exit" /\ UNCHANGED <<closing, worker, tasks, pool>>
    BY <1>6 DEF CleanupStep, CleanupLoop, CollectStale, FailStale, outsideCleanup
  <2> QED
    BY <2>1
<1>7. ASSUME \/ \E t \in Tokens : On(t) \/ Off(t) \/ (\E e \in Events : AddListener(t, e))
             \/ \E e \in Events : OffAll(e)
      PROVE  ClosingInv'
  BY <1>1, <1>7 DEF On, Off, AddListener, OffAll, outsideEvents
<1>8. ASSUME NEW p \in Pool, PoolStep(p) \/ (\E r \in Requests : CallbackSends(p, r))
      PROVE  ClosingInv'
  <2>1. pool[p] # "exit" /\ UNCHANGED <<closing, worker, cleanup>>
        /\ (tasks = <<>> => tasks' = <<>>)
    BY <1>8 DEF PoolStep, TakeTask, CallbackResumes, CallbackReturns, PoolThreadExits,
                CallbackSends, outsidePool
  <2> QED
    BY <2>1
<1>9. ASSUME Shutdown \/ ShutdownStep PROVE ClosingInv'
  BY <1>9 DEF Shutdown, ShutdownStep, NotifyAll, Join, StopPool, FailPending, NotifiedWorker,
              outsideShutdown
<1>10. CASE UNCHANGED vars
  BY <1>1, <1>10
<1> QED
  BY <1>2, <1>3, <1>4, <1>5, <1>6, <1>7, <1>8, <1>9, <1>10, MessageMade DEF Next

(* When shutdown() returns, the worker, the cleanup thread and the pool have *)
(* ended and no callback is queued, so that the client can be destroyed.     *)
THEOREM ShutdownIsQuiet == Spec => []QuietWhenDone
<1>1. Init => ClosingInv
  BY DEF Init, ClosingInv
<1>2. ClosingInv => QuietWhenDone
  BY DEF ClosingInv, QuietWhenDone, PoolJoined
<1> QED
  BY <1>1, <1>2, InitType, NextType, NextClosing, PTL DEF Spec

-----------------------------------------------------------------------------
(***************************************************************************)
(* What a future tells is true.  A response is what the endpoint answered  *)
(* wherever it is on its way from the transport to the promise; a request  *)
(* that was written is never a failed send; only requests whose time is up *)
(* are stale; and a request is untouched until it is registered.           *)
(***************************************************************************)
Honest == {m \in Messages : m.kind = "response" => answer[m.id] = m.body}

Carried ==
    /\ payload \in Honest /\ message \in Honest
    /\ m_incoming_queue \in Seq(Honest) /\ remaining \in Seq(Honest)

Justified ==
    /\ \A r \in Requests : answer[r] # "none" => r \in written
    /\ \A r \in written : caller[r] = "done"
    /\ \A r \in Requests : caller[r] \in {"new", "checked"} => outcome[r] = "none"
    /\ \A r \in Requests : outcome[r] = "send_failed" => caller[r] = "done"
    /\ stale \subseteq expired
    /\ m_shutdown <=> closing # "running"
    /\ OutcomeJustified

(* A sequence over a set is one over a larger set.                           *)
LEMMA SeqGrows ==
    ASSUME NEW S, NEW T, S \subseteq T, NEW s \in Seq(S)
    PROVE  s \in Seq(T)
  OBVIOUS

LEMMA InitJustified == Init => Carried /\ Justified
<1> SUFFICES ASSUME Init PROVE Carried /\ Justified
  OBVIOUS
<1>1. NoMessage \in Honest
  BY MessageMade DEF NoMessage, Honest
<1>2. <<>> \in Seq(Honest)
  OBVIOUS
<1> QED
  BY <1>1, <1>2 DEF Init, Carried, Justified, OutcomeJustified, Bodies

(* An answer that was given stays, so that what is on its way remains true.  *)
LEMMA CarriedFrame ==
    ASSUME Carried, TypeOK,
           \A r \in Requests : answer[r] # "none" => answer'[r] = answer[r],
           payload' \in Honest \cup Honest', message' \in Honest,
           m_incoming_queue' \in Seq(Honest), remaining' \in Seq(Honest)
    PROVE  Carried'
<1>1. Honest \subseteq Honest'
  <2> SUFFICES ASSUME NEW m \in Honest PROVE m \in Honest'
    OBVIOUS
  <2>1. m \in Messages /\ (m.kind = "response" => m.id \in Requests /\ m.body \in Bodies)
    BY MessageType DEF Honest
  <2> QED
    BY <2>1 DEF Honest, Bodies
<1> QED
  BY <1>1, SeqGrows DEF Carried

LEMMA NextCarried == TypeOK /\ Carried /\ [Next]_vars => Carried'
<1> SUFFICES ASSUME TypeOK, Carried, [Next]_vars PROVE Carried'
  OBVIOUS
<1> USE DEF vars, requestVars, cleanupVars, incomingVars, workerVars, eventVars, poolVars,
            endpointVars
<1>1. ASSUME UNCHANGED <<payload, message, m_incoming_queue, remaining, answer>> PROVE Carried'
  BY <1>1 DEF Carried, Honest
<1>2. ASSUME NEW m \in Messages, HandleMessage(m), m \in Honest',
             \A r \in Requests : answer[r] # "none" => answer'[r] = answer[r]
      PROVE  Carried'
  <2>1. payload' \in {payload, m} /\ UNCHANGED <<message, m_incoming_queue, remaining>>
    BY <1>2 DEF HandleMessage, outsideReader
  <2> QED
    BY <1>2, <2>1, CarriedFrame DEF Carried
<1>3. ASSUME NEW r \in Requests, NEW b \in Bodies, EndpointAnswers(r, b) PROVE Carried'
  <2> DEFINE m == [kind |-> "response", id |-> r, body |-> b]
  <2>1. answer[r] = "none" /\ answer' = [answer EXCEPT ![r] = b] /\ HandleMessage(m)
    BY <1>3 DEF EndpointAnswers
  <2>2. m \in Messages /\ m \in Honest'
    BY <2>1, MessageMade DEF TypeOK, Honest
  <2> QED
    BY <1>2, <2>1, <2>2 DEF TypeOK
<1>4. ASSUME NEW m \in Messages, EndpointEmits(m), m.kind # "response" PROVE Carried'
  BY <1>2, <1>4 DEF EndpointEmits, Honest
<1>5. ASSUME Push PROVE Carried'
  <2>1. m_incoming_queue' \in {m_incoming_queue, Append(m_incoming_queue, payload)}
        /\ UNCHANGED <<payload, message, remaining, answer>>
    BY <1>5 DEF Push, outsideReader
  <2>2. Append(m_incoming_queue, payload) \in Seq(Honest)
    BY AppendType DEF Carried
  <2> QED
    BY <2>1, <2>2, CarriedFrame DEF Carried
<1>6. ASSUME Pop PROVE Carried'
  <2>1. \/ UNCHANGED <<m_incoming_queue, message>>
        \/ /\ m_incoming_queue # <<>> /\ m_incoming_queue' = Tail(m_incoming_queue)
           /\ message' = Head(m_incoming_queue)
    BY <1>6 DEF Pop
  <2>2. UNCHANGED <<payload, remaining, answer>>
    BY <1>6 DEF Pop, outsideWorker
  <2> QED
    BY <2>1, <2>2, PopType, CarriedFrame DEF Carried
<1>7. ASSUME SwapRemaining PROVE Carried'
  <2>1. <<>> \in Seq(Honest)
    OBVIOUS
  <2> QED
    BY <1>7, <2>1, CarriedFrame DEF SwapRemaining, outsideWorker, Carried
<1>8. ASSUME TakeRemaining PROVE Carried'
  <2>1. \/ UNCHANGED <<remaining, message>>
        \/ /\ remaining # <<>> /\ remaining' = Tail(remaining)
           /\ message' = Head(remaining)
    BY <1>8 DEF TakeRemaining
  <2>2. UNCHANGED <<payload, m_incoming_queue, answer>>
    BY <1>8 DEF TakeRemaining, outsideWorker
  <2> QED
    BY <2>1, <2>2, PopType, CarriedFrame DEF Carried
<1>9. ASSUME NEW r \in Requests, Send(r) \/ CallerStep(r) \/ Expire(r) PROVE Carried'
  BY <1>1, <1>9 DEF Send, CallerStep, Register, Write, SendFailed, Expire, outsideCaller,
                    outsideCleanup
<1>10. ASSUME ReaderWaits PROVE Carried'
  BY <1>1, <1>10 DEF ReaderWaits, outsideReader
<1>11. ASSUME WorkerLoop \/ WorkerWaits \/ ProcessMessage \/ CompleteResponse \/ Dispatch
       PROVE  Carried'
  BY <1>1, <1>11 DEF WorkerLoop, WorkerWaits, ProcessMessage, CompleteResponse, Dispatch,
                     outsideWorker
<1>12. ASSUME CleanupStep PROVE Carried'
  BY <1>1, <1>12 DEF CleanupStep, CleanupLoop, CollectStale, FailStale, outsideCleanup
<1>13. ASSUME \/ \E t \in Tokens : On(t) \/ Off(t) \/ (\E e \in Events : AddListener(t, e))
              \/ \E e \in Events : OffAll(e)
       PROVE  Carried'
  BY <1>1, <1>13 DEF On, Off, AddListener, OffAll, outsideEvents
<1>14. ASSUME NEW p \in Pool, PoolStep(p) \/ (\E r \in Requests : CallbackSends(p, r))
       PROVE  Carried'
  BY <1>1, <1>14 DEF PoolStep, TakeTask, CallbackResumes, CallbackReturns, PoolThreadExits,
                     CallbackSends, outsidePool
<1>15. ASSUME Shutdown \/ ShutdownStep PROVE Carried'
  BY <1>1, <1>15 DEF Shutdown, ShutdownStep, NotifyAll, Join, StopPool, FailPending,
                     outsideShutdown
<1>16. CASE UNCHANGED vars
  BY <1>1, <1>16
<1> QED
  BY <1>3, <1>4, <1>5, <1>6, <1>7, <1>8, <1>9, <1>10, <1>11, <1>12, <1>13, <1>14, <1>15,
     <1>16, MessageMade
     DEF Next, ReaderStep, WorkerStep

(* What a step may do to the futures: it completes r with o, for which there *)
(* is a reason, and touches no other.                                        *)
LEMMA CompletesJustified ==
    ASSUME TypeOK, Justified, NEW r \in Requests, NEW o \in Bodies \cup Failures,
           outcome' = Completed(r, o), caller'[r] \notin {"new", "checked"},
           \A q \in Requests : q # r => caller'[q] = caller[q],
           r \notin written \/ caller'[r] = "done",
           outcome[r] = "send_failed" => caller'[r] = "done",
           UNCHANGED <<answer, written, expired, m_shutdown, closing>>,
           stale' \subseteq expired,
           o \in Bodies => answer[r] = o,
           o = "send_failed" => r \notin written /\ caller'[r] = "done",
           o = "timeout" => r \in expired,
           o \in {"client_shutdown", "shutdown"} => m_shutdown
    PROVE  Justified'
<1>1. /\ \A q \in Requests : q # r => outcome'[q] = outcome[q]
      /\ outcome'[r] = IF outcome[r] = "none" THEN o ELSE outcome[r]
  BY DEF TypeOK, Completed
<1>2. OutcomeJustified'
  <2> SUFFICES ASSUME NEW q \in Requests
               PROVE  /\ outcome'[q] \in Bodies => answer'[q] = outcome'[q]
                      /\ outcome'[q] = "send_failed" => q \notin written'
                      /\ outcome'[q] = "timeout" => q \in expired'
                      /\ outcome'[q] \in {"client_shutdown", "shutdown"} => m_shutdown'
    BY DEF OutcomeJustified
  <2>1. CASE outcome'[q] = outcome[q]
    BY <2>1 DEF Justified, OutcomeJustified
  <2>2. CASE q = r /\ outcome'[q] = o
    BY <2>2
  <2> QED
    BY <1>1, <2>1, <2>2
<1>3. \A q \in written' : caller'[q] = "done"
  BY DEF TypeOK, Justified
<1>4. \A q \in Requests : caller'[q] \in {"new", "checked"} => outcome'[q] = "none"
  BY <1>1 DEF Justified
<1>5. \A q \in Requests : outcome'[q] = "send_failed" => caller'[q] = "done"
  BY <1>1 DEF Justified
<1> QED
  BY <1>2, <1>3, <1>4, <1>5 DEF Justified

(* A step that completes nothing.                                            *)
LEMMA KeepsJustified ==
    ASSUME TypeOK, Justified, UNCHANGED <<outcome, written, answer>>,
           \A q \in Requests :
               \/ caller'[q] = caller[q]
               \/ /\ caller[q] # "done"
                  /\ caller'[q] \in {"new", "checked"} => outcome[q] = "none",
           stale' \subseteq expired', expired \subseteq expired',
           m_shutdown => m_shutdown', m_shutdown' <=> closing' # "running"
    PROVE  Justified'
<1>1. OutcomeJustified'
  BY DEF Justified, OutcomeJustified
<1>2. \A q \in written' : caller'[q] = "done"
  BY DEF TypeOK, Justified
<1> QED
  BY <1>1, <1>2, Zenon DEF Justified

LEMMA NextJustified ==
    TypeOK /\ RequestInv /\ Carried /\ Justified /\ [Next]_vars => Justified'
<1> SUFFICES ASSUME TypeOK, RequestInv, Carried, Justified, [Next]_vars PROVE Justified'
  OBVIOUS
<1> USE DEF vars, requestVars, cleanupVars, incomingVars, workerVars, eventVars, poolVars,
            endpointVars
<1>0. stale \subseteq expired /\ (m_shutdown <=> closing # "running")
  BY DEF Justified
<1>1. ASSUME NEW r \in Requests, CheckShutdown(r),
             UNCHANGED <<answer, written, expired, m_shutdown, closing, stale>>
      PROVE  Justified'
  <2>1. caller[r] = "new" /\ outcome[r] = "none"
    BY <1>1 DEF CheckShutdown, Justified
  <2>2. \A q \in Requests : q # r => caller'[q] = caller[q]
    BY <1>1 DEF TypeOK, CheckShutdown
  <2>3. CASE m_shutdown
    <3>1. outcome' = Completed(r, "client_shutdown") /\ caller'[r] = "done"
      BY <1>1, <2>3 DEF TypeOK, CheckShutdown
    <3>2. "client_shutdown" \notin Bodies /\ "client_shutdown" \in Bodies \cup Failures
      BY DEF Bodies, Failures
    <3> QED
      BY <1>0, <1>1, <2>1, <2>2, <2>3, <3>1, <3>2, CompletesJustified
  <2>4. CASE ~m_shutdown
    <3>1. UNCHANGED outcome
      BY <1>1, <2>4 DEF CheckShutdown
    <3> QED
      BY <1>0, <1>1, <2>1, <2>2, <3>1, KeepsJustified
  <2> QED
    BY <2>3, <2>4
<1>2. ASSUME NEW r \in Requests, Send(r) PROVE Justified'
  BY <1>1, <1>2 DEF Send, outsideCaller
<1>3. ASSUME NEW p \in Pool, NEW r \in Requests, CallbackSends(p, r) PROVE Justified'
  BY <1>1, <1>3 DEF CallbackSends, outsidePool
<1>4. ASSUME NEW r \in Requests, Register(r) PROVE Justified'
  <2>1. \A q \in Requests : \/ caller'[q] = caller[q]
                            \/ caller[q] # "done" /\ caller'[q] = "registered"
    BY <1>4 DEF TypeOK, Register
  <2>2. UNCHANGED <<outcome, written, answer, stale, expired, m_shutdown, closing>>
    BY <1>4 DEF Register, outsideCaller
  <2> QED
    BY <1>0, <2>1, <2>2, KeepsJustified
<1>5. ASSUME NEW r \in Requests, Write(r) PROVE Justified'
  <2>1. /\ caller[r] = "registered"
        /\ \A q \in Requests : q # r => caller'[q] = caller[q]
    BY <1>5 DEF TypeOK, Write
  <2>2. UNCHANGED <<outcome, answer, stale, expired, m_shutdown, closing>>
    BY <1>5 DEF Write, outsideCaller
  <2>3. CASE written' = written /\ caller'[r] = "unsent"
    BY <1>0, <2>1, <2>2, <2>3, KeepsJustified
  <2>4. CASE written' = written \cup {r} /\ caller'[r] = "done"
    <3>1. outcome[r] # "send_failed"
      BY <2>1 DEF Justified
    <3>2. OutcomeJustified'
      BY <2>2, <2>4, <3>1 DEF Justified, OutcomeJustified
    <3>3. \A q \in Requests : answer'[q] # "none" => q \in written'
      BY <2>2, <2>4 DEF Justified
    <3>4. \A q \in written' : caller'[q] = "done"
      BY <2>1, <2>4 DEF TypeOK, Justified
    <3>5. /\ \A q \in Requests : caller'[q] \in {"new", "checked"} => outcome'[q] = "none"
          /\ \A q \in Requests : outcome'[q] = "send_failed" => caller'[q] = "done"
      BY <2>1, <2>2, <2>4 DEF Justified
    <3> QED
      BY <1>0, <2>2, <3>2, <3>3, <3>4, <3>5 DEF Justified
  <2> QED
    BY <1>5, <2>3, <2>4 DEF TypeOK, Write
<1>6. ASSUME NEW r \in Requests, SendFailed(r) PROVE Justified'
  <2>1. /\ caller[r] = "unsent" /\ caller'[r] = "done"
        /\ \A q \in Requests : q # r => caller'[q] = caller[q]
    BY <1>6 DEF TypeOK, SendFailed
  <2>2. r \notin written
    BY <2>1 DEF Justified
  <2>3. "send_failed" \in Bodies \cup Failures /\ "send_failed" \notin Bodies
    BY DEF Bodies, Failures
  <2>4. /\ outcome' = Completed(r, "send_failed")
        /\ UNCHANGED <<answer, written, stale, expired, m_shutdown, closing>>
    BY <1>6 DEF SendFailed, outsideCaller
  <2> QED
    BY <1>0, <2>1, <2>2, <2>3, <2>4, CompletesJustified
<1>7. ASSUME NEW r \in Requests, NEW b \in Bodies, EndpointAnswers(r, b) PROVE Justified'
  <2>1. /\ r \in written /\ answer[r] = "none"
        /\ answer' = [answer EXCEPT ![r] = b]
    BY <1>7 DEF EndpointAnswers
  <2>2. UNCHANGED <<outcome, caller, written, stale, expired, m_shutdown, closing>>
    BY <1>7 DEF EndpointAnswers, HandleMessage, outsideReader
  <2>3. OutcomeJustified'
    BY <2>1, <2>2 DEF TypeOK, Justified, OutcomeJustified, Bodies
  <2>4. \A q \in Requests : answer'[q] # "none" => q \in written'
    BY <2>1, <2>2 DEF TypeOK, Justified
  <2> QED
    BY <2>2, <2>3, <2>4 DEF Justified
<1>8. ASSUME CompleteResponse PROVE Justified'
  <2>1. message.kind = "response" /\ message.id \in Requests /\ message.body \in Bodies
    BY <1>8, MessageType DEF TypeOK, CompleteResponse
  <2>2. answer[message.id] = message.body
    BY <2>1 DEF Carried, Honest
  <2>3. caller[message.id] \in {"registered", "unsent", "done"}
    BY <1>8 DEF CompleteResponse, RequestInv, OwnedRegistered, Owned, InWorkersHand
  <2>4. message.id \in written
    BY <2>1, <2>2 DEF Justified, Bodies
  <2>5. caller[message.id] = "done"
    BY <2>4 DEF Justified
  <2>6. \A f \in Failures : f # message.body
    BY <2>1 DEF Bodies, Failures
  <2>7. message.body \notin {"send_failed", "timeout", "client_shutdown", "shutdown"}
    BY <2>6 DEF Failures
  <2>8. /\ outcome' = Completed(message.id, message.body)
        /\ UNCHANGED <<caller, answer, written, stale, expired, m_shutdown, closing>>
    BY <1>8 DEF CompleteResponse, outsideWorker
  <2> QED
    BY <1>0, <2>1, <2>2, <2>4, <2>5, <2>7, <2>8, CompletesJustified
<1>9. ASSUME FailStale PROVE Justified'
  <2>1. UNCHANGED <<caller, answer, written, expired, m_shutdown, closing>>
    BY <1>9 DEF FailStale, outsideCleanup
  <2>2. CASE UNCHANGED <<outcome, stale>>
    BY <1>0, <2>1, <2>2, KeepsJustified
  <2>3. ASSUME NEW r \in stale, outcome' = Completed(r, "timeout"), stale' = StillStale(r)
        PROVE  Justified'
    <3>1. r \in Requests /\ r \in expired /\ caller[r] \in {"registered", "unsent", "done"}
      BY <1>0 DEF TypeOK, RequestInv, OwnedRegistered, Owned
    <3>2. "timeout" \in Bodies \cup Failures /\ "timeout" \notin Bodies
      BY DEF Bodies, Failures
    <3>3. stale' \subseteq expired
      BY <1>0, <2>3 DEF StillStale
    <3>4. /\ r \notin written \/ caller'[r] = "done"
          /\ outcome[r] = "send_failed" => caller'[r] = "done"
      BY <2>1, <3>1 DEF Justified
    <3> QED
      BY <2>1, <2>3, <3>1, <3>2, <3>3, <3>4, CompletesJustified
  <2> QED
    BY <1>9, <2>2, <2>3 DEF FailStale
<1>10. ASSUME FailPending PROVE Justified'
  <2>1. /\ UNCHANGED <<caller, answer, written, stale, expired, m_shutdown>>
        /\ closing = "fail" /\ closing' = "done"
    BY <1>10 DEF FailPending, outsideShutdown
  <2>2. \A q \in Requests : \/ outcome'[q] = outcome[q]
                            \/ /\ outcome'[q] = "shutdown"
                               /\ caller[q] \in {"registered", "unsent", "done"}
    BY <1>10 DEF FailPending, RequestInv, OwnedRegistered, Owned
  <2>3. m_shutdown
    BY <1>0, <2>1
  <2>4. OutcomeJustified'
    BY <2>1, <2>2, <2>3 DEF Justified, OutcomeJustified, Bodies
  <2>5. /\ \A q \in Requests : caller'[q] \in {"new", "checked"} => outcome'[q] = "none"
        /\ \A q \in Requests : outcome'[q] = "send_failed" => caller'[q] = "done"
    BY <2>1, <2>2 DEF Justified
  <2> QED
    BY <2>1, <2>3, <2>4, <2>5 DEF Justified
<1>11. ASSUME UNCHANGED <<outcome, written, answer, caller, m_shutdown>>,
              stale' \subseteq expired', expired \subseteq expired',
              closing' = closing \/ (closing # "running" /\ closing' # "running")
       PROVE  Justified'
  BY <1>0, <1>11, KeepsJustified
<1>12. ASSUME NEW r \in Requests, Expire(r) PROVE Justified'
  BY <1>0, <1>11, <1>12 DEF Expire, outsideCleanup
<1>13. ASSUME NEW m \in Messages, EndpointEmits(m) PROVE Justified'
  BY <1>0, <1>11, <1>13 DEF EndpointEmits, HandleMessage, outsideReader
<1>14. ASSUME ReaderStep PROVE Justified'
  BY <1>0, <1>11, <1>14 DEF ReaderStep, Push, ReaderWaits, outsideReader
<1>15. ASSUME \/ WorkerLoop \/ Pop \/ WorkerWaits \/ ProcessMessage \/ Dispatch
              \/ SwapRemaining \/ TakeRemaining
       PROVE  Justified'
  <2>1. UNCHANGED <<outsideWorker, outcome>>
    BY <1>15 DEF WorkerLoop, Pop, WorkerWaits, ProcessMessage, Dispatch, SwapRemaining,
                 TakeRemaining
  <2> QED
    BY <1>0, <1>11, <2>1 DEF outsideWorker
<1>16. ASSUME CleanupLoop \/ CollectStale PROVE Justified'
  <2>1. UNCHANGED <<outsideCleanup, outcome, expired>> /\ stale' \in {stale, TimedOut}
    BY <1>16 DEF CleanupLoop, CollectStale
  <2> QED
    BY <1>0, <1>11, <2>1 DEF outsideCleanup, TimedOut
<1>17. ASSUME \/ \E t \in Tokens : On(t) \/ Off(t) \/ (\E e \in Events : AddListener(t, e))
              \/ \E e \in Events : OffAll(e)
       PROVE  Justified'
  BY <1>0, <1>11, <1>17 DEF On, Off, AddListener, OffAll, outsideEvents
<1>18. ASSUME NEW p \in Pool, PoolStep(p) PROVE Justified'
  BY <1>0, <1>11, <1>18 DEF PoolStep, TakeTask, CallbackResumes, CallbackReturns,
                            PoolThreadExits, outsidePool
<1>19. ASSUME Shutdown PROVE Justified'
  BY <1>0, <1>19, KeepsJustified DEF Shutdown, outsideShutdown
<1>20. ASSUME NotifyAll \/ Join \/ StopPool PROVE Justified'
  <2>1. /\ UNCHANGED <<outsideShutdown, m_shutdown, outcome>>
        /\ closing # "running" /\ closing' # "running"
    BY <1>20 DEF NotifyAll, Join, StopPool
  <2> QED
    BY <1>0, <1>11, <2>1 DEF outsideShutdown
<1>21. CASE UNCHANGED vars
  BY <1>0, <1>11, <1>21
<1> QED
  BY <1>2, <1>3, <1>4, <1>5, <1>6, <1>7, <1>8, <1>9, <1>10, <1>12, <1>13, <1>14, <1>15,
     <1>16, <1>17, <1>18, <1>19, <1>20, <1>21, MessageMade
     DEF Next, CallerStep, WorkerStep, CleanupStep, ShutdownStep

LEMMA FuturesInv == Spec => [](TypeOK /\ RequestInv /\ Carried /\ Justified)
  BY InitType, NextType, InitRequest, NextRequest, InitJustified, NextCarried, NextJustified,
     PTL DEF Spec

(* What send_host()'s future delivers is true: a body is the one the         *)
(* endpoint answered with, "Send failed" is only said of a request that was  *)
(* never written, a timeout of one whose time was up, and a shutdown error   *)
(* of a client that was shut down.                                           *)
THEOREM OutcomesAreTrue == Spec => []OutcomeJustified
<1>1. Justified => OutcomeJustified
  BY DEF Justified
<1> QED
  BY <1>1, FuturesInv, PTL

-----------------------------------------------------------------------------
(***************************************************************************)
(* CdpClient implements RequestFutures.  Every step either leaves all      *)
(* futures, the answers and the shutdown flag alone, or is one step of     *)
(* RequestFutures; Justified supplies the guards of that step.             *)
(***************************************************************************)

(* the future of r as its holder sees it                                     *)
FutureOf(r) == CASE outcome[r] # "none" -> outcome[r]
                 [] caller[r] = "new" -> "idle"
                 [] OTHER -> "waiting"

FutureMap == [r \in Requests |-> FutureOf(r)]

(* The arms of the CASE exclude each other in every state that is reached.   *)
LEMMA FutureValue ==
    ASSUME NEW r \in Requests, Justified
    PROVE  /\ outcome[r] # "none" => FutureOf(r) = outcome[r]
           /\ outcome[r] = "none" /\ caller[r] = "new" => FutureOf(r) = "idle"
           /\ outcome[r] = "none" /\ caller[r] # "new" => FutureOf(r) = "waiting"
<1>0. caller[r] = "new" => outcome[r] = "none"
  BY DEF Justified
<1>1. outcome[r] # "none" => FutureOf(r) = outcome[r]
  BY <1>0, Zenon DEF FutureOf
<1>2. outcome[r] = "none" /\ caller[r] = "new" => FutureOf(r) = "idle"
  BY Zenon DEF FutureOf
<1>3. outcome[r] = "none" /\ caller[r] # "new" => FutureOf(r) = "waiting"
  BY Zenon DEF FutureOf
<1> QED
  BY <1>1, <1>2, <1>3

LEMMA FutureValueNext ==
    ASSUME NEW r \in Requests, Justified'
    PROVE  /\ outcome'[r] # "none" => FutureOf(r)' = outcome'[r]
           /\ outcome'[r] = "none" /\ caller'[r] = "new" => FutureOf(r)' = "idle"
           /\ outcome'[r] = "none" /\ caller'[r] # "new" => FutureOf(r)' = "waiting"
<1>0. caller'[r] = "new" => outcome'[r] = "none"
  BY DEF Justified
<1>1. outcome'[r] # "none" => FutureOf(r)' = outcome'[r]
  BY <1>0, Zenon DEF FutureOf
<1>2. outcome'[r] = "none" /\ caller'[r] = "new" => FutureOf(r)' = "idle"
  BY Zenon DEF FutureOf
<1>3. outcome'[r] = "none" /\ caller'[r] # "new" => FutureOf(r)' = "waiting"
  BY Zenon DEF FutureOf
<1> QED
  BY <1>1, <1>2, <1>3

LEMMA MappedVars ==
    /\ Futures!futures = <<FutureMap, answer, m_shutdown>>
    /\ Futures!Init <=> /\ FutureMap = [r \in Requests |-> "idle"]
                        /\ answer = [r \in Requests |-> "none"]
                        /\ m_shutdown = FALSE
  BY DEF Futures!futures, Futures!Init, FutureMap, FutureOf

(* A step that changes one future.                                           *)
LEMMA OneFuture ==
    ASSUME NEW r \in Requests, NEW v, FutureOf(r)' = v,
           \A q \in Requests : q # r => FutureOf(q)' = FutureOf(q)
    PROVE  FutureMap' = [FutureMap EXCEPT ![r] = v]
  BY DEF FutureMap

(* A step that moves callers on without completing any request.              *)
LEMMA SameFutures ==
    ASSUME Justified, Justified', UNCHANGED <<outcome, answer, m_shutdown>>,
           \A q \in Requests : caller'[q] = "new" <=> caller[q] = "new"
    PROVE  UNCHANGED Futures!futures
<1>1. \A q \in Requests : FutureOf(q)' = FutureOf(q)
  BY FutureValue, FutureValueNext
<1>2. FutureMap' = FutureMap
  BY <1>1 DEF FutureMap
<1> QED
  BY <1>2 DEF FutureMap, FutureOf, Futures!futures

(* A completion is one change of one future, or none when it comes late.     *)
LEMMA CompletionStep ==
    ASSUME TypeOK, Justified, Justified', NEW r \in Requests, NEW o \in Bodies \cup Failures,
           outcome' = Completed(r, o), caller[r] # "new",
           \A q \in Requests : caller'[q] = "new" <=> caller[q] = "new",
           UNCHANGED <<answer, m_shutdown>>
    PROVE  \/ UNCHANGED Futures!futures
           \/ /\ FutureMap[r] = "waiting"
              /\ FutureMap' = [FutureMap EXCEPT ![r] = o]
<1>1. o # "none"
  BY DEF Bodies, Failures
<1>2. /\ \A q \in Requests : q # r => outcome'[q] = outcome[q]
      /\ outcome'[r] = IF outcome[r] = "none" THEN o ELSE outcome[r]
  BY DEF TypeOK, Completed
<1>3. CASE outcome[r] # "none"
  <2>1. outcome' = outcome
    BY <1>3 DEF TypeOK, Completed
  <2> QED
    BY <2>1, SameFutures
<1>4. CASE outcome[r] = "none"
  <2>1. FutureOf(r) = "waiting" /\ FutureOf(r)' = o
    BY <1>1, <1>2, <1>4, FutureValue, FutureValueNext
  <2>2. \A q \in Requests : q # r => FutureOf(q)' = FutureOf(q)
    BY <1>2, FutureValue, FutureValueNext
  <2> QED
    BY <2>1, <2>2, OneFuture DEF FutureMap
<1> QED
  BY <1>3, <1>4

LEMMA MappedSteps ==
    /\ \A r \in Requests :
         Futures!Issue(r) <=>
           /\ FutureMap[r] = "idle"
           /\ FutureMap' = [FutureMap EXCEPT ![r] = IF m_shutdown THEN "client_shutdown"
                                                    ELSE "waiting"]
           /\ UNCHANGED <<answer, m_shutdown>>
    /\ \A r \in Requests, b \in Bodies :
         Futures!Answer(r, b) <=>
           /\ FutureMap[r] # "idle" /\ answer[r] = "none"
           /\ answer' = [answer EXCEPT ![r] = b]
           /\ FutureMap' = FutureMap /\ UNCHANGED m_shutdown
    /\ \A r \in Requests :
         Futures!Deliver(r) <=>
           /\ FutureMap[r] = "waiting" /\ answer[r] # "none"
           /\ FutureMap' = [FutureMap EXCEPT ![r] = answer[r]]
           /\ UNCHANGED <<answer, m_shutdown>>
    /\ \A r \in Requests :
         Futures!TimeOut(r) <=>
           /\ FutureMap[r] = "waiting"
           /\ FutureMap' = [FutureMap EXCEPT ![r] = "timeout"]
           /\ UNCHANGED <<answer, m_shutdown>>
    /\ \A r \in Requests :
         Futures!Undeliverable(r) <=>
           /\ FutureMap[r] = "waiting" /\ answer[r] = "none"
           /\ FutureMap' = [FutureMap EXCEPT ![r] = "send_failed"]
           /\ UNCHANGED <<answer, m_shutdown>>
    /\ Futures!Close <=> ~m_shutdown /\ m_shutdown' = TRUE /\ FutureMap' = FutureMap
                         /\ UNCHANGED answer
    /\ \A R \in SUBSET Requests :
         Futures!Abandon(R) <=>
           /\ m_shutdown /\ \A r \in R : FutureMap[r] = "waiting"
           /\ FutureMap' = [r \in Requests |-> IF r \in R THEN "shutdown" ELSE FutureMap[r]]
           /\ UNCHANGED <<answer, m_shutdown>>
  BY DEF FutureMap, FutureOf, Futures!Issue, Futures!Answer, Futures!Deliver, Futures!TimeOut,
         Futures!Undeliverable, Futures!Close, Futures!Abandon

LEMMA StepImplements ==
    TypeOK /\ RequestInv /\ Carried /\ Justified /\ Justified' /\ [Next]_vars
        => [Futures!Next]_(Futures!futures)
<1> SUFFICES ASSUME TypeOK, RequestInv, Carried, Justified, Justified', [Next]_vars
             PROVE  Futures!Next \/ UNCHANGED Futures!futures
  OBVIOUS
<1> DEFINE Simulated == Futures!Next \/ UNCHANGED Futures!futures
<1> HIDE DEF Simulated
<1> SUFFICES Simulated
  BY DEF Simulated
<1> USE DEF vars, requestVars, cleanupVars, incomingVars, workerVars, eventVars, poolVars,
            endpointVars
<1>0. ASSUME UNCHANGED <<outcome, answer, m_shutdown>>,
             \A q \in Requests : caller'[q] = "new" <=> caller[q] = "new"
      PROVE  Simulated
  BY <1>0, SameFutures DEF Simulated
<1>1. ASSUME NEW r \in Requests, CheckShutdown(r), UNCHANGED <<answer, m_shutdown>>
      PROVE  Simulated
  <2>1. caller[r] = "new" /\ outcome[r] = "none"
    BY <1>1 DEF CheckShutdown, Justified
  <2>2. FutureMap[r] = "idle"
    BY <2>1, FutureValue DEF FutureMap
  <2>3. \A q \in Requests : q # r => caller'[q] = caller[q] /\ outcome'[q] = outcome[q]
    BY <1>1 DEF TypeOK, CheckShutdown, Completed
  <2>4. \A q \in Requests : q # r => FutureOf(q)' = FutureOf(q)
    BY <2>3, FutureValue, FutureValueNext
  <2>5. caller'[r] # "new" /\ outcome'[r] = IF m_shutdown THEN "client_shutdown" ELSE "none"
    BY <1>1, <2>1 DEF TypeOK, CheckShutdown, Completed
  <2>6. FutureOf(r)' = IF m_shutdown THEN "client_shutdown" ELSE "waiting"
    BY <2>5, FutureValueNext
  <2>7. Futures!Issue(r)
    BY <1>1, <2>2, <2>4, <2>6, OneFuture, MappedSteps
  <2> QED
    BY <2>7 DEF Simulated, Futures!Next
<1>2. ASSUME NEW r \in Requests, Send(r) PROVE Simulated
  BY <1>1, <1>2 DEF Send, outsideCaller
<1>3. ASSUME NEW p \in Pool, NEW r \in Requests, CallbackSends(p, r) PROVE Simulated
  BY <1>1, <1>3 DEF CallbackSends, outsidePool
<1>4. ASSUME NEW r \in Requests, Register(r) PROVE Simulated
  BY <1>0, <1>4 DEF TypeOK, Register, outsideCaller
<1>5. ASSUME NEW r \in Requests, Write(r) PROVE Simulated
  BY <1>0, <1>5 DEF TypeOK, Write, outsideCaller
<1>6. ASSUME NEW r \in Requests, SendFailed(r) PROVE Simulated
  <2>1. /\ caller[r] = "unsent"
        /\ \A q \in Requests : caller'[q] = "new" <=> caller[q] = "new"
        /\ outcome' = Completed(r, "send_failed") /\ UNCHANGED <<answer, m_shutdown>>
    BY <1>6 DEF TypeOK, SendFailed, outsideCaller
  <2>2. answer[r] = "none"
    BY <2>1 DEF Justified
  <2>3. "send_failed" \in Bodies \cup Failures
    BY DEF Failures
  <2>4. \/ UNCHANGED Futures!futures
        \/ FutureMap[r] = "waiting" /\ FutureMap' = [FutureMap EXCEPT ![r] = "send_failed"]
    BY <2>1, <2>3, CompletionStep
  <2>5. UNCHANGED Futures!futures \/ Futures!Undeliverable(r)
    BY <2>1, <2>2, <2>4, MappedSteps
  <2> QED
    BY <2>5 DEF Simulated, Futures!Next
<1>7. ASSUME NEW r \in Requests, NEW b \in Bodies, EndpointAnswers(r, b) PROVE Simulated
  <2>1. /\ r \in written /\ answer[r] = "none" /\ answer' = [answer EXCEPT ![r] = b]
        /\ UNCHANGED <<outcome, caller, m_shutdown>>
    BY <1>7 DEF EndpointAnswers, HandleMessage, outsideReader
  <2>2. caller[r] = "done"
    BY <2>1 DEF Justified
  <2>3. FutureOf(r) # "idle"
    BY <2>2, FutureValue DEF TypeOK, Bodies, Failures
  <2>4. \A q \in Requests : FutureOf(q)' = FutureOf(q)
    BY <2>1 DEF FutureOf
  <2>5. FutureMap[r] # "idle" /\ FutureMap' = FutureMap
    BY <2>3, <2>4 DEF FutureMap
  <2>6. Futures!Answer(r, b)
    BY <2>1, <2>5, MappedSteps
  <2> QED
    BY <2>6 DEF Simulated, Futures!Next
<1>8. ASSUME CompleteResponse PROVE Simulated
  <2>1. message.kind = "response" /\ message.id \in Requests /\ message.body \in Bodies
    BY <1>8, MessageType DEF TypeOK, CompleteResponse
  <2>2. answer[message.id] = message.body /\ answer[message.id] # "none"
    BY <2>1 DEF Carried, Honest, Bodies
  <2>3. caller[message.id] # "new"
    BY <2>1, <2>2 DEF Justified
  <2>4. /\ outcome' = Completed(message.id, message.body)
        /\ UNCHANGED <<caller, answer, m_shutdown>>
    BY <1>8 DEF CompleteResponse, outsideWorker
  <2>5. \/ UNCHANGED Futures!futures
        \/ /\ FutureMap[message.id] = "waiting"
           /\ FutureMap' = [FutureMap EXCEPT ![message.id] = message.body]
    BY <2>1, <2>3, <2>4, CompletionStep
  <2>6. PICK r \in Requests : r = message.id
    BY <2>1
  <2>7. \/ UNCHANGED Futures!futures
        \/ /\ FutureMap[r] = "waiting" /\ answer[r] # "none"
           /\ FutureMap' = [FutureMap EXCEPT ![r] = answer[r]]
           /\ UNCHANGED <<answer, m_shutdown>>
    BY <2>2, <2>4, <2>5, <2>6
  <2>8. UNCHANGED Futures!futures \/ Futures!Deliver(r)
    BY <2>7, MappedSteps, Zenon
  <2> QED
    BY <2>8 DEF Simulated, Futures!Next
<1>9. ASSUME FailStale PROVE Simulated
  <2>1. UNCHANGED <<caller, answer, m_shutdown>>
    BY <1>9 DEF FailStale, outsideCleanup
  <2>2. ASSUME NEW r \in stale, outcome' = Completed(r, "timeout") PROVE Simulated
    <3>1. r \in Requests /\ caller[r] # "new" /\ "timeout" \in Bodies \cup Failures
      BY DEF TypeOK, RequestInv, OwnedRegistered, Owned, Failures
    <3>2. \/ UNCHANGED Futures!futures
          \/ FutureMap[r] = "waiting" /\ FutureMap' = [FutureMap EXCEPT ![r] = "timeout"]
      BY <2>1, <2>2, <3>1, CompletionStep
    <3>3. UNCHANGED Futures!futures \/ Futures!TimeOut(r)
      BY <2>1, <3>1, <3>2, MappedSteps
    <3> QED
      BY <3>1, <3>3 DEF Simulated, Futures!Next
  <2> QED
    BY <1>0, <1>9, <2>1, <2>2 DEF FailStale
<1>10. ASSUME FailPending PROVE Simulated
  <2>0. PICK R \in SUBSET Requests : R = {r \in m_pending_requests : outcome[r] = "none"}
    BY DEF TypeOK
  <2>1. UNCHANGED <<caller, answer, m_shutdown>> /\ m_shutdown
    BY <1>10 DEF FailPending, outsideShutdown, Justified
  <2>2. \A r \in R : caller[r] # "new" /\ outcome[r] = "none"
    BY <2>0 DEF TypeOK, RequestInv, OwnedRegistered, Owned
  <2>3. \A r \in Requests : outcome'[r] = IF r \in R THEN "shutdown" ELSE outcome[r]
    BY <1>10, <2>0 DEF FailPending
  <2>4. \A r \in R : FutureOf(r) = "waiting"
    BY <2>2, FutureValue
  <2>5. \A r \in Requests : FutureOf(r)' = IF r \in R THEN "shutdown" ELSE FutureOf(r)
    BY <2>1, <2>3, FutureValue, FutureValueNext
  <2>6. /\ \A r \in R : FutureMap[r] = "waiting"
        /\ FutureMap' = [r \in Requests |-> IF r \in R THEN "shutdown" ELSE FutureMap[r]]
    BY <2>2, <2>4, <2>5 DEF FutureMap
  <2>7. Futures!Abandon(R)
    BY <2>1, <2>6, MappedSteps, Zenon
  <2> QED
    BY <2>7, Zenon DEF Simulated, Futures!Next
<1>11. ASSUME Shutdown PROVE Simulated
  <2>1. /\ ~m_shutdown /\ m_shutdown' = TRUE
        /\ UNCHANGED <<outcome, caller, answer>>
    BY <1>11 DEF Shutdown, outsideShutdown, Justified, TypeOK
  <2>2. \A q \in Requests : FutureOf(q)' = FutureOf(q)
    BY <2>1 DEF FutureOf
  <2>3. FutureMap' = FutureMap
    BY <2>2 DEF FutureMap
  <2>4. Futures!Close
    BY <2>1, <2>3, MappedSteps
  <2> QED
    BY <2>4 DEF Simulated, Futures!Next
<1>12. ASSUME NEW r \in Requests, Expire(r) PROVE Simulated
  BY <1>0, <1>12 DEF Expire, outsideCleanup
<1>13. ASSUME NEW m \in Messages, EndpointEmits(m) PROVE Simulated
  BY <1>0, <1>13 DEF EndpointEmits, HandleMessage, outsideReader
<1>14. ASSUME ReaderStep PROVE Simulated
  BY <1>0, <1>14 DEF ReaderStep, Push, ReaderWaits, outsideReader
<1>15. ASSUME \/ WorkerLoop \/ Pop \/ WorkerWaits \/ ProcessMessage \/ Dispatch
              \/ SwapRemaining \/ TakeRemaining
       PROVE  Simulated
  <2>1. UNCHANGED <<outsideWorker, outcome>>
    BY <1>15 DEF WorkerLoop, Pop, WorkerWaits, ProcessMessage, Dispatch, SwapRemaining,
                 TakeRemaining
  <2> QED
    BY <1>0, <2>1 DEF outsideWorker
<1>16. ASSUME CleanupLoop \/ CollectStale PROVE Simulated
  BY <1>0, <1>16 DEF CleanupLoop, CollectStale, outsideCleanup
<1>17. ASSUME \/ \E t \in Tokens : On(t) \/ Off(t) \/ (\E e \in Events : AddListener(t, e))
              \/ \E e \in Events : OffAll(e)
       PROVE  Simulated
  BY <1>0, <1>17 DEF On, Off, AddListener, OffAll, outsideEvents
<1>18. ASSUME NEW p \in Pool, PoolStep(p) PROVE Simulated
  BY <1>0, <1>18 DEF PoolStep, TakeTask, CallbackResumes, CallbackReturns, PoolThreadExits,
                     outsidePool
<1>19. ASSUME NotifyAll \/ Join \/ StopPool PROVE Simulated
  BY <1>0, <1>19 DEF NotifyAll, Join, StopPool, outsideShutdown
<1>20. CASE UNCHANGED vars
  BY <1>0, <1>20
<1> QED
  BY <1>2, <1>3, <1>4, <1>5, <1>6, <1>7, <1>8, <1>9, <1>10, <1>11, <1>12, <1>13, <1>14,
     <1>15, <1>16, <1>17, <1>18, <1>19, <1>20, MessageMade
     DEF Next, CallerStep, WorkerStep, CleanupStep, ShutdownStep

(* cdp_client keeps the promise of RequestFutures to every thread that holds *)
(* a future of send_host(): whatever the worker, the cleanup thread and      *)
(* shutdown() do, it is resolved at most once, by the endpoint's own answer  *)
(* or by a failure that has a reason.                                        *)
THEOREM ClientImplementsFutures == Spec => ImplementsFutures
<1>1. Init => Futures!Init
  <2> SUFFICES ASSUME Init PROVE Futures!Init
    OBVIOUS
  <2>1. \A r \in Requests : FutureOf(r) = "idle"
    BY InitJustified, FutureValue DEF Init
  <2>2. FutureMap = [r \in Requests |-> "idle"]
    BY <2>1 DEF FutureMap
  <2> QED
    BY <2>2, MappedVars DEF Init
<1> QED
  BY <1>1, StepImplements, FuturesInv, PTL DEF Spec, ImplementsFutures, Futures!Spec
=============================================================================
