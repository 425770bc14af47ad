------------------------ MODULE CrashListenersProofs ------------------------
(***************************************************************************)
(* Proofs about the crash_event_bus, alone and as the frontend and the MEP *)
(* clients use it.  The lemmas are about the actions of the bus; the       *)
(* theorem composes them with the tasks that replace the frontend's        *)
(* listener and with the handlers of subscriptions.                        *)
(***************************************************************************)
EXTENDS CrashListeners, TLAPS

(* Where a crash can be: only crashes that were reported are anywhere, and   *)
(* ids above the counter are unused.                                         *)
BusTyped ==
    /\ reported \subseteq Crashes
    /\ m_listeners \subseteq Ids /\ ringing \subseteq Ids
    /\ m_pending \subseteq reported
    /\ m_id_counter \in 0 .. MaxListeners
    /\ replay \in [Ids -> SUBSET reported]
    /\ offered \subseteq reported \X Ids
    /\ notifying \in reported \cup {None}
    /\ notifying = None => ringing = {}
    /\ \A l \in Ids : l > m_id_counter => replay[l] = {}

(* A crash is on one way only: pending, in a replay or being notified.       *)
OneWay ==
    /\ \A l \in Ids : m_pending \cap replay[l] = {} /\ notifying \notin replay[l]
    /\ notifying \notin m_pending

BusInv == BusTyped /\ OneWay /\ CrashesAreOffered

LEMMA BusStarts == BusInit => BusInv
  BY CrashesAssumption, ListenersAssumption
  DEF BusInit, BusInv, BusTyped, OneWay, CrashesAreOffered, Ids

LEMMA NotifyKeeps ==
  ASSUME BusInv, NEW c \in Crashes, Notify(c)
  PROVE  BusInv'
<1>1. BusTyped'
  BY CrashesAssumption DEF BusInv, BusTyped, Notify
<1>2. OneWay'
  BY CrashesAssumption DEF BusInv, BusTyped, OneWay, Notify
<1>3. CrashesAreOffered'
  BY CrashesAssumption DEF BusInv, BusTyped, OneWay, CrashesAreOffered, Notify
<1> QED BY <1>1, <1>2, <1>3 DEF BusInv

LEMMA RingKeeps ==
  ASSUME BusInv, NEW l \in Ids, Ring(l)
  PROVE  BusInv'
<1>1. notifying \in reported
  BY DEF Ring, BusInv, BusTyped
<1>2. BusTyped'
  BY <1>1 DEF BusInv, BusTyped, Ring
<1>3. OneWay'
  BY CrashesAssumption DEF BusInv, BusTyped, OneWay, Ring
<1>4. CrashesAreOffered'
  BY <1>1, CrashesAssumption DEF BusInv, BusTyped, OneWay, CrashesAreOffered, Ring
<1> QED BY <1>2, <1>3, <1>4 DEF BusInv

LEMMA AddListenerKeeps ==
  ASSUME BusInv, NEW l, AddListener(l)
  PROVE  BusInv' /\ l \in Ids
<1>1. /\ l \in Ids /\ l = m_id_counter + 1
      /\ replay' \in [Ids -> SUBSET reported]
      /\ replay'[l] = m_pending
      /\ \A k \in Ids : k # l => replay'[k] = replay[k]
  BY DEF AddListener, BusInv, BusTyped
<1>2. BusTyped'
  BY <1>1, ListenersAssumption DEF BusInv, BusTyped, AddListener, Ids
<1>3. OneWay'
  BY <1>1 DEF BusInv, BusTyped, OneWay, AddListener
<1>4. replay[l] = {}
  BY <1>1 DEF BusInv, BusTyped, Ids
<1>5. CrashesAreOffered'
  BY <1>1, <1>4 DEF BusInv, BusTyped, OneWay, CrashesAreOffered, AddListener
<1> QED BY <1>1, <1>2, <1>3, <1>5 DEF BusInv

LEMMA ReplayKeeps ==
  ASSUME BusInv, NEW l \in Ids, Replay(l)
  PROVE  BusInv'
<1>1. PICK c \in replay[l] : /\ offered' = offered \cup {<<c, l>>}
                             /\ replay' = [replay EXCEPT ![l] = @ \ {c}]
  BY DEF Replay
<1>2. /\ c \in reported /\ c \notin m_pending /\ c # notifying
      /\ replay' \in [Ids -> SUBSET reported]
      /\ replay'[l] = replay[l] \ {c}
      /\ \A k \in Ids : k # l => replay'[k] = replay[k]
  BY <1>1 DEF BusInv, BusTyped, OneWay
<1>3. BusTyped'
  BY <1>1, <1>2 DEF BusInv, BusTyped, Replay
<1>4. OneWay'
  BY <1>2 DEF BusInv, BusTyped, OneWay, Replay
<1>5. CrashesAreOffered'
  BY <1>1, <1>2 DEF BusInv, BusTyped, OneWay, CrashesAreOffered, Replay
<1> QED BY <1>3, <1>4, <1>5 DEF BusInv

LEMMA RemoveListenerKeeps ==
  ASSUME BusInv, NEW l, RemoveListener(l)
  PROVE  BusInv'
  BY DEF RemoveListener, BusInv, BusTyped, OneWay, CrashesAreOffered

LEMMA AcknowledgeKeeps ==
  ASSUME BusInv, Acknowledge
  PROVE  BusInv'
  BY DEF Acknowledge, BusInv, BusTyped, OneWay, CrashesAreOffered

LEMMA BusUnchanged ==
  ASSUME BusInv, UNCHANGED busVars
  PROVE  BusInv'
  BY DEF busVars, BusInv, BusTyped, OneWay, CrashesAreOffered

-----------------------------------------------------------------------------

(* A task replays under an id that it was given, and so does a subscriber.   *)
TaskTyped ==
    /\ connections \in Nat
    /\ task \in [Connections -> [at : {"none", "queued", "remove", "add", "replay"}, id : Nat]]
    /\ \A n \in Connections : task[n].at = "replay" => task[n].id \in Ids
    /\ subscribers \subseteq Ids

ListenersInv == BusInv /\ TaskTyped

LEMMA ConnectionKeeps ==
  ASSUME ListenersInv, DevtoolsConnection
  PROVE  ListenersInv'
<1>1. TaskTyped'
  <2>1. connections + 1 \in Connections /\ connections' \in Nat
    BY ConnectionsAssumption DEF DevtoolsConnection, ListenersInv, TaskTyped, Connections
  <2>2. PICK c \in Connections : task' = [task EXCEPT ![c].at = "queued"]
    BY <2>1 DEF DevtoolsConnection, TaskGoes
  <2> QED BY <2>1, <2>2 DEF DevtoolsConnection, ListenersInv, TaskTyped
<1>2. BusInv'
  BY BusUnchanged DEF DevtoolsConnection, ListenersInv
<1> QED BY <1>1, <1>2 DEF ListenersInv

LEMMA TaskKeeps ==
  ASSUME ListenersInv, NEW n \in Connections, Task(n)
  PROVE  ListenersInv'
<1>1. CASE InitDevtools(n)
  <2>1. TaskTyped'
    BY <1>1 DEF InitDevtools, TaskGoes, ListenersInv, TaskTyped
  <2>2. BusInv'
    BY <1>1, BusUnchanged DEF InitDevtools, ListenersInv
  <2> QED BY <2>1, <2>2 DEF ListenersInv
<1>2. CASE RemoveOld(n)
  <2>1. TaskTyped'
    BY <1>2 DEF RemoveOld, TaskGoes, ListenersInv, TaskTyped
  <2>2. BusInv'
    BY <1>2, BusUnchanged, RemoveListenerKeeps DEF RemoveOld, ListenersInv
  <2> QED BY <2>1, <2>2 DEF ListenersInv
<1>3. CASE AddNew(n)
  <2>1. BusInv' /\ m_id_counter + 1 \in Ids
    BY <1>3, AddListenerKeeps DEF AddNew, ListenersInv
  <2>2. TaskTyped'
    BY <1>3, <2>1 DEF AddNew, ListenersInv, TaskTyped, Ids
  <2> QED BY <2>1, <2>2 DEF ListenersInv
<1>4. CASE ReplayOne(n)
  <2>1. task[n].id \in Ids
    BY <1>4 DEF ReplayOne, At, ListenersInv, TaskTyped
  <2>2. BusInv'
    BY <1>4, <2>1, ReplayKeeps DEF ReplayOne, ListenersInv
  <2>3. TaskTyped'
    BY <1>4 DEF ReplayOne, taskVars, ListenersInv, TaskTyped
  <2> QED BY <2>2, <2>3 DEF ListenersInv
<1>5. CASE Added(n)
  <2>1. TaskTyped'
    BY <1>5 DEF Added, NoTask, ListenersInv, TaskTyped
  <2>2. BusInv'
    BY <1>5, BusUnchanged DEF Added, ListenersInv
  <2> QED BY <2>1, <2>2 DEF ListenersInv
<1> QED BY <1>1, <1>2, <1>3, <1>4, <1>5 DEF Task

LEMMA ShutdownKeeps ==
  ASSUME ListenersInv, LoaderShutdown
  PROVE  ListenersInv'
<1>1. BusInv'
  BY BusUnchanged, RemoveListenerKeeps DEF LoaderShutdown, ListenersInv
<1>2. TaskTyped'
  BY DEF LoaderShutdown, ListenersInv, TaskTyped
<1> QED BY <1>1, <1>2 DEF ListenersInv

LEMMA MepKeeps ==
  ASSUME ListenersInv, Mep
  PROVE  ListenersInv'
<1>1. CASE Subscribe
  <2>1. BusInv' /\ m_id_counter + 1 \in Ids
    BY <1>1, AddListenerKeeps DEF Subscribe, ListenersInv
  <2>2. TaskTyped'
    BY <1>1, <2>1 DEF Subscribe, taskVars, ListenersInv, TaskTyped
  <2> QED BY <2>1, <2>2 DEF ListenersInv
<1>2. ASSUME NEW l \in Ids, SubscriberReplays(l)
      PROVE  ListenersInv'
  <2>1. BusInv'
    BY <1>2, ReplayKeeps DEF SubscriberReplays, ListenersInv
  <2>2. TaskTyped'
    BY <1>2 DEF SubscriberReplays, taskVars, ListenersInv, TaskTyped
  <2> QED BY <2>1, <2>2 DEF ListenersInv
<1>3. ASSUME NEW l \in Ids, Unsubscribe(l)
      PROVE  ListenersInv'
  <2>1. BusInv'
    BY <1>3, RemoveListenerKeeps DEF Unsubscribe, ListenersInv
  <2>2. TaskTyped'
    BY <1>3 DEF Unsubscribe, taskVars, ListenersInv, TaskTyped
  <2> QED BY <2>1, <2>2 DEF ListenersInv
<1> QED BY <1>1, <1>2, <1>3 DEF Mep

LEMMA BusStepKeeps ==
  ASSUME ListenersInv, Bus
  PROVE  ListenersInv'
<1>1. BusInv'
  <2>1. ASSUME NEW c \in Crashes, Notify(c) PROVE BusInv'
    BY <2>1, NotifyKeeps DEF ListenersInv
  <2>2. ASSUME NEW l \in Ids, Ring(l) PROVE BusInv'
    BY <2>2, RingKeeps DEF ListenersInv
  <2>3. CASE Acknowledge
    BY <2>3, AcknowledgeKeeps DEF ListenersInv
  <2> QED BY <2>1, <2>2, <2>3 DEF Bus
<1>2. TaskTyped'
  BY DEF Bus, taskVars, ListenersInv, TaskTyped
<1> QED BY <1>1, <1>2 DEF ListenersInv

LEMMA ListenersStart == ListenersInit => ListenersInv
  BY BusStarts DEF ListenersInit, NoTask, ListenersInv, TaskTyped

LEMMA ListenersInvariant == ListenersInv /\ [ListenersNext]_listenersVars => ListenersInv'
<1> SUFFICES ASSUME ListenersInv, [ListenersNext]_listenersVars
             PROVE  ListenersInv'
  OBVIOUS
<1>1. CASE DevtoolsConnection
  BY <1>1, ConnectionKeeps
<1>2. CASE LoaderShutdown
  BY <1>2, ShutdownKeeps
<1>3. ASSUME NEW n \in Connections, Task(n)
      PROVE  ListenersInv'
  BY <1>3, TaskKeeps
<1>4. CASE Mep
  BY <1>4, MepKeeps
<1>5. CASE Bus
  BY <1>5, BusStepKeeps
<1>6. CASE UNCHANGED listenersVars
  BY <1>6, BusUnchanged DEF listenersVars, taskVars, ListenersInv, TaskTyped
<1> QED BY <1>1, <1>2, <1>3, <1>4, <1>5, <1>6 DEF ListenersNext

(* However connections begin, their tasks replace the frontend's listener,   *)
(* MEP clients subscribe and leave, and crashes, replays, acknowledgements   *)
(* and the end of the loader overlap: a crash given to notify() waits for    *)
(* the next listener or goes to at least one, and no listener is called with *)
(* it twice.  It does not go to every listener (NoNotificationMissed).       *)
THEOREM EveryCrashIsOffered == ListenersSpec => []CrashesAreOffered
<1>1. ListenersInv => CrashesAreOffered
  BY DEF ListenersInv, BusInv
<1> QED BY ListenersStart, ListenersInvariant, <1>1, PTL DEF ListenersSpec
=============================================================================
