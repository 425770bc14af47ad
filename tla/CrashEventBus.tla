--------------------------- MODULE CrashEventBus ---------------------------
(***************************************************************************)
(* crash_event_bus (src/mep/crash_event_bus.cc), the singleton that takes  *)
(* the crashes the readers of the children report to the listeners of the  *)
(* frontend and of the MEP clients.  notify() calls the listeners with     *)
(* m_mutex held, one after the other, and a listener waits for the browser *)
(* there; add_listener() replays what was pending after it has released    *)
(* the mutex.  A module that uses the bus composes these actions with its  *)
(* own steps.  The crashes are those of one plugin.                        *)
(***************************************************************************)
EXTENDS Naturals, FiniteSets

CONSTANTS
    Crashes,        \* the crashes that may be reported, each at most once
    MaxListeners,   \* bound on the listeners that are ever added
    None

ASSUME CrashesAssumption == None \notin Crashes
ASSUME ListenersAssumption == MaxListeners \in Nat

Ids == 1 .. MaxListeners

VARIABLES
    m_listeners,    \* ids of the listeners
    m_pending,      \* crashes reported when there was no listener
    m_crash_buffer, \* crashes that are not acknowledged
    m_id_counter,
    reported,       \* crashes that notify() was called with
    notifying,      \* the crash whose notify() holds m_mutex, or None
    ringing,        \* the listeners it has yet to call
    replay,         \* id -> the crashes add_listener() has yet to replay
    offered         \* <<crash, id>> of every call of a listener so far

busVars == <<m_listeners, m_pending, m_crash_buffer, m_id_counter, reported, notifying,
             ringing, replay, offered>>

BusInit ==
    /\ m_listeners = {} /\ m_pending = {} /\ m_crash_buffer = {} /\ m_id_counter = 0
    /\ reported = {} /\ notifying = None /\ ringing = {}
    /\ replay = [l \in Ids |-> {}]
    /\ offered = {}

Notify(c) ==
    /\ c \notin reported /\ notifying = None
    /\ reported' = reported \cup {c}
    /\ m_crash_buffer' = m_crash_buffer \cup {c}
    /\ IF m_listeners = {}
       THEN /\ m_pending' = m_pending \cup {c}
            /\ UNCHANGED <<notifying, ringing>>
       ELSE /\ notifying' = c /\ ringing' = m_listeners
            /\ UNCHANGED m_pending
    /\ UNCHANGED <<m_listeners, m_id_counter, replay, offered>>

\* A listener has returned, with or without an exception.
Ring(l) ==
    /\ l \in ringing
    /\ offered' = offered \cup {<<notifying, l>>}
    /\ ringing' = ringing \ {l}
    /\ notifying' = IF ringing = {l} THEN None ELSE notifying
    /\ UNCHANGED <<m_listeners, m_pending, m_crash_buffer, m_id_counter, reported, replay>>

\* Variant of AddListener: what was pending is copied and not moved.
AddListenerCopying(l) ==
    /\ l = m_id_counter + 1 /\ l \in Ids
    /\ notifying = None
    /\ m_id_counter' = l
    /\ m_listeners' = m_listeners \cup {l}
    /\ replay' = [replay EXCEPT ![l] = m_pending]
    /\ UNCHANGED <<m_pending, m_crash_buffer, reported, notifying, ringing, offered>>

\* The part of add_listener() up to the end of its locked section.
AddListener(l) ==
    /\ l = m_id_counter + 1 /\ l \in Ids
    /\ notifying = None
    /\ m_id_counter' = l
    /\ m_listeners' = m_listeners \cup {l}
    /\ replay' = [replay EXCEPT ![l] = m_pending]
    /\ m_pending' = {}
    /\ UNCHANGED <<m_crash_buffer, reported, notifying, ringing, offered>>

\* One turn of the loop that follows.
Replay(l) ==
    /\ \E c \in replay[l] :
        /\ offered' = offered \cup {<<c, l>>}
        /\ replay' = [replay EXCEPT ![l] = @ \ {c}]
    /\ UNCHANGED <<m_listeners, m_pending, m_crash_buffer, m_id_counter, reported, notifying,
                   ringing>>

RemoveListener(l) ==
    /\ notifying = None
    /\ m_listeners' = m_listeners \ {l}
    /\ UNCHANGED <<m_pending, m_crash_buffer, m_id_counter, reported, notifying, ringing,
                   replay, offered>>

\* acknowledge_crash() of the plugin
Acknowledge ==
    /\ notifying = None /\ m_crash_buffer # {}
    /\ m_crash_buffer' = {}
    /\ UNCHANGED <<m_listeners, m_pending, m_id_counter, reported, notifying, ringing,
                   replay, offered>>

-----------------------------------------------------------------------------

(* What add_listener() and notify() really do together: however they         *)
(* overlap, a crash that was reported waits for the next listener or goes to *)
(* at least one, and never twice to the same, although it can reach a        *)
(* listener on two ways, the call under the lock and the replay after it.    *)
(* A crash that some listener was called with is kept for no other: see      *)
(* NoNotificationMissed.                                                     *)
CrashesAreOffered ==
    /\ \A c \in reported :
        \/ c \in m_pending \/ c = notifying
        \/ \E l \in Ids : c \in replay[l] \/ <<c, l>> \in offered
    /\ \A c \in reported, l \in Ids :
        (c \in m_pending \/ c \in replay[l] \/ (c = notifying /\ l \in ringing))
            => <<c, l>> \notin offered

(* "Any crash events that fired before this call are replayed immediately so *)
(* no notification is ever missed" (add_listener() in crash_event_bus.h): a  *)
(* listener has been called, or is yet to be called by the notify() or the   *)
(* replay under way, with every crash that nobody has acknowledged.          *)
NoNotificationMissed ==
    \A l \in m_listeners, c \in m_crash_buffer :
        c = notifying \/ c \in replay[l] \/ <<c, l>> \in offered
=============================================================================
