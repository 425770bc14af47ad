--------------------------- MODULE CrashListeners ---------------------------
(***************************************************************************)
(* Who listens for crashes of plugins: the frontend, through a listener    *)
(* that a task of each connection replaces (devtools_connection_hdlr() and *)
(* shutdown() of src/engine/plugin_loader.cc), and the clients of the MEP  *)
(* server that have subscribed to plugin.crash (src/mep/mep_hooks.cc).     *)
(* They come and go while the readers of the children report crashes.  How *)
(* connections come about is in FrontendConnection; here one more may be   *)
(* made at any time.                                                       *)
(***************************************************************************)
EXTENDS CrashEventBus

CONSTANT
    MaxConnections      \* bound on the connections to the browser

ASSUME ConnectionsAssumption == MaxConnections \in Nat

Connections == 1 .. MaxConnections

VARIABLES
    connections,            \* number of connections so far
    task,                   \* connection -> place of its task on the pool, and its listener
    m_crash_listener_id,    \* 0 for -1
    ended,                  \* plugin_loader::shutdown() was called
    subscribers             \* ids of the listeners of MEP clients

taskVars == <<connections, task, m_crash_listener_id, ended>>
listenersVars == <<taskVars, subscribers, busVars>>

NoTask == [at |-> "none", id |-> 0]

ListenersInit ==
    /\ connections = 0
    /\ task = [n \in Connections |-> NoTask]
    /\ m_crash_listener_id = 0 /\ ended = FALSE
    /\ subscribers = {}
    /\ BusInit

-----------------------------------------------------------------------------
(* The task of devtools_connection_hdlr() that replaces the listener, on a *)
(* pool of two threads.                                                    *)

At(n, place) == task[n].at = place
TaskGoes(n, place) == task' = [task EXCEPT ![n].at = place]
Running == {n \in Connections : task[n].at \notin {"none", "queued"}}

\* A connection is there, and its task is enqueued.
DevtoolsConnection ==
    /\ connections < MaxConnections
    /\ connections' = connections + 1
    /\ TaskGoes(connections + 1, "queued")
    /\ UNCHANGED <<m_crash_listener_id, ended, subscribers, busVars>>

\* init_devtools() returns: it has found SharedJSContext, perhaps over the
\* client of a later connection, or an exception ends the task.
InitDevtools(n) ==
    /\ At(n, "queued") /\ Cardinality(Running) < 2
    /\ \A k \in 1 .. n - 1 : ~At(k, "queued")
    /\ TaskGoes(n, "remove") \/ TaskGoes(n, "none")
    /\ UNCHANGED <<connections, m_crash_listener_id, ended, subscribers, busVars>>

RemoveOld(n) ==
    /\ At(n, "remove")
    /\ IF m_crash_listener_id = 0 THEN UNCHANGED busVars ELSE RemoveListener(m_crash_listener_id)
    /\ TaskGoes(n, "add")
    /\ UNCHANGED <<connections, m_crash_listener_id, ended, subscribers>>

AddNew(n) ==
    /\ At(n, "add")
    /\ AddListener(m_id_counter + 1)
    /\ task' = [task EXCEPT ![n] = [at |-> "replay", id |-> m_id_counter + 1]]
    /\ UNCHANGED <<connections, m_crash_listener_id, ended, subscribers>>

ReplayOne(n) ==
    /\ At(n, "replay")
    /\ Replay(task[n].id)
    /\ UNCHANGED <<taskVars, subscribers>>

Added(n) ==
    /\ At(n, "replay") /\ replay[task[n].id] = {}
    /\ m_crash_listener_id' = task[n].id
    /\ task' = [task EXCEPT ![n] = NoTask]
    /\ UNCHANGED <<connections, ended, subscribers, busVars>>

Task(n) == InitDevtools(n) \/ RemoveOld(n) \/ AddNew(n) \/ ReplayOne(n) \/ Added(n)

\* plugin_loader::shutdown() takes the listener out; tasks may still run.
LoaderShutdown ==
    /\ ~ended
    /\ ended' = TRUE
    /\ m_crash_listener_id' = 0
    /\ IF m_crash_listener_id = 0 THEN UNCHANGED busVars ELSE RemoveListener(m_crash_listener_id)
    /\ UNCHANGED <<connections, task, subscribers>>

-----------------------------------------------------------------------------
(* The handlers of MEP clients, on a thread for each client.               *)

\* plugin.crash
Subscribe ==
    /\ AddListener(m_id_counter + 1)
    /\ subscribers' = subscribers \cup {m_id_counter + 1}
    /\ UNCHANGED taskVars

SubscriberReplays(l) ==
    /\ l \in subscribers
    /\ Replay(l)
    /\ UNCHANGED <<taskVars, subscribers>>

\* plugin.crash.unsubscribe, or the end of the client, after the handler
Unsubscribe(l) ==
    /\ l \in subscribers /\ replay[l] = {}
    /\ RemoveListener(l)
    /\ subscribers' = subscribers \ {l}
    /\ UNCHANGED taskVars

Mep == Subscribe \/ \E l \in Ids : SubscriberReplays(l) \/ Unsubscribe(l)

\* The readers of the children report crashes, and the frontend deals with
\* them.
Bus ==
    /\ \/ \E c \in Crashes : Notify(c)
       \/ \E l \in Ids : Ring(l)
       \/ Acknowledge
    /\ UNCHANGED <<taskVars, subscribers>>

-----------------------------------------------------------------------------

ListenersNext ==
    \/ DevtoolsConnection
    \/ \E n \in Connections : Task(n)
    \/ LoaderShutdown
    \/ Mep
    \/ Bus

ListenersSpec == ListenersInit /\ [][ListenersNext]_listenersVars
=============================================================================
