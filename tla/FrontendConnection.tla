------------------------ MODULE FrontendConnection ------------------------
(***************************************************************************)
(* The connection of the loader to the browser on Linux, and how it ends   *)
(* and begins again: the hook in Steam that opens a new pair of FIFOs for  *)
(* each start of steamwebhelper (src/instrumentation/internal/             *)
(* steam_hooks.cc), connect_socket() with its reader and its watcher       *)
(* (src/engine/cdp_connector.cc) and start_plugin_frontends()              *)
(* (src/engine/plugin_loader.cc).  A pair of FIFOs is a number, and so is  *)
(* each of its two ends.  They are opened for reading and writing, so that *)
(* the end of the browser is not noticed by itself: only the next start    *)
(* tells.  The number of a closed descriptor is not given to another file. *)
(* What the connection handler sets going is in WebkitWorlds and           *)
(* CrashListeners.                                                         *)
(*                                                                         *)
(* Of the client (src/engine/cdp_api.cc, module CdpClient) there is what   *)
(* can keep a connection from ending: shutdown() joins the worker, which   *)
(* may miss its wakeup, and then the callback pool, where a callback may   *)
(* wait for an answer of the browser that is gone; and the reader waits    *)
(* for space in the queue of the client, and may miss its wakeup too.      *)
(*                                                                         *)
(* Steam runs the hook on one thread.  StopCloude() comes at any time.     *)
(***************************************************************************)
EXTENDS Naturals

CONSTANT
    MaxPipes    \* bound on the starts of steamwebhelper

ASSUME PipesAssumption == MaxPipes \in Nat

Pipes == 1 .. MaxPipes

VARIABLES
    hook,           \* place of the hook
    starts,         \* number of starts so far, and of the newest pair
    read_fd,        \* g_cdp_pipe_read_fd: a pair, or 0 for -1
    write_fd,       \* g_cdp_pipe_write_fd
    open,           \* the pairs whose descriptors are open
    change_efd,     \* "none", "clear" or "set"
    generation,     \* g_cdp_pipe_generation; g_cdp_pipes_ready once it is not 0
    terminate,      \* the flag of the gate
    loader,         \* place of the thread in start_plugin_frontends() and connect_socket()
    before,         \* generation_before_connect
    in, out,        \* the descriptors of the connection
    active,         \* whether the client of the connection is
    shutdown,       \* place of the shutdown() that the first caller runs
    callback,       \* whether a callback on the pool waits for the browser
    reader, watcher,    \* places of the two threads of the connection
    deaf,               \* the reader has no eventfd to poll
    cancel,             \* cancel_fd was written
    connection_closed,
    calm            \* pairs opened when the connection before was complete, and taken
                    \* without a failure

hookVars == <<hook, starts, read_fd, write_fd, open, change_efd, generation, calm>>
clientVars == <<active, shutdown, callback>>
connectionVars == <<loader, before, in, out, clientVars, reader, watcher, deaf, cancel,
                    connection_closed>>
vars == <<hookVars, terminate, connectionVars>>

Reading == {"polling", "full"}

Init ==
    /\ hook = "idle" /\ starts = 0 /\ read_fd = 0 /\ write_fd = 0 /\ open = {}
    /\ change_efd = "none" /\ generation = 0 /\ calm = {}
    /\ terminate = FALSE
    /\ loader = "start" /\ before = 0 /\ in = 0 /\ out = 0
    /\ active = FALSE /\ shutdown = "none" /\ callback = FALSE
    /\ reader = "none" /\ watcher = "none" /\ deaf = FALSE
    /\ cancel = FALSE /\ connection_closed = FALSE

-----------------------------------------------------------------------------
(* Plat_HookedCreateSimpleProcess() and create_pv_shim()                   *)

\* The connection is complete: its threads wait.
Settled ==
    /\ reader \in Reading /\ ~deaf /\ watcher = "asleep" /\ change_efd = "clear"
    /\ in = out /\ in \in open

\* The FIFOs are there, and the first global is assigned.
OpenPipes ==
    /\ hook = "idle" /\ starts < MaxPipes
    /\ starts' = starts + 1
    /\ open' = open \cup {starts + 1}
    /\ write_fd' = starts + 1
    /\ calm' = IF Settled \/ starts = 0 THEN calm \cup {starts + 1} ELSE calm
    /\ hook' = "assign"
    /\ UNCHANGED <<read_fd, change_efd, generation, terminate, connectionVars>>

\* They cannot be made or opened; steamwebhelper starts all the same.
OpenFails ==
    /\ hook = "idle" /\ starts < MaxPipes
    /\ starts' = starts + 1
    /\ hook' = "publish"
    /\ UNCHANGED <<read_fd, write_fd, open, change_efd, generation, calm, terminate,
                   connectionVars>>

AssignRead ==
    /\ hook = "assign"
    /\ read_fd' = starts
    /\ hook' = "link"
    /\ UNCHANGED <<starts, write_fd, open, change_efd, generation, calm, terminate,
                   connectionVars>>

\* Variant of SignalChange: the eventfd is made anew each time.
SignalChangeAnew ==
    /\ hook = "link"
    /\ change_efd' = "clear"
    /\ hook' = "publish"
    /\ UNCHANGED <<starts, read_fd, write_fd, open, generation, calm, terminate,
                   connectionVars>>

\* The shim is linked, and the eventfd made or written.
SignalChange ==
    /\ hook = "link"
    /\ change_efd' = IF change_efd = "none" THEN "clear" ELSE "set"
    /\ hook' = "publish"
    /\ UNCHANGED <<starts, read_fd, write_fd, open, generation, calm, terminate,
                   connectionVars>>

\* The link fails: the descriptors are closed, and stay in the globals.
LinkFails ==
    /\ hook = "link"
    /\ open' = open \ {starts}
    /\ calm' = calm \ {starts}
    /\ hook' = "publish"
    /\ UNCHANGED <<starts, read_fd, write_fd, change_efd, generation, terminate,
                   connectionVars>>

\* The locked section and notify_all(), which wakes start_plugin_frontends().
Publish ==
    /\ hook = "publish"
    /\ generation' = generation + 1
    /\ loader' = IF loader = "blocked" THEN "resumed" ELSE loader
    /\ hook' = "idle"
    /\ UNCHANGED <<starts, read_fd, write_fd, open, change_efd, calm, terminate, before, in,
                   out, clientVars, reader, watcher, deaf, cancel, connection_closed>>

Hook == OpenPipes \/ OpenFails \/ AssignRead \/ SignalChange \/ LinkFails \/ Publish

-----------------------------------------------------------------------------
(* StopCloude(): terminate.notify() takes terminate.mtx, which the watcher *)
(* holds from its test until it sleeps, and wakes nobody else.             *)

StopCloude ==
    /\ ~terminate /\ watcher # "tested"
    /\ terminate' = TRUE
    /\ watcher' = IF watcher = "asleep" THEN "awake" ELSE watcher
    /\ UNCHANGED <<hookVars, loader, before, in, out, clientVars, reader, deaf, cancel,
                   connection_closed>>

-----------------------------------------------------------------------------
(* start_plugin_frontends()                                                *)

LoaderGoes(place) ==
    /\ loader' = place
    /\ UNCHANGED <<hookVars, terminate, in, out, clientVars, reader, watcher, deaf, cancel,
                   connection_closed>>

StartPluginFrontends ==
    /\ loader = "start"
    /\ IF terminate
       THEN LoaderGoes("done") /\ UNCHANGED before
       ELSE LoaderGoes("connect") /\ before' = generation

\* The thread of the connection is joined.
Disconnected ==
    /\ loader = "ended"
    /\ LoaderGoes(IF terminate THEN "done" ELSE "reconnect")
    /\ UNCHANGED before

\* The predicate is tested with g_cdp_pipe_mutex held; after that only the
\* hook's notify_all() wakes the wait.
AwaitGeneration ==
    /\ loader = "reconnect"
    /\ LoaderGoes(IF generation > before \/ terminate THEN "resumed" ELSE "blocked")
    /\ UNCHANGED before

Resume ==
    /\ loader = "resumed"
    /\ LoaderGoes(IF terminate THEN "done" ELSE "start")
    /\ UNCHANGED before

-----------------------------------------------------------------------------
(* connect_socket()                                                        *)

\* The wait for g_cdp_pipes_ready is over, and the descriptors are tested.
TakeRead ==
    /\ loader = "connect" /\ generation > 0
    /\ in' = IF read_fd = 0 \/ write_fd = 0 THEN 0 ELSE read_fd
    /\ loader' = IF read_fd = 0 \/ write_fd = 0 THEN "ended" ELSE "write"
    /\ UNCHANGED <<hookVars, terminate, before, out, clientVars, reader, watcher, deaf, cancel,
                   connection_closed>>

\* There are descriptors, and no eventfd to cancel with: there is no
\* connection, and the next try is after the next start.
NoCancelFd ==
    /\ loader = "connect" /\ generation > 0
    /\ read_fd # 0 /\ write_fd # 0
    /\ loader' = "ended"
    /\ calm' = calm \ {starts}
    /\ UNCHANGED <<hook, starts, read_fd, write_fd, open, change_efd, generation, terminate,
                   before, in, out, clientVars, reader, watcher, deaf, cancel,
                   connection_closed>>

TakeWrite ==
    /\ loader = "write"
    /\ out' = write_fd
    /\ loader' = "drain"
    /\ UNCHANGED <<hookVars, terminate, before, in, clientVars, reader, watcher, deaf, cancel,
                   connection_closed>>

\* The eventfd is read; then the client is made and the reader started.  If
\* there is no eventfd yet, the reader may find one when it begins, or be
\* deaf to it.
Drain ==
    /\ loader = "drain"
    /\ change_efd' = IF change_efd = "none" THEN "none" ELSE "clear"
    /\ active' = TRUE /\ shutdown' = "none"
    /\ reader' = "polling"
    /\ deaf' \in {FALSE, change_efd = "none"}
    /\ loader' = "handler"
    /\ UNCHANGED <<hook, starts, read_fd, write_fd, open, generation, calm, terminate, before,
                   in, out, callback, watcher, cancel, connection_closed>>

\* on_connect_cb only registers and enqueues; then the watcher is started.
OnConnect ==
    /\ loader = "handler"
    /\ watcher' = "started"
    /\ loader' = "join"
    /\ UNCHANGED <<hookVars, terminate, before, in, out, clientVars, reader, deaf, cancel,
                   connection_closed>>

-----------------------------------------------------------------------------
(* cdp_client::shutdown(), called by reader, watcher and loader.  Only the *)
(* first of them runs it: the others return at once.                       *)

\* m_shutdown is set and the condition variables are notified without their
\* mutexes, so that the worker may miss it.
ShutdownBegins ==
    /\ active' = FALSE
    /\ shutdown' \in {"joining", "missed"}

\* The worker and the cleanup thread are joined.
ShutdownJoins ==
    /\ shutdown = "joining"
    /\ shutdown' = "draining"
    /\ UNCHANGED <<hookVars, terminate, loader, before, in, out, active, callback, reader,
                   watcher, deaf, cancel, connection_closed>>

\* The callback pool is joined too, and the caller goes on.
ShutdownReturns ==
    LET Returned(place, next) == IF place = "shutdown" THEN next ELSE place
    IN  /\ shutdown = "draining" /\ ~callback
        /\ shutdown' = "none"
        /\ reader' = Returned(reader, "gone")
        /\ watcher' = Returned(watcher, "gone")
        /\ loader' = IF loader = "joined" THEN "closing" ELSE loader
        /\ UNCHANGED <<hookVars, terminate, before, in, out, active, callback, deaf, cancel,
                       connection_closed>>

\* A callback has sent a request and waits for the answer.
CallbackWaits ==
    /\ active /\ ~callback
    /\ callback' = TRUE
    /\ UNCHANGED <<hookVars, terminate, loader, before, in, out, active, shutdown, reader,
                   watcher, deaf, cancel, connection_closed>>

\* The worker has the answer, or the cleanup thread the timeout, as long as
\* they are there; or the write fails.
CallbackReturns ==
    /\ callback
    /\ shutdown # "draining" \/ out \notin open
    /\ callback' = FALSE
    /\ UNCHANGED <<hookVars, terminate, loader, before, in, out, active, shutdown, reader,
                   watcher, deaf, cancel, connection_closed>>

\* Somebody waits for ever.
Stuck ==
    \/ reader = "lost" \/ shutdown = "missed"
    \/ shutdown = "draining" /\ callback

-----------------------------------------------------------------------------
(* connect_socket() when the reader has ended                              *)

\* The reader is joined and the client shut down.
JoinReader ==
    /\ loader = "join" /\ reader = "gone"
    /\ IF active THEN ShutdownBegins /\ loader' = "joined"
       ELSE UNCHANGED <<active, shutdown>> /\ loader' = "closing"
    /\ UNCHANGED <<hookVars, terminate, before, in, out, callback, reader, watcher, deaf,
                   cancel, connection_closed>>

\* connection_closed is stored and the watcher notified, without terminate.mtx.
NotifyClosed ==
    /\ loader = "closing"
    /\ connection_closed' = TRUE
    /\ watcher' = IF watcher = "asleep" THEN "awake" ELSE watcher
    /\ loader' = "joinWatcher"
    /\ UNCHANGED <<hookVars, terminate, before, in, out, clientVars, reader, deaf, cancel>>

\* The watcher is joined and the descriptors are closed.
Close ==
    /\ loader = "joinWatcher" /\ watcher = "gone"
    /\ open' = open \ {in, out}
    /\ in' = 0 /\ out' = 0
    /\ reader' = "none" /\ watcher' = "none" /\ deaf' = FALSE
    /\ cancel' = FALSE /\ connection_closed' = FALSE
    /\ loader' = "ended"
    /\ UNCHANGED <<hook, starts, read_fd, write_fd, change_efd, generation, calm, terminate,
                   before, clientVars>>

-----------------------------------------------------------------------------
(* pipe_read_loop()                                                        *)

Changed == ~deaf /\ change_efd = "set"

\* poll() returns and there is no message.
Poll ==
    /\ reader = "polling"
    /\ \/ cancel /\ reader' = "gone" /\ UNCHANGED <<change_efd, active, shutdown>>
       \/ /\ ~cancel /\ Changed
          /\ change_efd' = "clear"
          /\ IF active THEN ShutdownBegins /\ reader' = "shutdown"
             ELSE UNCHANGED <<active, shutdown>> /\ reader' = "gone"
       \/ /\ ~cancel /\ ~Changed /\ in \notin open
          /\ reader' = "gone" /\ UNCHANGED <<change_efd, active, shutdown>>
    /\ UNCHANGED <<hook, starts, read_fd, write_fd, open, generation, calm, terminate, loader,
                   before, in, out, callback, watcher, deaf, cancel, connection_closed>>

ReaderGoes(place) ==
    /\ reader' = place
    /\ UNCHANGED <<hookVars, terminate, loader, before, in, out, clientVars, watcher, deaf,
                   cancel, connection_closed>>

\* There is one, and handle_message() finds the queue of the client full.
QueueFull ==
    /\ reader = "polling" /\ ~cancel /\ ~Changed /\ in \in open /\ active
    /\ ReaderGoes("full")

\* The worker, or shutdown(), has woken handle_message().
HasSpace ==
    /\ reader = "full"
    /\ ReaderGoes(IF active THEN "polling" ELSE "gone")

Reader == Poll \/ QueueFull \/ HasSpace

-----------------------------------------------------------------------------
(* terminate_watcher                                                       *)

\* Variant of WatcherTests: only the end of the connection is tested before.
WatcherTestsClosed ==
    /\ watcher = "started"
    /\ watcher' = IF connection_closed THEN "awake" ELSE "tested"
    /\ UNCHANGED <<hookVars, terminate, loader, before, in, out, clientVars, reader, deaf,
                   cancel, connection_closed>>

\* The watcher tests its predicate with terminate.mtx held, ...
WatcherTests ==
    /\ watcher = "started"
    /\ watcher' = IF terminate \/ connection_closed THEN "awake" ELSE "tested"
    /\ UNCHANGED <<hookVars, terminate, loader, before, in, out, clientVars, reader, deaf,
                   cancel, connection_closed>>

\* ... goes to sleep and releases it, ...
WatcherSleeps ==
    /\ watcher = "tested"
    /\ watcher' = "asleep"
    /\ UNCHANGED <<hookVars, terminate, loader, before, in, out, clientVars, reader, deaf,
                   cancel, connection_closed>>

\* ... ends the reader when the loader terminates, ...
WatcherCancels ==
    /\ watcher = "awake"
    /\ watcher' = IF terminate THEN "cancelled" ELSE "gone"
    /\ cancel' = (cancel \/ terminate)
    /\ UNCHANGED <<hookVars, terminate, loader, before, in, out, clientVars, reader, deaf,
                   connection_closed>>

\* ... and shuts the client down.  A reader that is about to wait for space
\* may miss it.
WatcherStops ==
    /\ watcher = "cancelled"
    /\ IF active
       THEN /\ ShutdownBegins
            /\ watcher' = "shutdown"
            /\ reader' \in IF reader = "full" THEN {"full", "lost"} ELSE {reader}
       ELSE watcher' = "gone" /\ UNCHANGED <<active, shutdown, reader>>
    /\ UNCHANGED <<hookVars, terminate, loader, before, in, out, callback, deaf, cancel,
                   connection_closed>>

Loader ==
    \/ StartPluginFrontends \/ Disconnected \/ AwaitGeneration \/ Resume
    \/ TakeRead \/ NoCancelFd \/ TakeWrite \/ Drain \/ OnConnect
    \/ JoinReader \/ NotifyClosed \/ Close
Shutdown == ShutdownJoins \/ ShutdownReturns
Callback == CallbackWaits \/ CallbackReturns
Watcher == WatcherTests \/ WatcherSleeps \/ WatcherCancels \/ WatcherStops

-----------------------------------------------------------------------------

Next ==
    \/ Hook
    \/ StopCloude
    \/ Loader
    \/ Shutdown
    \/ Callback
    \/ Reader
    \/ Watcher

Spec == Init /\ [][Next]_vars

\* The threads of the loader run on where nothing keeps them.  Steam starts
\* the browser, and stops the loader, if and when it likes, but a hook that
\* has begun returns.  Nothing says that a callback gets its answer.
Fairness ==
    /\ WF_vars(hook # "idle" /\ Hook)
    /\ WF_vars(Loader)
    /\ WF_vars(Shutdown)
    /\ WF_vars(Poll \/ HasSpace)
    /\ WF_vars(Watcher)

FairSpec == Spec /\ Fairness

-----------------------------------------------------------------------------
(* Properties.                                                             *)

(* "signal pipe_read_loop to exit, a new pipe has replaced the old one"     *)
(* (steam_hooks.cc): when steamwebhelper starts again while the connection  *)
(* is complete, the loader comes to read and write the new pair, unless it  *)
(* is stopped, the browser starts once more, no connection can be made or   *)
(* the shutdown() of the old client waits for ever: for a worker that has   *)
(* missed its wakeup, or a callback that waits for the browser that is gone.*)
NewPipeIsTaken ==
    \A n \in Pipes :
        (n \in calm /\ starts = n) ~>
            \/ starts > n \/ terminate \/ n \notin calm \/ Stuck
            \/ reader \in Reading /\ in = n /\ out = n

(* StopCloude() ends every connection for good, wherever hook, loader,      *)
(* reader and watcher are: the two threads and the descriptors go and no    *)
(* client is left active, unless a wakeup without its mutex was missed or a *)
(* callback waits for the browser when shutdown() joins the pool (Stuck).   *)
StopEndsConnection ==
    terminate ~> [](Stuck \/ (reader = "none" /\ watcher = "none" /\ ~active))
=============================================================================
