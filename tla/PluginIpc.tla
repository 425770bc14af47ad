------------------------------ MODULE PluginIpc ------------------------------
(***************************************************************************)
(* One plugin backend: the PluginProcess object of the parent              *)
(* (src/engine/child_process.cc), the Lua host it forked                   *)
(* (src/lua_host/main.cc, rpc.cc) and the socket between them.             *)
(*                                                                         *)
(* In the parent, call() is made by one thread at a time, because          *)
(* backend_manager makes every call and every notification with            *)
(* m_processes_mutex held, or after it has taken the process out of the    *)
(* map.  Beside that thread runs the reader thread, which resolves calls,  *)
(* serves the child's own requests and diagnoses the child's exit.         *)
(* The child has one thread.  While its Lua code waits in call() for an    *)
(* answer of the parent, it defers notifications and drops requests.       *)
(* A write into a full socket blocks, with m_write_mutex held and without  *)
(* a timeout (send_all() in plugin_ipc.h), until the other end reads or    *)
(* closes.  The room in the socket is counted in frames.                   *)
(* The states start when accept() has returned; both ends are open.        *)
(***************************************************************************)
EXTENDS Integers, Sequences

CONSTANTS
    MaxCalls,      \* bound: EVALUATE and GET_METRICS calls of the parent
    MaxNotifies,   \* bound: notifications of the parent
    MaxSaid,       \* bound: requests and notifications of the child
    SocketCapacity,  \* frames the socket holds in each direction
    Coroutines,    \* the plugin starts coroutines (cloude.start_coroutine)
    Oversized,     \* a frame may exceed MAX_FRAME_SIZE, so that read_msg() fails
    MayCrash,      \* the Lua host may be killed by a signal of its own doing
    ParentMayDie,  \* the parent may end without SHUTDOWN
    PidReuse       \* the system may give the pid of a reaped child away

ASSUME BoundsAssumption == MaxCalls \in Nat /\ MaxNotifies \in Nat /\ MaxSaid \in Nat
ASSUME SocketAssumption == SocketCapacity \in Nat \ {0}
ASSUME FlagsAssumption ==
    {Coroutines, Oversized, MayCrash, ParentMayDie, PidReuse} \subseteq BOOLEAN

VARIABLES
    stage,      \* where the owner of the PluginProcess is, from spawn to destruction
    step,       \* where the call or notification being made is
    current,    \* its id; 0 is INIT
    m_next_id,
    m_pending,
    outcome,    \* what the promise of a call was set to
    returned,   \* how the call ended for its caller
    m_shutdown_initiated,
    m_client_fd,   \* "open" or "closed"
    alive,      \* the parent process runs
    reader,     \* where the reader thread is
    entry,      \* the call whose promise it is about to set, or the child's request it serves
    crash,      \* what detect_child_exit() did: "none", "reported" or "overlooked"
    toChild,    \* frames on their way to the child
    toParent,   \* frames on their way to the parent
    child,      \* where the child's thread is
    job,        \* what the Lua code runs for
    awaiting,   \* the id its call() waits for, 0 when it is not in call()
    said,       \* requests and notifications it has sent
    m_deferred_notifications,
    m_connected,
    g_on_unload_called,
    process,    \* the child as the system sees it
    exit,       \* how it ended
    answer,     \* what the child answered, per call
    notified,   \* notifications sent
    delivered,  \* the last notification the Lua code got
    unloads     \* times on_unload was called

callVars == <<step, current, m_next_id, returned>>
pendingVars == <<m_pending, outcome>>
ownerVars == <<stage, m_shutdown_initiated, m_client_fd>>
readerVars == <<reader, entry, crash>>
luaVars == <<child, job, awaiting, said, m_deferred_notifications, m_connected,
             g_on_unload_called, answer, delivered, unloads>>
systemVars == <<process, exit>>
vars == <<callVars, pendingVars, ownerVars, readerVars, luaVars, systemVars, alive,
          toChild, toParent, notified>>

(* what the steps of each thread leave alone *)
outsideCall == <<m_client_fd, readerVars, luaVars, systemVars, alive, toParent>>
outsideReader == <<callVars, ownerVars, luaVars, exit, alive, notified>>
outsideOwner == <<callVars, m_shutdown_initiated, readerVars, alive, toChild, toParent,
                  notified>>
outsideChild == <<callVars, pendingVars, ownerVars, readerVars, alive, notified>>

Calls == 0 .. MaxCalls + 1
Kinds == {"request", "response", "notify", "bad"}
Frame(kind, id, body) == [kind |-> kind, id |-> id, body |-> body]
Frames == [kind : Kinds, id : 0 .. MaxCalls + MaxNotifies + MaxSaid + 1,
           body : {"init", "evaluate", "shutdown", "ok", "error", "none"}]

(* what Lua code can run for besides a frame *)
Coroutine == Frame("notify", 0, "none")
Unload == Frame("request", 0, "shutdown")

(* The types, and the fact that m_pending holds no entry of a call that has  *)
(* returned, however it ended.                                               *)
TypeOK ==
    /\ stage \in {"init", "published", "removed", "destroy", "join", "kill", "reap", "gone"}
    /\ step \in {"idle", "registered", "writing", "waiting", "expired", "notify"}
    /\ current \in Calls
    /\ m_next_id \in 1 .. MaxCalls + 2
    /\ m_pending \subseteq {current}
    /\ outcome \in [Calls -> {"none", "ok", "error", "disconnected", "terminated"}]
    /\ returned \in [Calls -> {"none", "ok", "error", "disconnected", "send_failed", "timeout"}]
    /\ m_shutdown_initiated \in BOOLEAN
    /\ m_client_fd \in {"open", "closed"}
    /\ alive \in BOOLEAN
    /\ reader \in {"read", "set", "serve", "answer", "fail", "detect", "detectAgain", "exit"}
    /\ entry \in Frames
    /\ crash \in {"none", "reported", "overlooked"}
    /\ toChild \in Seq(Frames) /\ toParent \in Seq(Frames)
    /\ child \in {"start", "lua", "drain", "loop", "gone"}
    /\ job \in Frames
    /\ awaiting \in 0 .. MaxSaid /\ said \in 0 .. MaxSaid
    /\ m_deferred_notifications \in Seq(Frames)
    /\ m_connected \in BOOLEAN /\ g_on_unload_called \in BOOLEAN
    /\ process \in {"running", "closing", "zombie", "reaped", "recycled"}
    /\ exit \in {"none", "zero", "nonzero", "signal"}
    /\ answer \in [Calls -> {"none", "ok", "error"}]
    /\ notified \in 0 .. MaxNotifies /\ delivered \in 0 .. MaxNotifies
    /\ unloads \in Nat

Init ==
    /\ stage = "init" /\ step = "idle" /\ current = 0 /\ m_next_id = 1
    /\ m_pending = {}
    /\ outcome = [c \in Calls |-> "none"]
    /\ returned = [c \in Calls |-> "none"]
    /\ m_shutdown_initiated = FALSE /\ m_client_fd = "open" /\ alive = TRUE
    /\ reader = "read" /\ entry = Coroutine /\ crash = "none"
    /\ toChild = <<>> /\ toParent = <<>>
    /\ child = "start" /\ job = Coroutine /\ awaiting = 0 /\ said = 0
    /\ m_deferred_notifications = <<>>
    /\ m_connected = TRUE /\ g_on_unload_called = FALSE
    /\ process = "running" /\ exit = "none"
    /\ answer = [c \in Calls |-> "none"]
    /\ notified = 0 /\ delivered = 0 /\ unloads = 0

-----------------------------------------------------------------------------
(* The thread that makes calls *)

(* A call registers its promise before it sends the request, so that the     *)
(* response cannot come too early.                                           *)
Register(id, next) ==
    /\ alive /\ step = "idle"
    /\ m_pending' = m_pending \cup {id}
    /\ step' = "registered" /\ current' = id /\ m_next_id' = next
    /\ UNCHANGED <<outcome, returned, toChild, notified, outsideCall>>

(* spawn_plugin_process() uses the id 0, which call() never hands out. *)
SendInit ==
    /\ stage = "init" /\ returned[0] = "none"
    /\ Register(0, m_next_id)
    /\ UNCHANGED <<stage, m_shutdown_initiated>>

(* backend_manager::evaluate() and get_metrics() *)
Evaluate ==
    /\ stage = "published" /\ m_next_id <= MaxCalls
    /\ Register(m_next_id, m_next_id + 1)
    /\ UNCHANGED <<stage, m_shutdown_initiated>>

(* shutdown() raises the flag first, so that the reader takes the exit that  *)
(* follows for an expected one.                                              *)
Shutdown ==
    /\ stage = "removed"
    /\ Register(m_next_id, m_next_id + 1)
    /\ m_shutdown_initiated' = TRUE
    /\ UNCHANGED stage

Method == CASE current = 0 -> "init" [] stage = "removed" -> "shutdown" [] OTHER -> "evaluate"

Room(frames) == Len(frames) < SocketCapacity

(* send_frame() returns when the whole frame is in the socket.               *)
Send ==
    /\ alive /\ step = "registered" /\ process = "running" /\ Room(toChild)
    /\ toChild' = Append(toChild, Frame("request", current, Method))
    /\ step' = "waiting"
    /\ UNCHANGED <<current, m_next_id, returned, stage, m_shutdown_initiated, pendingVars,
                   notified, outsideCall>>

(* The arguments of an EVALUATE are the plugin's and may make a frame longer *)
(* than MAX_FRAME_SIZE.  The child rejects it by its length and reads no     *)
(* further, so that the write can only fail.                                 *)
SendOversized ==
    /\ Oversized /\ Method = "evaluate"
    /\ alive /\ step = "registered" /\ process = "running" /\ Room(toChild)
    /\ toChild' = Append(toChild, Frame("bad", current, Method))
    /\ step' = "writing"
    /\ UNCHANGED <<current, m_next_id, returned, stage, m_shutdown_initiated, pendingVars,
                   notified, outsideCall>>

(* The end of a call for its caller: spawn_plugin() publishes the process or *)
(* destroys it, shutdown() goes on to destroy it whatever came of the call.  *)
Return(result) ==
    /\ alive
    /\ returned' = [returned EXCEPT ![current] = result]
    /\ step' = "idle"
    /\ stage' = CASE stage = "init" /\ result = "ok" -> "published"
                  [] stage = "published" -> "published"
                  [] OTHER -> "destroy"
    /\ UNCHANGED <<current, m_next_id, m_shutdown_initiated, outcome, toChild, notified,
                   outsideCall>>

(* variant: the entry of a call that is given up stays in the map *)
Forgotten == m_pending
(* INIT leaves its entry to the reader and the destructor. *)
Unregistered == IF current = 0 THEN m_pending ELSE m_pending \ {current}

(* A write fails when the child has closed its end.                          *)
SendFails ==
    /\ step \in {"registered", "writing"} /\ process # "running"
    /\ m_pending' = Unregistered
    /\ Return("send_failed")

Resolved ==
    /\ step = "waiting" /\ outcome[current] # "none"
    /\ Return(outcome[current])
    /\ UNCHANGED m_pending

(* variant: get() instead of wait_for() *)
NeverTimesOut == FALSE /\ UNCHANGED vars
(* wait_for() gives up; until the entry is erased the reader may still take  *)
(* it and set a promise nobody reads.                                        *)
TimesOut ==
    /\ alive /\ step = "waiting" /\ outcome[current] = "none"
    /\ step' = "expired"
    /\ UNCHANGED <<current, m_next_id, returned, stage, m_shutdown_initiated, pendingVars,
                   toChild, notified, outsideCall>>

Expired ==
    /\ step = "expired"
    /\ m_pending' = Unregistered
    /\ Return("timeout")

(* ON_FRONTEND_LOADED and CONFIG_CHANGED: notify_child(), with               *)
(* m_processes_mutex held while the write blocks                             *)
NotifyChild ==
    /\ alive /\ stage = "published" /\ step = "idle" /\ notified < MaxNotifies
    /\ step' = "notify"
    /\ UNCHANGED <<current, m_next_id, returned, pendingVars, stage, m_shutdown_initiated,
                   toChild, notified, outsideCall>>

(* numbered in the order written; a write that fails is not noticed *)
NotifyWritten ==
    /\ alive /\ step = "notify"
    /\ step' = "idle"
    /\ IF process = "running"
       THEN /\ Room(toChild)
            /\ notified' = notified + 1
            /\ toChild' = Append(toChild, Frame("notify", notified', "none"))
       ELSE UNCHANGED <<notified, toChild>>
    /\ UNCHANGED <<current, m_next_id, returned, pendingVars, stage, m_shutdown_initiated,
                   outsideCall>>

CallStep == SendInit \/ Shutdown \/ Send \/ SendOversized \/ SendFails \/ Resolved \/ TimesOut
            \/ Expired \/ NotifyWritten

-----------------------------------------------------------------------------
(* The reader thread *)

Take == /\ alive /\ reader = "read" /\ m_client_fd = "open" /\ toParent # <<>>
        /\ toParent' = Tail(toParent)

(* variant: the entry stays in the map *)
NotErased(id) == m_pending
(* The entry is erased from the map before its promise is set.               *)
StillPending(id) == m_pending \ {id}

(* variant: a response is believed to answer the call that waits *)
TakeAnyResponse ==
    /\ Take
    /\ Head(toParent).kind = "response"
    /\ entry' = Frame("response", current, Head(toParent).body)
    /\ IF current \in m_pending
       THEN m_pending' = StillPending(current) /\ reader' = "set"
       ELSE UNCHANGED <<m_pending, reader>>
    /\ UNCHANGED <<outcome, crash, toChild, process, outsideReader>>

(* A response to a call that was given up finds no entry and is dropped.     *)
TakeResponse ==
    /\ Take
    /\ Head(toParent).kind = "response"
    /\ entry' = Head(toParent)
    /\ IF Head(toParent).id \in m_pending
       THEN m_pending' = StillPending(Head(toParent).id) /\ reader' = "set"
       ELSE UNCHANGED <<m_pending, reader>>
    /\ UNCHANGED <<outcome, crash, toChild, process, outsideReader>>

SetPromise ==
    /\ alive /\ reader = "set"
    /\ outcome' = [outcome EXCEPT ![entry.id] = entry.body]
    /\ reader' = "read"
    /\ UNCHANGED <<m_pending, entry, crash, toChild, toParent, process, outsideReader>>

(* The handler runs on the reader thread, which reads nothing meanwhile.     *)
TakeRequest ==
    /\ Take
    /\ Head(toParent).kind \in {"request", "notify"}
    /\ entry' = Head(toParent) /\ reader' = "serve"
    /\ UNCHANGED <<pendingVars, crash, toChild, process, outsideReader>>

(* It returns or throws, if it does; both are sent back.  A notification     *)
(* gets no answer.                                                           *)
Served ==
    /\ alive /\ reader = "serve"
    /\ reader' = IF entry.kind = "request" THEN "answer" ELSE "read"
    /\ UNCHANGED <<pendingVars, entry, crash, toChild, toParent, process, outsideReader>>

(* send_frame() waits for m_write_mutex and for room, unless an end is closed *)
SendAnswer ==
    /\ alive /\ reader = "answer" /\ step # "writing"
    /\ IF process = "running" /\ m_client_fd = "open"
       THEN Room(toChild) /\ toChild' = Append(toChild, Frame("response", entry.id, "ok"))
       ELSE UNCHANGED toChild
    /\ reader' = "read"
    /\ UNCHANGED <<pendingVars, entry, crash, toParent, process, outsideReader>>

(* read_msg() fails: the child has closed its end, the destructor this one,  *)
(* or the frame is not one.                                                  *)
ReadFails ==
    /\ alive /\ reader = "read"
    /\ \/ m_client_fd = "closed"
       \/ toParent = <<>> /\ process # "running"
       \/ toParent # <<>> /\ Head(toParent).kind = "bad"
    /\ reader' = "fail"
    /\ UNCHANGED <<pendingVars, entry, crash, toChild, toParent, process, outsideReader>>

FailPending ==
    /\ alive /\ reader = "fail"
    /\ outcome' = [c \in Calls |-> IF c \in m_pending THEN "disconnected" ELSE outcome[c]]
    /\ m_pending' = {}
    /\ reader' = "detect"
    /\ UNCHANGED <<entry, crash, toChild, toParent, process, outsideReader>>

(* variant: an exit whose status was collected by another handler is ignored *)
VerdictOfStatus == CASE process \in {"reaped", "recycled"} -> "none"
                     [] process = "zombie" /\ exit = "zero" -> "none"
                     [] process = "zombie" /\ exit # "zero" -> "reported"
                     [] OTHER -> "overlooked"
(* variant: the closed socket alone is taken for a crash *)
VerdictOfSocket == "reported"

(* What the two waitpid(WNOHANG) calls make of the child.  ECHILD means that *)
(* someone else has reaped it.                                               *)
Verdict == CASE process \in {"reaped", "recycled"} -> "reported"
             [] process = "zombie" /\ exit = "zero" -> "none"
             [] process = "zombie" /\ exit # "zero" -> "reported"
             [] OTHER -> "overlooked"

DetectChildExit ==
    /\ alive /\ reader \in {"detect", "detectAgain"}
    /\ IF reader = "detect" /\ m_shutdown_initiated
       THEN reader' = "exit" /\ UNCHANGED <<crash, process>>
       ELSE IF process \in {"running", "closing"} /\ reader = "detect"
       THEN reader' = "detectAgain" /\ UNCHANGED <<crash, process>>
       ELSE /\ reader' = "exit" /\ crash' = Verdict
            /\ process' = IF process = "zombie" THEN "reaped" ELSE process
    /\ UNCHANGED <<pendingVars, entry, toChild, toParent, outsideReader>>

ReaderStep == TakeResponse \/ SetPromise \/ TakeRequest \/ SendAnswer \/ ReadFails
              \/ FailPending \/ DetectChildExit

-----------------------------------------------------------------------------
(* The owner: destroy_plugin(), backend_manager::shutdown(), ~PluginProcess() *)

(* The process is taken from the map under m_processes_mutex, so no call is  *)
(* being made.                                                               *)
Remove ==
    /\ alive /\ stage = "published" /\ step = "idle"
    /\ stage' = "removed"
    /\ UNCHANGED <<pendingVars, m_client_fd, luaVars, systemVars, outsideOwner>>

(* variant: the reader's socket is left open *)
LeaveOpen ==
    /\ alive /\ stage = "destroy"
    /\ stage' = "join"
    /\ UNCHANGED <<pendingVars, m_client_fd, luaVars, systemVars, outsideOwner>>

(* The destructor closes the socket, which wakes the reader if it blocks.    *)
Close ==
    /\ alive /\ stage = "destroy"
    /\ m_client_fd' = "closed" /\ stage' = "join"
    /\ UNCHANGED <<pendingVars, luaVars, systemVars, outsideOwner>>

(* variant: the reader is detached instead of joined *)
Detach ==
    /\ alive /\ stage = "join"
    /\ stage' = "kill"
    /\ UNCHANGED <<pendingVars, m_client_fd, luaVars, systemVars, outsideOwner>>

Join ==
    /\ alive /\ stage = "join" /\ reader = "exit"
    /\ stage' = "kill"
    /\ UNCHANGED <<pendingVars, m_client_fd, luaVars, systemVars, outsideOwner>>

(* fail anything still waiting for a response *)
Sweep ==
    /\ outcome' = [c \in Calls |-> IF c \in m_pending THEN "terminated" ELSE outcome[c]]
    /\ m_pending' = {}

(* The child ends: its Lua code stops where it is and its descriptors close. *)
Ends(how) ==
    /\ process' = "closing" /\ exit' = how
    /\ child' = "gone"

(* kill(m_pid, 0) finds a zombie too, and whoever has the pid now. *)
Kill ==
    /\ alive /\ stage = "kill"
    /\ IF process = "running" THEN Ends("signal") ELSE UNCHANGED <<child, systemVars>>
    /\ stage' = IF process = "reaped" THEN "gone" ELSE "reap"
    /\ IF process = "reaped" THEN Sweep ELSE UNCHANGED pendingVars
    /\ UNCHANGED <<m_client_fd, job, awaiting, said, m_deferred_notifications, m_connected,
                   g_on_unload_called, answer, delivered, unloads, outsideOwner>>

(* waitpid() without WNOHANG, then the last sweep over m_pending *)
Reap ==
    /\ alive /\ stage = "reap" /\ process \in {"zombie", "reaped", "recycled"}
    /\ process' = IF process = "zombie" THEN "reaped" ELSE process
    /\ stage' = "gone"
    /\ Sweep
    /\ UNCHANGED <<m_client_fd, luaVars, exit, outsideOwner>>

OwnerStep == Close \/ Join \/ Kill \/ Reap

-----------------------------------------------------------------------------
(* The child *)

ParentOpen == alive /\ m_client_fd = "open"
Say(frame) ==
    /\ ParentOpen => Room(toParent)
    /\ toParent' = IF ParentOpen THEN Append(toParent, frame) ELSE toParent
EndOfFile == toChild = <<>> /\ ~ParentOpen

(* main() reads INIT before anything else; without it the host exits with 1. *)
ReadInit ==
    /\ child = "start" /\ toChild # <<>>
    /\ job' = Head(toChild) /\ toChild' = Tail(toChild)
    /\ child' = "lua"
    /\ UNCHANGED <<awaiting, said, m_deferred_notifications, m_connected, g_on_unload_called,
                   answer, delivered, unloads, systemVars, toParent, outsideChild>>

NoInit ==
    /\ child = "start" /\ EndOfFile
    /\ Ends("nonzero")
    /\ UNCHANGED <<job, awaiting, said, m_deferred_notifications, m_connected,
                   g_on_unload_called, answer, delivered, unloads, toChild, toParent,
                   outsideChild>>

(* rpc_client::call() from Lua: PATCHES, READY, CALL_FRONTEND_METHOD,        *)
(* CONFIG_SET...; it throws at once when the write fails or failed before.   *)
LuaCalls ==
    /\ child = "lua" /\ awaiting = 0 /\ said < MaxSaid
    /\ said' = said + 1
    /\ Say(Frame("request", said', "none"))
    /\ m_connected' = (m_connected /\ ParentOpen)
    /\ awaiting' = IF m_connected' THEN said' ELSE 0
    /\ UNCHANGED <<child, job, m_deferred_notifications, g_on_unload_called, answer,
                   delivered, unloads, systemVars, toChild, outsideChild>>

(* logger calls are notifications; a frame of any kind may be too long *)
LuaLogs ==
    /\ child = "lua" /\ awaiting = 0 /\ said < MaxSaid
    /\ said' = said + 1
    /\ Say(Frame("notify", said', "none")) \/ (Oversized /\ Say(Frame("bad", said', "none")))
    /\ m_connected' = (m_connected /\ ParentOpen)
    /\ UNCHANGED <<child, job, awaiting, m_deferred_notifications, g_on_unload_called, answer,
                   delivered, unloads, systemVars, toChild, outsideChild>>

(* variant: a notification met in call() goes before those already deferred *)
DeferFirst(frame) == <<frame>> \o m_deferred_notifications
Defer(frame) == Append(m_deferred_notifications, frame)

(* call() reads frames until its response shows up: notifications are kept   *)
(* for later, a request of the parent is logged and forgotten.               *)
CallReads ==
    /\ child = "lua" /\ awaiting # 0 /\ toChild # <<>>
    /\ LET frame == Head(toChild) IN
       /\ awaiting' = IF (frame.kind = "response" /\ frame.id = awaiting) \/ frame.kind = "bad"
                      THEN 0 ELSE awaiting
       /\ m_connected' = (m_connected /\ frame.kind # "bad")
       /\ m_deferred_notifications' = IF frame.kind = "notify" THEN Defer(frame)
                                      ELSE m_deferred_notifications
    /\ toChild' = Tail(toChild)
    /\ UNCHANGED <<child, job, said, g_on_unload_called, answer, delivered, unloads, systemVars,
                   toParent, outsideChild>>

CallDisconnected ==
    /\ child = "lua" /\ awaiting # 0 /\ EndOfFile
    /\ awaiting' = 0 /\ m_connected' = FALSE
    /\ UNCHANGED <<child, job, said, m_deferred_notifications, g_on_unload_called, answer,
                   delivered, unloads, systemVars, toChild, toParent, outsideChild>>

(* The Lua code of a request returns and the response is written.  A plugin  *)
(* whose main file does not load makes the host exit with 1; main() writes   *)
(* the answer to INIT itself, and does not look whether it could.            *)
Responds(body) ==
    /\ child = "lua" /\ awaiting = 0 /\ job.kind = "request" /\ job # Unload
    /\ Say(Frame("response", job.id, body))
    /\ m_connected' = (m_connected /\ (ParentOpen \/ job.body = "init"))
    /\ answer' = [answer EXCEPT ![job.id] = body]
    /\ IF job.body = "init" /\ body = "error"
       THEN Ends("nonzero")
       ELSE child' = (IF job.body = "init" THEN "loop" ELSE "drain") /\ UNCHANGED systemVars
    /\ UNCHANGED <<job, awaiting, said, m_deferred_notifications, g_on_unload_called,
                   delivered, unloads, toChild, outsideChild>>

(* A notification or a coroutine ends.  The deferred notifications are       *)
(* drained after a frame, not after a coroutine.                             *)
NotificationDone ==
    /\ child = "lua" /\ awaiting = 0 /\ job.kind = "notify"
    /\ child' = IF job = Coroutine THEN "loop" ELSE "drain"
    /\ UNCHANGED <<job, awaiting, said, m_deferred_notifications, m_connected,
                   g_on_unload_called, answer, delivered, unloads, systemVars, toChild,
                   toParent, outsideChild>>

(* variant: the flag is not consulted *)
MustUnloadAgain == TRUE
(* handle_shutdown() calls on_unload the first time only. *)
MustUnload == ~g_on_unload_called

Runs(frame) ==
    /\ job' = frame
    /\ child' = "lua"
    /\ delivered' = IF frame.kind = "notify" THEN frame.id ELSE delivered
    /\ unloads' = IF frame.body = "shutdown" /\ MustUnload THEN unloads + 1 ELSE unloads
    /\ g_on_unload_called' = (g_on_unload_called \/ frame.body = "shutdown")

Drain ==
    /\ child = "drain"
    /\ IF m_deferred_notifications = <<>>
       THEN child' = "loop" /\ UNCHANGED <<job, delivered, unloads, g_on_unload_called,
                                           m_deferred_notifications>>
       ELSE /\ Runs(Head(m_deferred_notifications))
            /\ m_deferred_notifications' = Tail(m_deferred_notifications)
    /\ UNCHANGED <<awaiting, said, m_connected, answer, systemVars, toChild, toParent,
                   outsideChild>>

(* A response nobody waits for is ignored; a frame that is not one ends the  *)
(* loop.                                                                     *)
LoopReads ==
    /\ child = "loop" /\ m_connected /\ toChild # <<>>
    /\ CASE Head(toChild).kind \in {"request", "notify"} ->
              Runs(Head(toChild)) /\ UNCHANGED m_connected
         [] OTHER -> /\ m_connected' = (Head(toChild).kind # "bad")
                     /\ child' = "drain"
                     /\ UNCHANGED <<job, delivered, unloads, g_on_unload_called>>
    /\ toChild' = Tail(toChild)
    /\ UNCHANGED <<awaiting, said, m_deferred_notifications, answer, systemVars,
                   toParent, outsideChild>>

(* a coroutine that was started, or whose descriptor became readable *)
Resume ==
    /\ Coroutines /\ child = "loop" /\ m_connected /\ said < MaxSaid
    /\ job' = Coroutine /\ child' = "lua"
    /\ UNCHANGED <<awaiting, said, m_deferred_notifications, m_connected, g_on_unload_called,
                   answer, delivered, unloads, systemVars, toChild, toParent,
                   outsideChild>>

(* main() calls on_unload after the loop too, unless SHUTDOWN already has.   *)
LeaveLoop ==
    /\ child = "loop" /\ (~m_connected \/ EndOfFile)
    /\ IF MustUnload
       THEN Runs(Unload) /\ UNCHANGED systemVars
       ELSE Ends("zero") /\ UNCHANGED <<job, delivered, unloads, g_on_unload_called>>
    /\ m_connected' = FALSE
    /\ UNCHANGED <<awaiting, said, m_deferred_notifications, answer, toChild, toParent,
                   outsideChild>>

ExitsNormally ==
    /\ child = "lua" /\ awaiting = 0 /\ job = Unload
    /\ Ends("zero")
    /\ UNCHANGED <<job, awaiting, said, m_deferred_notifications, m_connected,
                   g_on_unload_called, answer, delivered, unloads, toChild, toParent,
                   outsideChild>>

ChildStep == ReadInit \/ NoInit \/ CallReads \/ CallDisconnected \/ NotificationDone
             \/ Responds("ok") \/ Drain \/ LoopReads \/ LeaveLoop \/ ExitsNormally

-----------------------------------------------------------------------------
(* The system *)

Crash ==
    /\ MayCrash /\ process = "running"
    /\ Ends("signal")
    /\ UNCHANGED <<job, awaiting, said, m_deferred_notifications, m_connected,
                   g_on_unload_called, answer, delivered, unloads, toChild, toParent,
                   outsideChild>>

(* The parent ends.  PR_SET_PDEATHSIG has the system send SIGTERM to the     *)
(* child, which installs no handler for it.                                  *)
ParentDies ==
    /\ ParentMayDie /\ alive
    /\ alive' = FALSE
    /\ UNCHANGED <<callVars, pendingVars, ownerVars, readerVars, luaVars, systemVars, toChild,
                   toParent, notified>>

ParentDeathSignal ==
    /\ ~alive /\ process = "running"
    /\ Ends("signal")
    /\ UNCHANGED <<job, awaiting, said, m_deferred_notifications, m_connected,
                   g_on_unload_called, answer, delivered, unloads, toChild, toParent,
                   outsideChild>>

(* The socket is closed before the process can be waited for.                *)
BecomesZombie ==
    /\ process = "closing"
    /\ process' = "zombie"
    /\ UNCHANGED <<luaVars, exit, toChild, toParent, outsideChild>>

(* Steam's own SIGCHLD handler *)
ReapedBySteam ==
    /\ process = "zombie"
    /\ process' = "reaped"
    /\ UNCHANGED <<luaVars, exit, toChild, toParent, outsideChild>>

PidRecycled ==
    /\ PidReuse /\ process = "reaped"
    /\ process' = "recycled"
    /\ UNCHANGED <<luaVars, exit, toChild, toParent, outsideChild>>

Next ==
    \/ CallStep \/ Evaluate \/ NotifyChild
    \/ ReaderStep \/ Served
    \/ Remove \/ OwnerStep
    \/ ChildStep \/ LuaCalls \/ LuaLogs \/ Responds("error") \/ Resume
    \/ Crash \/ ParentDies \/ ParentDeathSignal
    \/ BecomesZombie \/ ReapedBySteam \/ PidRecycled

(* The parent's threads run; the system lets a process that ends become a    *)
(* zombie and a process with a pending signal end.  Nothing is assumed of    *)
(* the handler of the child's requests (Served), which may wait for a lock   *)
(* or for the frontend, and nothing of the child: its Lua code may loop for  *)
(* ever and need not read.                                                   *)
Fairness ==
    /\ WF_vars(CallStep) /\ WF_vars(ReaderStep) /\ WF_vars(OwnerStep)
    /\ WF_vars(BecomesZombie) /\ WF_vars(ParentDeathSignal)

Spec == Init /\ [][Next]_vars
FairSpec == Spec /\ Fairness

-----------------------------------------------------------------------------
(* Properties *)

(* A caller gets the answer the child gave to this very call, although the   *)
(* socket also carries late answers to calls that were given up; and a call  *)
(* fails as disconnected only when the reader has left its loop.             *)
OutcomeJustified ==
    \A c \in Calls :
        /\ outcome[c] \in {"ok", "error"} => answer[c] = outcome[c]
        /\ returned[c] \in {"ok", "error"} => answer[c] = returned[c]
        /\ outcome[c] = "disconnected" => reader \in {"detect", "detectAgain", "exit"}

(* reader_thread_fn() sets a promise outside any try block, so that setting  *)
(* one twice would end the parent: no response, lost connection or           *)
(* destruction ever does.                                                    *)
PromiseOnce == [][\A c \in Calls : outcome[c] # "none" => outcome'[c] = outcome[c]]_vars

(* on_unload runs at most once, whether SHUTDOWN, the end of the socket or   *)
(* both make the child leave.                                                *)
UnloadOnce == unloads <= 1

(* Without coroutines the Lua code gets every notification that is read, in  *)
(* the order sent, even those that arrived while it waited in call(): the    *)
(* config values it is told of are never older than the ones it knows.       *)
InOrder == [][delivered' \in {delivered, delivered + 1}]_vars

(* detect_child_exit() reports a crash only of a child that is dead.         *)
CrashIsReal == crash = "reported" => process \in {"reaped", "recycled"}

(* When the PluginProcess is gone so are its reader, the promises it owed    *)
(* and the child itself.                                                     *)
DestroyedMeansGone ==
    stage = "gone" => /\ reader = "exit"
                      /\ m_pending = {}
                      /\ child = "gone" /\ process \in {"reaped", "recycled"}

(* A thread of the parent is in send_all(), which has no timeout: the child  *)
(* has its end open and does not read.                                       *)
WriteBlocked ==
    /\ process = "running" /\ m_client_fd = "open"
    /\ \/ step = "writing"
       \/ ~Room(toChild) /\ (step \in {"registered", "notify"} \/ reader = "answer")

(* Once its frame is in the socket call() returns whatever the child and the *)
(* reader do, and so does notify_child(): m_processes_mutex, which the       *)
(* caller holds meanwhile, is kept for ever only by a write that blocks for  *)
(* ever.  wait_for() comes after send_frame() and does not limit it.         *)
CallsReturn == []<>~WriteBlocked => ((step # "idle") ~> (step = "idle" \/ ~alive))

(* destroy_plugin() comes to its end even if the Lua code never returns,     *)
(* unless a write blocks for ever (shutdown() sends before it waits) or the  *)
(* reader it joins stays for ever in the handler of a request.               *)
DestroyEnds ==
    ([]<>~WriteBlocked /\ []<>(reader # "serve"))
        => ((stage = "removed") ~> (stage = "gone" \/ ~alive))

(* The death of a child in use is reported, or logged when the process could *)
(* not be waited for yet, unless the plugin is being shut down or the        *)
(* reader stays for ever in the handler of a request.                        *)
CrashNoticed ==
    []<>(reader # "serve")
        => ((stage = "published" /\ process = "closing" /\ exit \in {"signal", "nonzero"})
                ~> (crash # "none" \/ m_shutdown_initiated \/ ~alive))
=============================================================================
