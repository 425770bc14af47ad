-------------------------- MODULE BackendLifecycle --------------------------
(***************************************************************************)
(* When the frontend may start: plugin_loader (src/engine/                 *)
(* plugin_loader.cc) starts a child process per enabled backend through    *)
(* backend_manager (backend_mgr.cc), and backend_event_dispatcher          *)
(* (lifecycle.cc) runs the registered callbacks once as many backends have *)
(* reported as plugin_manager (plugin_manager.cc) says are enabled.        *)
(*                                                                         *)
(* The threads are Main, which runs cloude::entry(); Frontend, the pool    *)
(* thread that injects the frontend at each connection to Steam; Users,    *)
(* the threads of the FFI pool and of MEP clients that enable, disable or  *)
(* stop plugins; and one reader thread per child process, named by the     *)
(* process, on which the child's READY is handled.  Any of them may find   *)
(* itself running the callbacks.  The users are there as soon as           *)
(* cloude::entry() has started the MEP server, before the backends are.    *)
(* A process here is what PluginIpc models in detail.                      *)
(***************************************************************************)
EXTENDS Integers, FiniteSets

CONSTANTS
    Plugins,        \* plugins with a Lua backend
    Processes,      \* the child processes ever forked
    Users,
    Main, Frontend,
    None,           \* no process, no plugin
    MaxOps,         \* bound: operations of the users
    MaxConnects,    \* bound: connections to Steam
    Stops,          \* users also stop backends that stay enabled
    MayCrash        \* children may die by themselves

ASSUME NoneAssumption == None \notin Processes \cup Plugins
ASSUME ThreadsAssumption == Main # Frontend /\ {Main, Frontend} \cap (Users \cup Processes) = {}
ASSUME DisjointAssumption == Users \cap Processes = {}
ASSUME FiniteAssumption == IsFiniteSet(Plugins)
ASSUME BoundsAssumption == MaxOps \in Nat /\ MaxConnects \in Nat

Threads == {Main, Frontend} \cup Users \cup Processes
Callbacks == 0 .. MaxOps + MaxConnects      \* 0 is platform::wait_for_backend_load

VARIABLES
    enabled,         \* plugins.enabledPlugins of the config
    m_processes,     \* per plugin, its process
    life,            \* per process
    runs,            \* the plugin a process runs
    emittedPlugins,  \* per plugin, what it has reported
    listeners,       \* callbacks waiting for all backends
    registered,      \* callbacks ever registered
    ran,             \* how often each was run
    announced,       \* processes that have sent READY
    m_has_shutdown,
    ops,             \* operations users have begun
    connects,        \* connections to Steam so far
    pc,              \* where each thread is
    after,           \* where it goes on when update() returns
    todo,            \* plugins left in its present loop
    plan,            \* what a user asked for
    subject,         \* the plugin it works on
    proc,            \* the process it spawns or destroys
    event,           \* what it is about to record for subject
    seen,            \* the emittedPlugins it has searched
    flags,           \* the list of enabled plugins it has read
    counted,         \* the enabled backends it has counted
    taken            \* callbacksCopy of update()

configVars == <<enabled>>
processVars == <<m_processes, life, runs, announced>>
dispatchVars == <<emittedPlugins, listeners, registered, ran>>
countVars == <<m_has_shutdown, ops, connects>>
threadVars == <<pc, after, todo, plan, subject, proc, event, seen, flags, counted, taken>>
vars == <<configVars, processVars, dispatchVars, countVars, threadVars>>

Reports == {"absent", "success", "failed"}
Emitted == {p \in Plugins : emittedPlugins[p] # "absent"}
Blank == [p \in Plugins |-> "absent"]
NoPlan == [p \in {} |-> TRUE]
Plans == UNION {[S -> BOOLEAN] : S \in SUBSET Plugins}

(* The types, and the fact that m_processes names a process of the plugin    *)
(* it is filed under.                                                        *)
TypeOK ==
    /\ enabled \subseteq Plugins
    /\ m_processes \in [Plugins -> Processes \cup {None}]
    /\ \A p \in Plugins : m_processes[p] # None => runs[m_processes[p]] = p
    /\ life \in [Processes -> {"unborn", "loading", "up", "dead"}]
    /\ runs \in [Processes -> Plugins \cup {None}]
    /\ emittedPlugins \in [Plugins -> Reports]
    /\ listeners \subseteq registered /\ registered \subseteq Callbacks
    /\ ran \in [Callbacks -> Nat]
    /\ announced \subseteq Processes
    /\ m_has_shutdown \in BOOLEAN
    /\ ops \in 0 .. MaxOps /\ connects \in 0 .. MaxConnects
    /\ pc \in [Threads -> {"idle", "check", "compare", "take", "run", "find", "store", "spawn",
                           "wait", "serve", "flags", "writeFlag", "destroy", "stop", "unload",
                           "inject", "done"}]
    /\ after \in [Threads -> {"idle", "spawn", "destroy"}]
    /\ todo \in [Threads -> SUBSET Plugins]
    /\ plan \in [Threads -> Plans]
    /\ subject \in [Threads -> Plugins \cup {None}]
    /\ proc \in [Threads -> Processes \cup {None}]
    /\ event \in [Threads -> Reports]
    /\ seen \in [Threads -> [Plugins -> Reports]]
    /\ flags \in [Threads -> SUBSET Plugins]
    /\ counted \in [Threads -> SUBSET Plugins]
    /\ taken \in [Threads -> SUBSET Callbacks]

(* plugin_loader's constructor has registered wait_for_backend_load and      *)
(* called update(), which ran it if no backend is enabled; cloude::entry()   *)
(* has started the MEP server, so that users may come, and calls             *)
(* start_plugin_backends(), which loops over the backends enabled now.       *)
Init ==
    /\ enabled \in SUBSET Plugins
    /\ m_processes = [p \in Plugins |-> None]
    /\ life = [i \in Processes |-> "unborn"]
    /\ runs = [i \in Processes |-> None]
    /\ emittedPlugins = Blank
    /\ listeners = (IF enabled = {} THEN {} ELSE {0}) /\ registered = {0}
    /\ ran = [c \in Callbacks |-> IF c = 0 /\ enabled = {} THEN 1 ELSE 0]
    /\ announced = {}
    /\ m_has_shutdown = FALSE /\ ops = 0 /\ connects = 0
    /\ pc = [t \in Threads |-> IF t = Main THEN "spawn" ELSE "idle"]
    /\ after = [t \in Threads |-> IF t = Main THEN "spawn" ELSE "idle"]
    /\ todo = [t \in Threads |-> IF t = Main THEN enabled ELSE {}]
    /\ plan = [t \in Threads |-> NoPlan]
    /\ subject = [t \in Threads |-> None]
    /\ proc = [t \in Threads |-> None]
    /\ event = [t \in Threads |-> "absent"]
    /\ seen = [t \in Threads |-> Blank]
    /\ flags = [t \in Threads |-> {}]
    /\ counted = [t \in Threads |-> {}]
    /\ taken = [t \in Threads |-> {}]

Goto(t, where) == pc' = [pc EXCEPT ![t] = where]
Set(f, t, value) == [f EXCEPT ![t] = value]

-----------------------------------------------------------------------------
(* backend_event_dispatcher: update(), the handlers, registration *)

(* are_all_backends_ready() reads the number of enabled backends from the    *)
(* config and the plugin directories, and then compares another size to it.  *)
UpdateCounts(t) ==
    /\ pc[t] = "check"
    /\ counted' = Set(counted, t, enabled)
    /\ Goto(t, "compare")
    /\ UNCHANGED <<configVars, processVars, dispatchVars, countVars, after, todo, plan, subject,
                   proc, event, seen, flags, taken>>

AllReady(t) == Cardinality(Emitted) = Cardinality(counted[t])

UpdateChecks(t) ==
    /\ pc[t] = "compare"
    /\ Goto(t, IF AllReady(t) THEN "take" ELSE after[t])
    /\ counted' = Set(counted, t, {})
    /\ UNCHANGED <<configVars, processVars, dispatchVars, countVars, after, todo, plan, subject,
                   proc, event, seen, flags, taken>>

(* variant: the callbacks are copied and stay registered *)
CopyOnly == listeners
Cleared == {}

(* The callbacks are copied and removed under listenersMutex, and run after  *)
(* it was released.                                                          *)
UpdateTakes(t) ==
    /\ pc[t] = "take"
    /\ taken' = Set(taken, t, listeners)
    /\ listeners' = Cleared
    /\ Goto(t, "run")
    /\ UNCHANGED <<configVars, processVars, emittedPlugins, registered, ran, countVars,
                   after, todo, plan, subject, proc, event, seen, flags,
                   counted>>

RunsCallback(t, c) ==
    /\ pc[t] = "run" /\ c \in taken[t]
    /\ taken' = Set(taken, t, taken[t] \ {c})
    /\ ran' = Set(ran, c, ran[c] + 1)
    /\ UNCHANGED <<configVars, processVars, emittedPlugins, listeners, registered,
                   countVars, pc, after, todo, plan, subject, proc, event, seen, flags,
                   counted>>

UpdateReturns(t) ==
    /\ pc[t] = "run" /\ taken[t] = {}
    /\ Goto(t, after[t])
    /\ UNCHANGED <<configVars, processVars, dispatchVars, countVars, after, todo, plan, subject,
                   proc, event, seen, flags, counted, taken>>

(* backend_loaded_event_hdlr() searches the vector and then changes it, both *)
(* without listenersMutex.  Two threads in it, or one in it and one in       *)
(* backend_unloaded_event_hdlr(), race: the later write wins.                *)
LoadedFinds(t) ==
    /\ pc[t] = "find"
    /\ seen' = Set(seen, t, emittedPlugins)
    /\ Goto(t, "store")
    /\ UNCHANGED <<configVars, processVars, dispatchVars, countVars, after, todo, plan, subject,
                   proc, event, flags, counted, taken>>

LoadedStores(t) ==
    /\ pc[t] = "store"
    /\ emittedPlugins' = Set(seen[t], subject[t], event[t])
    /\ seen' = Set(seen, t, Blank) /\ event' = Set(event, t, "absent")
    /\ subject' = Set(subject, t, None)
    /\ Goto(t, "check")
    /\ UNCHANGED <<configVars, processVars, listeners, registered, ran, countVars, after,
                   todo, plan, proc, flags, counted, taken>>

(* variant: update() before the callback is in the list *)
RegisterLate(t) ==
    /\ registered' = registered \cup {Cardinality(registered)}
    /\ listeners' = listeners \cup {Cardinality(registered)}
    /\ Goto(t, "idle") /\ after' = Set(after, t, "idle")

(* on_all_backends_ready(): in the list first, then update() *)
RegisterCallback(t) ==
    /\ registered' = registered \cup {Cardinality(registered)}
    /\ listeners' = listeners \cup {Cardinality(registered)}
    /\ Goto(t, "check") /\ after' = Set(after, t, "idle")

-----------------------------------------------------------------------------
(* backend_manager::spawn_plugin(), in the loops of start_plugin_backends()  *)
(* and set_plugins_enabled()                                                 *)

IsRunning(p) == m_processes[p] # None /\ life[m_processes[p]] \in {"loading", "up"}

SkipsRunning(t, p) ==
    /\ pc[t] = "spawn" /\ p \in todo[t] /\ IsRunning(p)
    /\ todo' = Set(todo, t, todo[t] \ {p})
    /\ UNCHANGED <<configVars, processVars, dispatchVars, countVars, pc, after, plan, subject,
                   proc, event, seen, flags, counted, taken>>

Forks(t, p, i) ==
    /\ pc[t] = "spawn" /\ p \in todo[t] /\ ~IsRunning(p) /\ life[i] = "unborn"
    /\ todo' = Set(todo, t, todo[t] \ {p})
    /\ life' = Set(life, i, "loading") /\ runs' = Set(runs, i, p)
    /\ subject' = Set(subject, t, p) /\ proc' = Set(proc, t, i)
    /\ Goto(t, "wait")
    /\ UNCHANGED <<configVars, m_processes, announced, dispatchVars, countVars, after,
                   plan, event, seen, flags, counted, taken>>

(* variant: the name is kept in a place all threads share *)
FiledUnderLast(t) == Set(m_processes, subject[Main], proc[t])
Filed(t) == Set(m_processes, subject[t], proc[t])

(* INIT was answered.  A process already filed under the name is destroyed   *)
(* by the assignment.                                                        *)
Publishes(t) ==
    /\ pc[t] = "wait" /\ life[proc[t]] = "up"
    /\ LET old == m_processes[subject[t]] IN
       /\ old # None => pc[old] = "idle"
       /\ life' = IF old = None THEN life ELSE Set(life, old, "dead")
    /\ m_processes' = Filed(t)
    /\ Goto(t, "spawn")
    /\ subject' = Set(subject, t, None) /\ proc' = Set(proc, t, None)
    /\ UNCHANGED <<configVars, runs, announced, dispatchVars, countVars, after, todo,
                   plan, event, seen, flags, counted, taken>>

(* variant: a child that does not answer INIT in time is left to itself *)
Abandoned(t) == life
Destroyed(t) == Set(life, proc[t], "dead")

(* fork, accept or INIT fails or times out: the process is destroyed, which  *)
(* joins its reader, and the failure is recorded.                            *)
SpawnFails(t) ==
    /\ pc[t] = "wait" /\ life[proc[t]] \in {"loading", "dead"} /\ pc[proc[t]] = "idle"
    /\ life' = Destroyed(t)
    /\ proc' = Set(proc, t, None)
    /\ event' = Set(event, t, "failed") /\ after' = Set(after, t, "spawn")
    /\ Goto(t, "find")
    /\ UNCHANGED <<configVars, m_processes, runs, announced, dispatchVars, countVars,
                   todo, plan, subject, seen, flags, counted, taken>>

SpawnsAll(t) ==
    /\ pc[t] = "spawn" /\ todo[t] = {}
    /\ Goto(t, IF t = Main THEN "serve" ELSE "inject")
    /\ UNCHANGED <<configVars, processVars, dispatchVars, countVars, after, todo, plan, subject,
                   proc, event, seen, flags, counted, taken>>

SpawnStep(t) == Publishes(t) \/ SpawnFails(t) \/ SpawnsAll(t)
                \/ \E p \in Plugins : SkipsRunning(t, p) \/ (\E i \in Processes : Forks(t, p, i))

UpdateStep(t) == UpdateCounts(t) \/ UpdateChecks(t) \/ UpdateTakes(t) \/ UpdateReturns(t)
                 \/ LoadedFinds(t) \/ LoadedStores(t) \/ \E c \in Callbacks : RunsCallback(t, c)

-----------------------------------------------------------------------------
(* The child processes and their reader threads *)

Unwatched == <<configVars, dispatchVars, countVars, after, todo, plan, proc, seen, flags,
               counted, taken>>

(* on_load has returned and INIT is answered *)
Loads(i) ==
    /\ life[i] = "loading"
    /\ life' = Set(life, i, "up")
    /\ UNCHANGED <<m_processes, runs, announced, pc, subject, event, Unwatched>>

(* READY, sent from the main file, from on_load or later *)
Ready(i) ==
    /\ life[i] \in {"loading", "up"} /\ pc[i] = "idle" /\ i \notin announced
    /\ announced' = announced \cup {i}
    /\ subject' = Set(subject, i, runs[i]) /\ event' = Set(event, i, "success")
    /\ Goto(i, "find")
    /\ UNCHANGED <<m_processes, life, runs, Unwatched>>

Crashes(i) ==
    /\ MayCrash /\ life[i] \in {"loading", "up"}
    /\ life' = Set(life, i, "dead")
    /\ UNCHANGED <<m_processes, runs, announced, pc, subject, event, Unwatched>>

-----------------------------------------------------------------------------
(* The users: set_plugins_enabled(), destroy_plugin() *)

ChangesStatus(u, wish) ==
    /\ pc[u] = "idle" /\ ops < MaxOps /\ DOMAIN wish # {}
    /\ ops' = ops + 1
    /\ plan' = Set(plan, u, wish) /\ todo' = Set(todo, u, DOMAIN wish)
    /\ Goto(u, "flags")
    /\ UNCHANGED <<configVars, processVars, dispatchVars, m_has_shutdown, connects, after,
                   subject, proc, event, seen, flags, counted, taken>>

(* plugin.stop of MEP, Core_KillPluginBackend: destroy_plugin() alone *)
StopsPlugin(u, p) ==
    /\ Stops /\ pc[u] = "idle" /\ ops < MaxOps
    /\ ops' = ops + 1
    /\ plan' = Set(plan, u, NoPlan) /\ todo' = Set(todo, u, {p})
    /\ Goto(u, "destroy")
    /\ UNCHANGED <<configVars, processVars, dispatchVars, m_has_shutdown, connects, after,
                   subject, proc, event, seen, flags, counted, taken>>

(* plugin_manager::set_plugin_enabled() reads the list and writes it back.   *)
ReadsFlags(u, p) ==
    /\ pc[u] = "flags" /\ p \in todo[u]
    /\ subject' = Set(subject, u, p) /\ flags' = Set(flags, u, enabled)
    /\ Goto(u, "writeFlag")
    /\ UNCHANGED <<configVars, processVars, dispatchVars, countVars, after, todo, plan, proc,
                   event, seen, counted, taken>>

ToDisable(u) == {p \in DOMAIN plan[u] : ~plan[u][p]}
ToEnable(u) == {p \in DOMAIN plan[u] : plan[u][p]}

WritesFlag(u) ==
    /\ pc[u] = "writeFlag"
    /\ LET p == subject[u]
           left == todo[u] \ {p}
       IN /\ enabled' = IF plan[u][p] THEN flags[u] \cup {p} ELSE flags[u] \ {p}
          /\ todo' = Set(todo, u, IF left = {} THEN ToDisable(u) ELSE left)
          /\ Goto(u, IF left = {} THEN "destroy" ELSE "flags")
    /\ flags' = Set(flags, u, {})
    /\ UNCHANGED <<processVars, dispatchVars, countVars, after, plan, subject, proc, event, seen,
                   counted, taken>>

Erased(p) == Set(m_processes, p, None)

(* destroy_plugin() takes the process out of the map under the mutex ...     *)
TakesOut(u, p) ==
    /\ pc[u] = "destroy" /\ p \in todo[u]
    /\ todo' = Set(todo, u, todo[u] \ {p})
    /\ subject' = Set(subject, u, p) /\ proc' = Set(proc, u, m_processes[p])
    /\ m_processes' = Erased(p)
    /\ Goto(u, IF m_processes[p] = None THEN "unload" ELSE "stop")
    /\ UNCHANGED <<configVars, life, runs, announced, dispatchVars, countVars, after,
                   plan, event, seen, flags, counted, taken>>

(* ... shuts it down and destroys it, which joins its reader ...             *)
StopsProcess(u) ==
    /\ pc[u] = "stop" /\ pc[proc[u]] = "idle"
    /\ life' = Set(life, proc[u], "dead")
    /\ proc' = Set(proc, u, None)
    /\ Goto(u, "unload")
    /\ UNCHANGED <<configVars, m_processes, runs, announced, dispatchVars, countVars, after,
                   todo, plan, subject, event, seen, flags, counted, taken>>

(* ... and forgets what the plugin had reported, even without a process.     *)
Unloads(u) ==
    /\ pc[u] = "unload"
    /\ emittedPlugins' = Set(emittedPlugins, subject[u], "absent")
    /\ subject' = Set(subject, u, None)
    /\ after' = Set(after, u, "destroy")
    /\ Goto(u, "check")
    /\ UNCHANGED <<configVars, processVars, listeners, registered, ran, countVars, todo,
                   plan, proc, event, seen, flags, counted, taken>>

(* what set_plugins_enabled() spawns: asked for, and enabled in the list     *)
(* that was just read again                                                  *)
ToSpawn(u) == ToEnable(u) \cap enabled

(* The new list is assigned to the vector that start_plugin_backends() walks *)
(* through, without a lock: in that case Main may meet any of the plugins of *)
(* both lists, again or not at all.                                          *)
MainMeets ==
    IF pc[Main] \in {"serve", "done"} THEN {todo[Main]} ELSE SUBSET (todo[Main] \cup enabled)

DestroysAll(u) ==
    /\ pc[u] = "destroy" /\ todo[u] = {}
    /\ IF DOMAIN plan[u] = {} THEN Goto(u, "idle") /\ UNCHANGED todo
       ELSE /\ Goto(u, "spawn")
            /\ \E rest \in MainMeets : todo' = [todo EXCEPT ![u] = ToSpawn(u), ![Main] = rest]
    /\ UNCHANGED <<configVars, processVars, dispatchVars, countVars, after, plan, subject, proc,
                   event, seen, flags, counted, taken>>

UserStep(u) ==
    \/ WritesFlag(u) \/ StopsProcess(u) \/ Unloads(u) \/ DestroysAll(u)
    \/ \E p \in Plugins : ReadsFlags(u, p) \/ TakesOut(u, p)

(* inject_frontend_shims(): at the end of set_plugins_enabled(), and on the  *)
(* pool thread when SharedJSContext was found after a connection, which Main *)
(* makes when start_plugin_backends() has returned                           *)
Injects(t) ==
    /\ \/ pc[t] = "inject" /\ UNCHANGED connects
       \/ /\ t = Frontend /\ pc[t] = "idle" /\ connects < MaxConnects
          /\ pc[Main] \in {"serve", "done"}
          /\ connects' = connects + 1
    /\ RegisterCallback(t)
    /\ plan' = Set(plan, t, NoPlan)
    /\ UNCHANGED <<configVars, processVars, emittedPlugins, ran, m_has_shutdown, ops, todo,
                   subject, proc, event, seen, flags, counted, taken>>

(* plugin_loader::shutdown(): every process of the map is shut down, then    *)
(* the map is cleared, which joins the readers.                              *)
Shutdown ==
    /\ pc[Main] = "serve"
    /\ \A p \in Plugins : m_processes[p] # None => pc[m_processes[p]] = "idle"
    /\ m_has_shutdown' = TRUE
    /\ life' = [i \in Processes |-> IF \E p \in Plugins : m_processes[p] = i THEN "dead"
                                    ELSE life[i]]
    /\ m_processes' = [p \in Plugins |-> None]
    /\ Goto(Main, "done")
    /\ UNCHANGED <<configVars, runs, announced, dispatchVars, ops, connects, after, todo,
                   plan, subject, proc, event, seen, flags, counted, taken>>

Next ==
    \/ \E t \in Threads : UpdateStep(t)
    \/ \E t \in {Main} \cup Users : SpawnStep(t)
    \/ \E i \in Processes : Loads(i) \/ Ready(i) \/ Crashes(i)
    \/ \E u \in Users, wish \in Plans : ChangesStatus(u, wish)
    \/ \E u \in Users, p \in Plugins : StopsPlugin(u, p)
    \/ \E u \in Users : UserStep(u)
    \/ \E t \in {Frontend} \cup Users : Injects(t)
    \/ Shutdown

Spec == Init /\ [][Next]_vars

-----------------------------------------------------------------------------
(* Properties *)

(* nobody is inside an operation of the loader or of the dispatcher *)
Quiet == \A t \in Threads : pc[t] \in {"idle", "serve", "done"}

(* A callback is run at most once, whichever threads meet in update().       *)
CallbackOnce == \A c \in Callbacks : ran[c] <= 1

(* No wakeup is lost between registration, reports, unloads and changes of   *)
(* the config: when everyone is done and callbacks still wait, the sizes     *)
(* differ.                                                                   *)
NoMissedDispatch ==
    Quiet /\ listeners # {} => Cardinality(Emitted) # Cardinality(enabled)

(* The comment in inject_frontend_shims(): the backends are loaded before    *)
(* the frontend.  update() goes on to run callbacks only when every backend  *)
(* it has counted has reported, be it a failure.                             *)
BackendsBeforeFrontend ==
    [][\A t \in Threads :
          pc[t] = "compare" /\ pc'[t] = "take" => counted[t] \subseteq Emitted]_vars

(* Every running child has an owner that will destroy it, the map, the       *)
(* thread that starts it or the thread that stops it, whatever starts, stops *)
(* and shutdowns of one plugin meet: none is left to run without one.        *)
Owned(i) ==
    \/ \E p \in Plugins : m_processes[p] = i
    \/ \E t \in {Main} \cup Users : proc[t] = i /\ pc[t] \in {"wait", "stop"}
ChildrenOwned == \A i \in Processes : life[i] \in {"loading", "up"} => Owned(i)
=============================================================================
