----------------------- MODULE BackendLifecycleProofs -----------------------
(***************************************************************************)
(* Proofs about BackendLifecycle, for any number of plugins, processes,    *)
(* users, operations and connections: the types, that update() runs no     *)
(* callback twice, that no wakeup is lost and that every running child has *)
(* an owner.                                                               *)
(*                                                                         *)
(* None is inductive as it stands.  The facts that carry them:             *)
(*   Dispatching  a callback is in one place only: not yet registered,     *)
(*                waiting in listeners, held by one thread in              *)
(*                callbacksCopy, or run;                                   *)
(*   Filing       the thread that waits for a process, and m_processes,    *)
(*                know the plugin it runs;                                 *)
(*   Committed    a user in set_plugins_enabled() is bound to inject;      *)
(*   Budget       callbacks registered and still to be registered number   *)
(*                no more than operations and connections;                 *)
(*   Owed         callbacks that could be run are some thread's duty.      *)
(***************************************************************************)
EXTENDS BackendLifecycle, FiniteSetTheorems, TLAPS

Dispatching ==
    /\ \E n \in Nat : registered = 0 .. n - 1
    /\ listeners \subseteq registered
    /\ taken \in [Threads -> SUBSET registered]
    /\ ran \in [Callbacks -> {0, 1}]
    /\ \A t \in Threads : listeners \cap taken[t] = {}
    /\ \A t, u \in Threads : t # u => taken[t] \cap taken[u] = {}
    /\ \A c \in Callbacks : c \in listeners => ran[c] = 0
    /\ \A c \in Callbacks : c \notin registered => ran[c] = 0
    /\ \A t \in Threads, c \in Callbacks : c \in taken[t] => ran[c] = 0

-----------------------------------------------------------------------------
(* the number of a new callback *)
LEMMA NextCallback ==
    ASSUME NEW n \in Nat
    PROVE  Cardinality(0 .. n - 1) = n
<1>1. CASE n = 0
    BY <1>1, FS_Interval
<1>2. CASE n # 0
    BY <1>2, FS_Interval
<1> QED
    BY <1>1, <1>2

(* Only update() and on_all_backends_ready() move callbacks.                 *)
LEMMA DispatchingInductive == Dispatching /\ [Next]_vars => Dispatching'
<1> SUFFICES ASSUME Dispatching, [Next]_vars PROVE Dispatching'
    OBVIOUS
<1> USE DEF configVars, processVars, dispatchVars, countVars, threadVars, Unwatched
<1>1. ASSUME UNCHANGED <<listeners, registered, ran, taken>> PROVE Dispatching'
    BY <1>1 DEF Dispatching
<1>2. ASSUME NEW t \in Threads, UpdateTakes(t) PROVE Dispatching'
  <2>1. /\ taken' = [taken EXCEPT ![t] = listeners] /\ listeners' = {}
        /\ UNCHANGED <<registered, ran>>
      BY <1>2 DEF UpdateTakes, Set, Cleared
  <2> QED
      BY <2>1 DEF Dispatching
<1>3. ASSUME NEW t \in Threads, NEW c \in Callbacks, RunsCallback(t, c) PROVE Dispatching'
  <2>1. /\ c \in taken[t]
        /\ taken' = [taken EXCEPT ![t] = taken[t] \ {c}]
        /\ ran' = [ran EXCEPT ![c] = ran[c] + 1]
        /\ UNCHANGED <<listeners, registered>>
      BY <1>3 DEF RunsCallback, Set
  <2>2. ran[c] = 0
      BY <2>1 DEF Dispatching
  <2>3. /\ c \in taken[t]
        /\ taken' = [taken EXCEPT ![t] = taken[t] \ {c}]
        /\ ran' = [ran EXCEPT ![c] = 1]
        /\ UNCHANGED <<listeners, registered>>
      BY <2>1, <2>2
  <2>4. ran' \in [Callbacks -> {0, 1}] /\ taken' \in [Threads -> SUBSET registered]
      BY <2>3 DEF Dispatching
  <2>5. /\ c \in registered /\ c \notin listeners
        /\ \A u \in Threads : c \notin taken'[u]
      BY <2>3 DEF Dispatching
  <2>6. \A u \in Threads : taken'[u] \subseteq taken[u]
      BY <2>3 DEF Dispatching
  <2>7. \A d \in Callbacks : d # c => ran'[d] = ran[d]
      BY <2>3 DEF Dispatching
  <2> QED
      BY <2>3, <2>4, <2>5, <2>6, <2>7 DEF Dispatching
<1>4. ASSUME NEW t, RegisterCallback(t), UNCHANGED <<ran, taken>> PROVE Dispatching'
  <2>1. PICK n \in Nat : registered = 0 .. n - 1
      BY DEF Dispatching
  <2>2. registered' = registered \cup {n} /\ listeners' = listeners \cup {n}
      BY <1>4, <2>1, NextCallback DEF RegisterCallback
  <2>3. n \notin registered /\ registered' = 0 .. (n + 1) - 1
      BY <2>1, <2>2
  <2>4. /\ listeners' \subseteq registered' /\ taken' \in [Threads -> SUBSET registered']
        /\ \E k \in Nat : registered' = 0 .. k - 1
    <3>1. n + 1 \in Nat
        OBVIOUS
    <3> QED
        BY <1>4, <2>2, <2>3, <3>1 DEF Dispatching
  <2>5. \A u \in Threads : listeners' \cap taken'[u] = {}
      BY <1>4, <2>2, <2>3 DEF Dispatching
  <2>6. \A c \in Callbacks : (c \in listeners' => ran'[c] = 0)
                           /\ (c \notin registered' => ran'[c] = 0)
      BY <1>4, <2>2, <2>3 DEF Dispatching
  <2> QED
      BY <1>4, <2>4, <2>5, <2>6 DEF Dispatching
<1>5. ASSUME NEW t \in Threads, UpdateStep(t) PROVE Dispatching'
    BY <1>5, <1>1, <1>2, <1>3 DEF UpdateStep, UpdateCounts, UpdateChecks, UpdateReturns,
          LoadedFinds, LoadedStores
<1>6. ASSUME NEW t, SpawnStep(t) PROVE Dispatching'
    BY <1>6, <1>1 DEF SpawnStep, Publishes, SpawnFails, SpawnsAll, SkipsRunning, Forks
<1>7. ASSUME NEW i, Loads(i) \/ Ready(i) \/ Crashes(i) PROVE Dispatching'
    BY <1>7, <1>1 DEF Loads, Ready, Crashes
<1>8. ASSUME NEW u, NEW wish, ChangesStatus(u, wish) PROVE Dispatching'
    BY <1>8, <1>1 DEF ChangesStatus
<1>9. ASSUME NEW u, NEW p, StopsPlugin(u, p) PROVE Dispatching'
    BY <1>9, <1>1 DEF StopsPlugin
<1>10. ASSUME NEW u, UserStep(u) PROVE Dispatching'
    BY <1>10, <1>1 DEF UserStep, WritesFlag, StopsProcess, Unloads, DestroysAll, ReadsFlags,
          TakesOut
<1>11. ASSUME NEW t, Injects(t) PROVE Dispatching'
    BY <1>11, <1>4 DEF Injects
<1>12. CASE Shutdown \/ UNCHANGED vars
    BY <1>12, <1>1 DEF Shutdown, vars
<1> QED
    BY <1>5, <1>6, <1>7, <1>8, <1>9, <1>10, <1>11, <1>12 DEF Next

(* A callback that waits for all backends, and so the injection of the       *)
(* frontend, is run at most once, whichever threads meet in update() and     *)
(* however the config and the reports change meanwhile.                      *)
THEOREM CallbacksRunOnce == Spec => []CallbackOnce
<1>1. Init => Dispatching
  <2> SUFFICES ASSUME Init PROVE Dispatching
      OBVIOUS
  <2>1. registered = 0 .. 1 - 1 /\ listeners \subseteq registered
      BY DEF Init
  <2>2. /\ taken = [t \in Threads |-> {}] /\ ran \in [Callbacks -> {0, 1}]
        /\ \A c \in Callbacks : c \in listeners \/ c \notin registered => ran[c] = 0
      BY DEF Init
  <2> QED
      BY <2>1, <2>2 DEF Dispatching
<1>2. Dispatching => CallbackOnce
    BY DEF Dispatching, CallbackOnce
<1> QED
    BY <1>1, <1>2, DispatchingInductive, PTL DEF Spec

-----------------------------------------------------------------------------
(* Types *)

Positions == {"idle", "check", "compare", "take", "run", "find", "store", "spawn", "wait",
              "serve", "flags", "writeFlag", "destroy", "stop", "unload", "inject", "done"}

(* TypeOK without the callbacks and the filing of processes, and that a user *)
(* about to write a flag has a plugin in mind.                               *)
Typing ==
    /\ enabled \subseteq Plugins
    /\ m_processes \in [Plugins -> Processes \cup {None}]
    /\ life \in [Processes -> {"unborn", "loading", "up", "dead"}]
    /\ runs \in [Processes -> Plugins \cup {None}]
    /\ emittedPlugins \in [Plugins -> Reports]
    /\ announced \subseteq Processes
    /\ m_has_shutdown \in BOOLEAN
    /\ ops \in 0 .. MaxOps /\ connects \in 0 .. MaxConnects
    /\ pc \in [Threads -> Positions]
    /\ after \in [Threads -> {"idle", "spawn", "destroy"}]
    /\ todo \in [Threads -> SUBSET Plugins]
    /\ plan \in [Threads -> Plans]
    /\ subject \in [Threads -> Plugins \cup {None}]
    /\ \A t \in Threads : pc[t] = "writeFlag" => subject[t] \in Plugins
    /\ proc \in [Threads -> Processes \cup {None}]
    /\ event \in [Threads -> Reports]
    /\ seen \in [Threads -> [Plugins -> Reports]]
    /\ flags \in [Threads -> SUBSET Plugins]
    /\ counted \in [Threads -> SUBSET Plugins]

LEMMA PlanFacts ==
    /\ NoPlan \in Plans /\ DOMAIN NoPlan = {}
    /\ \A f \in Plans : DOMAIN f \subseteq Plugins
<1>1. NoPlan \in [{} -> BOOLEAN] /\ {} \in SUBSET Plugins
    BY DEF NoPlan
<1> QED
    BY <1>1 DEF Plans, NoPlan

LEMMA NextTyping == Typing /\ [Next]_vars => Typing'
<1> SUFFICES ASSUME Typing, [Next]_vars PROVE Typing'
    OBVIOUS
<1> USE DEF configVars, processVars, dispatchVars, countVars, threadVars, Unwatched, Set, Goto
<1>1. ASSUME NEW t \in Threads, UpdateStep(t) PROVE Typing'
  <2>1. CASE UpdateCounts(t)
      BY <2>1 DEF UpdateCounts, Typing, Positions
  <2>2. CASE UpdateChecks(t)
    <3>1. pc' \in [Threads -> Positions] /\ \A r \in Threads : pc'[r] = "writeFlag" => pc[r] = "writeFlag"
        BY <2>2 DEF UpdateChecks, Typing, Positions
    <3> QED
        BY <2>2, <3>1 DEF UpdateChecks, Typing
  <2>3. CASE UpdateTakes(t) \/ UpdateReturns(t) \/ \E c \in Callbacks : RunsCallback(t, c)
    <3>1. CASE UpdateTakes(t)
        BY <3>1 DEF UpdateTakes, Typing, Positions
    <3>2. CASE UpdateReturns(t)
        BY <3>2 DEF UpdateReturns, Typing, Positions
    <3>3. ASSUME NEW c \in Callbacks, RunsCallback(t, c) PROVE Typing'
        BY <3>3 DEF RunsCallback, Typing
    <3> QED
        BY <2>3, <3>1, <3>2, <3>3
  <2>4. CASE LoadedFinds(t)
      BY <2>4 DEF LoadedFinds, Typing, Positions
  <2>5. CASE LoadedStores(t)
    <3>1. Blank \in [Plugins -> Reports] /\ "absent" \in Reports
        BY DEF Blank, Reports
    <3>2. emittedPlugins' \in [Plugins -> Reports]
        BY <2>5 DEF LoadedStores, Typing
    <3> QED
        BY <2>5, <3>1, <3>2 DEF LoadedStores, Typing, Positions
  <2> QED
      BY <1>1, <2>1, <2>2, <2>3, <2>4, <2>5 DEF UpdateStep
<1>2. ASSUME NEW t \in {Main} \cup Users, SpawnStep(t) PROVE Typing'
  <2> t \in Threads
      BY DEF Threads
  <2>1. CASE Publishes(t)
      BY <2>1 DEF Publishes, Filed, Typing, Positions
  <2>2. CASE SpawnFails(t)
      BY <2>2 DEF SpawnFails, Destroyed, Typing, Positions, Reports
  <2>3. CASE SpawnsAll(t)
      BY <2>3 DEF SpawnsAll, Typing, Positions
  <2>4. ASSUME NEW p \in Plugins, SkipsRunning(t, p) PROVE Typing'
      BY <2>4 DEF SkipsRunning, Typing, Positions
  <2>5. ASSUME NEW p \in Plugins, NEW i \in Processes, Forks(t, p, i) PROVE Typing'
      BY <2>5 DEF Forks, Typing, Positions
  <2> QED
      BY <1>2, <2>1, <2>2, <2>3, <2>4, <2>5 DEF SpawnStep
<1>3. ASSUME NEW i \in Processes, Loads(i) \/ Ready(i) \/ Crashes(i)
      PROVE  Typing'
  <2> i \in Threads
      BY DEF Threads
  <2>1. CASE Loads(i)
      BY <2>1 DEF Loads, Typing
  <2>3. CASE Ready(i)
      BY <2>3 DEF Ready, Typing, Positions, Reports
  <2>4. CASE Crashes(i)
      BY <2>4 DEF Crashes, Typing
  <2> QED
      BY <1>3, <2>1, <2>3, <2>4
<1>4. ASSUME NEW u \in Users, NEW wish \in Plans, ChangesStatus(u, wish) PROVE Typing'
  <2> u \in Threads
      BY DEF Threads
  <2> QED
      BY <1>4, PlanFacts, BoundsAssumption DEF ChangesStatus, Typing, Positions
<1>5. ASSUME NEW u \in Users, NEW p \in Plugins, StopsPlugin(u, p) PROVE Typing'
  <2> u \in Threads
      BY DEF Threads
  <2> QED
      BY <1>5, PlanFacts, BoundsAssumption DEF StopsPlugin, Typing, Positions
<1>6. ASSUME NEW u \in Users, UserStep(u) PROVE Typing'
  <2> u \in Threads
      BY DEF Threads
  <2>1. CASE WritesFlag(u)
    <3>1. subject[u] \in Plugins /\ flags[u] \subseteq Plugins
        BY <2>1 DEF WritesFlag, Typing
    <3>2. enabled' \subseteq Plugins
        BY <2>1, <3>1 DEF WritesFlag
    <3>3. ToDisable(u) \subseteq Plugins
        BY PlanFacts DEF ToDisable, Typing
    <3>4. todo' \in [Threads -> SUBSET Plugins]
        BY <2>1, <3>3 DEF WritesFlag, Typing
    <3>5. pc' \in [Threads -> Positions] /\ \A r \in Threads : pc'[r] = "writeFlag" => pc[r] = "writeFlag"
        BY <2>1 DEF WritesFlag, Typing, Positions
    <3>6. flags' \in [Threads -> SUBSET Plugins]
        BY <2>1 DEF WritesFlag, Typing
    <3> QED
        BY <2>1, <3>2, <3>4, <3>5, <3>6 DEF WritesFlag, Typing
  <2>2. CASE StopsProcess(u)
      BY <2>2 DEF StopsProcess, Typing, Positions
  <2>3. CASE Unloads(u)
      BY <2>3 DEF Unloads, Typing, Positions, Reports
  <2>4. CASE DestroysAll(u)
    <3>1. ToSpawn(u) \subseteq Plugins
        BY DEF ToSpawn, Typing
    <3>2. CASE DOMAIN plan[u] = {}
        BY <2>4, <3>2 DEF DestroysAll, Typing, Positions
    <3>3. CASE DOMAIN plan[u] # {}
      <4>1. PICK rest \in SUBSET Plugins :
                /\ pc' = [pc EXCEPT ![u] = "spawn"]
                /\ todo' = [todo EXCEPT ![u] = ToSpawn(u), ![Main] = rest]
          BY <2>4, <3>3 DEF DestroysAll, MainMeets, Typing, Threads
      <4>2. pc' \in [Threads -> Positions] /\ todo' \in [Threads -> SUBSET Plugins]
          BY <3>1, <4>1 DEF Typing, Positions
      <4> QED
          BY <2>4, <4>1, <4>2 DEF DestroysAll, Typing
    <3> QED
        BY <3>2, <3>3
  <2>5. ASSUME NEW p \in Plugins, ReadsFlags(u, p) PROVE Typing'
      BY <2>5 DEF ReadsFlags, Typing, Positions
  <2>6. ASSUME NEW p \in Plugins, TakesOut(u, p) PROVE Typing'
      BY <2>6 DEF TakesOut, Erased, Typing, Positions
  <2> QED
      BY <1>6, <2>1, <2>2, <2>3, <2>4, <2>5, <2>6 DEF UserStep
<1>7. ASSUME NEW t \in {Frontend} \cup Users, Injects(t) PROVE Typing'
  <2> t \in Threads
      BY DEF Threads
  <2>1. connects' \in 0 .. MaxConnects
      BY <1>7, BoundsAssumption DEF Injects, Typing
  <2>2. /\ pc' = [pc EXCEPT ![t] = "check"] /\ after' = [after EXCEPT ![t] = "idle"]
        /\ plan' = [plan EXCEPT ![t] = NoPlan]
        /\ UNCHANGED <<configVars, processVars, emittedPlugins, m_has_shutdown, ops, todo,
                       subject, proc, event, seen, flags, counted>>
      BY <1>7 DEF Injects, RegisterCallback
  <2> QED
      BY <2>1, <2>2, PlanFacts DEF Typing, Positions
<1>8. CASE Shutdown
  <2> Main \in Threads
      BY DEF Threads
  <2>1. m_has_shutdown' \in BOOLEAN
      BY <1>8, Zenon DEF Shutdown
  <2> QED
      BY <1>8, <2>1 DEF Shutdown, Typing, Positions
<1>9. CASE UNCHANGED vars
    BY <1>9 DEF vars, Typing
<1> QED
    BY <1>1, <1>2, <1>3, <1>4, <1>5, <1>6, <1>7, <1>8, <1>9 DEF Next

(* Which process runs which plugin: a process runs a plugin from its fork    *)
(* on, the thread that waits for it and m_processes know which, and a        *)
(* process that is shut down was forked.                                     *)
Filing ==
    /\ \A i \in Processes : life[i] # "unborn" => runs[i] \in Plugins
    /\ \A p \in Plugins : m_processes[p] # None =>
           life[m_processes[p]] # "unborn" /\ runs[m_processes[p]] = p
    /\ \A t \in Threads : pc[t] = "wait" =>
           /\ proc[t] \in Processes /\ subject[t] \in Plugins
           /\ life[proc[t]] # "unborn" /\ runs[proc[t]] = subject[t]
    /\ \A t \in Threads : pc[t] = "stop" =>
           proc[t] \in Processes /\ life[proc[t]] # "unborn"

LEMMA NextFiling == Typing /\ Filing /\ [Next]_vars => Filing'
<1> SUFFICES ASSUME Typing, Filing, [Next]_vars PROVE Filing'
    OBVIOUS
<1> USE DEF configVars, processVars, dispatchVars, countVars, threadVars, Unwatched, Set, Goto
<1>a. ASSUME UNCHANGED <<life, runs, m_processes, proc>>,
             \A t \in Threads : pc'[t] \in {"wait", "stop"} =>
                 pc'[t] = pc[t] /\ subject'[t] = subject[t]
      PROVE  Filing'
    BY <1>a DEF Filing
<1>1. ASSUME NEW t \in Threads, UpdateStep(t) PROVE Filing'
  <2>1. UNCHANGED <<life, runs, m_processes, proc>> /\ (UNCHANGED subject \/ LoadedStores(t))
      BY <1>1 DEF UpdateStep, UpdateCounts, UpdateChecks, UpdateTakes, UpdateReturns,
            LoadedFinds, LoadedStores, RunsCallback
  <2>2. \A r \in Threads : pc'[r] \in {"wait", "stop"} => pc'[r] = pc[r]
                                                          /\ subject'[r] = subject[r]
      BY <1>1 DEF UpdateStep, UpdateCounts, UpdateChecks, UpdateTakes, UpdateReturns,
            LoadedFinds, LoadedStores, RunsCallback, Typing
  <2> QED
      BY <1>a, <2>1, <2>2
<1>2. ASSUME NEW t \in {Main} \cup Users, SpawnStep(t) PROVE Filing'
  <2> t \in Threads
      BY DEF Threads
  <2>1. CASE Publishes(t)
    <3>1. proc[t] \in Processes /\ subject[t] \in Plugins /\ runs[proc[t]] = subject[t]
        BY <2>1 DEF Publishes, Filing
    <3>2. m_processes' = [m_processes EXCEPT ![subject[t]] = proc[t]]
        BY <2>1 DEF Publishes, Filed
    <3>3. \A i \in Processes : life'[i] = "unborn" <=> life[i] = "unborn"
        BY <2>1, <3>1 DEF Publishes, Typing, Filing
    <3> QED
        BY <2>1, <3>1, <3>2, <3>3, NoneAssumption DEF Publishes, Typing, Filing
  <2>2. CASE SpawnFails(t)
      BY <2>2, NoneAssumption DEF SpawnFails, Destroyed, Typing, Filing
  <2>3. CASE SpawnsAll(t)
      BY <2>3, <1>a DEF SpawnsAll, Typing
  <2>4. ASSUME NEW p \in Plugins, SkipsRunning(t, p) PROVE Filing'
      BY <2>4, <1>a DEF SkipsRunning
  <2>5. ASSUME NEW p \in Plugins, NEW i \in Processes, Forks(t, p, i) PROVE Filing'
      BY <2>5, NoneAssumption DEF Forks, Typing, Filing
  <2> QED
      BY <1>2, <2>1, <2>2, <2>3, <2>4, <2>5 DEF SpawnStep
<1>3. ASSUME NEW i \in Processes, Loads(i) \/ Ready(i) \/ Crashes(i)
      PROVE  Filing'
  <2> i \in Threads
      BY DEF Threads
  <2>1. CASE Loads(i) \/ Crashes(i)
      BY <2>1, NoneAssumption DEF Loads, Crashes, Typing, Filing
  <2>2. CASE Ready(i)
      BY <2>2 DEF Ready, Typing, Filing
  <2> QED
      BY <1>3, <2>1, <2>2
<1>4. ASSUME NEW u \in Users, NEW wish \in Plans, ChangesStatus(u, wish) PROVE Filing'
    BY <1>4, <1>a DEF ChangesStatus, Typing
<1>5. ASSUME NEW u \in Users, NEW p \in Plugins, StopsPlugin(u, p) PROVE Filing'
    BY <1>5, <1>a DEF StopsPlugin, Typing
<1>6. ASSUME NEW u \in Users, UserStep(u) PROVE Filing'
  <2> u \in Threads
      BY DEF Threads
  <2>1. CASE WritesFlag(u)
      BY <2>1, <1>a DEF WritesFlag, Typing
  <2>2. CASE StopsProcess(u)
    <3>1. \A i \in Processes : life'[i] = "unborn" <=> life[i] = "unborn"
        BY <2>2 DEF StopsProcess, Typing, Filing
    <3> QED
        BY <2>2, <3>1, NoneAssumption DEF StopsProcess, Typing, Filing
  <2>3. CASE Unloads(u)
      BY <2>3, <1>a DEF Unloads, Typing
  <2>4. CASE DestroysAll(u)
      BY <2>4, <1>a DEF DestroysAll, Typing
  <2>5. ASSUME NEW p \in Plugins, ReadsFlags(u, p) PROVE Filing'
      BY <2>5 DEF ReadsFlags, Typing, Filing
  <2>6. ASSUME NEW p \in Plugins, TakesOut(u, p) PROVE Filing'
      BY <2>6 DEF TakesOut, Erased, Typing, Filing
  <2> QED
      BY <1>6, <2>1, <2>2, <2>3, <2>4, <2>5, <2>6 DEF UserStep
<1>7. ASSUME NEW t \in {Frontend} \cup Users, Injects(t) PROVE Filing'
    BY <1>7, <1>a DEF Injects, RegisterCallback, Typing
<1>8. CASE Shutdown
    BY <1>8, NoneAssumption DEF Shutdown, Typing, Filing
<1>9. CASE UNCHANGED vars
    BY <1>9, <1>a DEF vars
<1> QED
    BY <1>1, <1>2, <1>3, <1>4, <1>5, <1>6, <1>7, <1>8, <1>9 DEF Next

-----------------------------------------------------------------------------
(* What a thread is in the middle of *)

Planners == {t \in Threads : DOMAIN plan[t] # {}}
Updating == {"check", "compare", "take", "run", "find", "store"}

(* A user in set_plugins_enabled() has its plan until it injects, and its    *)
(* update()s return into the operation; nobody else has a plan.              *)
Committed ==
    \A t \in Threads :
      /\ t \notin Users => DOMAIN plan[t] = {}
      /\ t \notin Users \cup {Main} => after[t] = "idle"
      /\ t = Main => after[t] = "spawn"
      /\ pc[t] \in {"flags", "writeFlag", "inject"} => DOMAIN plan[t] # {}
      /\ t # Main /\ pc[t] \in {"spawn", "wait"} => DOMAIN plan[t] # {}
      /\ t # Main /\ pc[t] \in Updating /\ after[t] = "spawn" => DOMAIN plan[t] # {}
      /\ DOMAIN plan[t] # {} => pc[t] \notin {"idle", "serve", "done"}
      /\ DOMAIN plan[t] # {} /\ pc[t] \in Updating => after[t] # "idle"

LEMMA NextCommitted == Typing /\ Committed /\ [Next]_vars => Committed'
<1> SUFFICES ASSUME Typing, Committed, [Next]_vars PROVE Committed'
    OBVIOUS
<1> USE DEF configVars, processVars, dispatchVars, countVars, threadVars, Unwatched, Set, Goto
<1>1. ASSUME NEW t \in Threads, UpdateStep(t) PROVE Committed'
  <2>1. UNCHANGED <<plan, after>>
      BY <1>1 DEF UpdateStep, UpdateCounts, UpdateChecks, UpdateTakes, UpdateReturns,
            LoadedFinds, LoadedStores, RunsCallback
  <2>2. /\ pc[t] \in Updating
        /\ \E w \in Updating \cup {after[t]} : pc' = [pc EXCEPT ![t] = w]
      BY <1>1 DEF UpdateStep, UpdateCounts, UpdateChecks, UpdateTakes, UpdateReturns,
            LoadedFinds, LoadedStores, RunsCallback, Typing, Updating
  <2> QED
      BY <2>1, <2>2 DEF Committed, Updating, Typing
<1>2. ASSUME NEW t \in {Main} \cup Users, SpawnStep(t) PROVE Committed'
  <2> t \in Threads
      BY DEF Threads
  <2>1. CASE SpawnFails(t)
      BY <2>1 DEF SpawnFails, Committed, Typing, Updating
  <2>2. CASE SpawnsAll(t)
      BY <2>2, ThreadsAssumption DEF SpawnsAll, Committed, Typing, Updating
  <2>3. CASE Publishes(t)
      BY <2>3 DEF Publishes, Committed, Typing, Updating
  <2>4. CASE \E p \in Plugins : SkipsRunning(t, p) \/ (\E i \in Processes : Forks(t, p, i))
      BY <2>4 DEF SkipsRunning, Forks, Committed, Typing, Updating
  <2> QED
      BY <1>2, <2>1, <2>2, <2>3, <2>4 DEF SpawnStep
<1>3. ASSUME NEW i \in Processes, Loads(i) \/ Ready(i) \/ Crashes(i)
      PROVE  Committed'
  <2>1. i \in Threads /\ i \notin Users \cup {Main}
      BY ThreadsAssumption, DisjointAssumption DEF Threads
  <2> QED
      BY <1>3, <2>1 DEF Loads, Ready, Crashes, Committed, Typing, Updating
<1>4. ASSUME NEW u \in Users, NEW wish \in Plans, ChangesStatus(u, wish) PROVE Committed'
  <2> u \in Threads
      BY DEF Threads
  <2> QED
      BY <1>4, ThreadsAssumption DEF ChangesStatus, Committed, Typing, Updating
<1>5. ASSUME NEW u \in Users, NEW p \in Plugins, StopsPlugin(u, p) PROVE Committed'
  <2> u \in Threads
      BY DEF Threads
  <2> QED
      BY <1>5, ThreadsAssumption, PlanFacts DEF StopsPlugin, Committed, Typing, Updating
<1>6. ASSUME NEW u \in Users, UserStep(u) PROVE Committed'
  <2>0. u \in Threads /\ u # Main
      BY ThreadsAssumption DEF Threads
  <2>1. CASE WritesFlag(u)
      BY <2>0, <2>1 DEF WritesFlag, Committed, Typing, Updating
  <2>2. CASE StopsProcess(u)
      BY <2>0, <2>2 DEF StopsProcess, Committed, Typing, Updating
  <2>3. CASE Unloads(u)
      BY <2>0, <2>3 DEF Unloads, Committed, Typing, Updating
  <2>4. CASE DestroysAll(u)
    <3>1. /\ UNCHANGED <<plan, after>> /\ pc[u] = "destroy"
          /\ pc' = [pc EXCEPT ![u] = IF DOMAIN plan[u] = {} THEN "idle" ELSE "spawn"]
        BY <2>4 DEF DestroysAll
    <3> QED
        BY <2>0, <3>1 DEF Committed, Typing, Updating
  <2>5. ASSUME NEW p \in Plugins, ReadsFlags(u, p) PROVE Committed'
      BY <2>0, <2>5 DEF ReadsFlags, Committed, Typing, Updating
  <2>6. ASSUME NEW p \in Plugins, TakesOut(u, p) PROVE Committed'
      BY <2>0, <2>6 DEF TakesOut, Committed, Typing, Updating
  <2> QED
      BY <1>6, <2>1, <2>2, <2>3, <2>4, <2>5, <2>6 DEF UserStep
<1>7. ASSUME NEW t \in {Frontend} \cup Users, Injects(t) PROVE Committed'
  <2>0. t \in Threads /\ t # Main
      BY ThreadsAssumption DEF Threads
  <2>1. /\ pc' = [pc EXCEPT ![t] = "check"] /\ after' = [after EXCEPT ![t] = "idle"]
        /\ plan' = [plan EXCEPT ![t] = NoPlan]
      BY <1>7 DEF Injects, RegisterCallback
  <2> QED
      BY <2>0, <2>1, PlanFacts DEF Committed, Typing, Updating
<1>8. CASE Shutdown
  <2>1. Main \in Threads /\ Main \notin Users
      BY ThreadsAssumption DEF Threads
  <2> QED
      BY <1>8, <2>1 DEF Shutdown, Committed, Typing, Updating
<1>9. CASE UNCHANGED vars
    BY <1>9 DEF vars, Committed
<1> QED
    BY <1>1, <1>2, <1>3, <1>4, <1>5, <1>6, <1>7, <1>8, <1>9 DEF Next

-----------------------------------------------------------------------------
(* The callbacks stay within their bound *)

(* Each operation of a user registers at most one callback, when its plan is *)
(* carried out, and each connection one.                                     *)
Budget ==
    /\ IsFiniteSet(Planners)
    /\ Cardinality(registered) + Cardinality(Planners) <= 1 + ops + connects

LEMMA RegisteredCount ==
    ASSUME Dispatching
    PROVE  /\ Cardinality(registered) \in Nat
           /\ registered = 0 .. Cardinality(registered) - 1
<1>1. PICK n \in Nat : registered = 0 .. n - 1
    BY DEF Dispatching
<1> QED
    BY <1>1, NextCallback

LEMMA NextBudget ==
    Typing /\ Committed /\ Dispatching /\ Budget /\ [Next]_vars => Budget'
<1> SUFFICES ASSUME Typing, Committed, Dispatching, Budget, [Next]_vars PROVE Budget'
    OBVIOUS
<1> USE DEF configVars, processVars, dispatchVars, countVars, threadVars, Unwatched, Set, Goto
<1>0. /\ Cardinality(registered) \in Nat /\ Cardinality(Planners) \in Nat
      /\ ops \in Nat /\ connects \in Nat
    BY RegisteredCount, FS_CardinalityType DEF Budget, Typing
<1>1. ASSUME UNCHANGED <<plan, registered, ops, connects>> PROVE Budget'
    BY <1>1 DEF Budget, Planners
<1>2. ASSUME NEW t \in Threads, UpdateStep(t) PROVE Budget'
    BY <1>2, <1>1 DEF UpdateStep, UpdateCounts, UpdateChecks, UpdateTakes, UpdateReturns,
          LoadedFinds, LoadedStores, RunsCallback
<1>3. ASSUME NEW t, SpawnStep(t) PROVE Budget'
    BY <1>3, <1>1 DEF SpawnStep, Publishes, SpawnFails, SpawnsAll, SkipsRunning, Forks
<1>4. ASSUME NEW i, Loads(i) \/ Ready(i) \/ Crashes(i) PROVE Budget'
    BY <1>4, <1>1 DEF Loads, Ready, Crashes
<1>5. ASSUME NEW u, UserStep(u) PROVE Budget'
    BY <1>5, <1>1 DEF UserStep, WritesFlag, StopsProcess, Unloads, DestroysAll, ReadsFlags,
          TakesOut
<1>6. ASSUME NEW u \in Users, NEW wish \in Plans, ChangesStatus(u, wish) PROVE Budget'
  <2>1. /\ u \in Threads /\ plan' = [plan EXCEPT ![u] = wish] /\ DOMAIN wish # {}
        /\ ops' = ops + 1 /\ UNCHANGED <<registered, connects>>
      BY <1>6 DEF ChangesStatus, Threads
  <2>2. Planners' = Planners \cup {u}
      BY <2>1 DEF Planners, Typing
  <2>3. /\ IsFiniteSet(Planners') /\ Cardinality(Planners') \in Nat
        /\ Cardinality(Planners') <= Cardinality(Planners) + 1
    <3>1. CASE u \in Planners
      <4>1. Planners' = Planners
          BY <2>2, <3>1
      <4> QED
          BY <4>1, <1>0 DEF Budget
    <3>2. CASE u \notin Planners
      <4>1. /\ IsFiniteSet(Planners \cup {u})
            /\ Cardinality(Planners \cup {u}) = Cardinality(Planners) + 1
          BY <3>2, FS_AddElement DEF Budget
      <4> QED
          BY <4>1, <1>0, <2>2
    <3> QED
        BY <3>1, <3>2
  <2> QED
      BY <1>0, <2>1, <2>3 DEF Budget
<1>7. ASSUME NEW u \in Users, NEW p \in Plugins, StopsPlugin(u, p) PROVE Budget'
  <2>1. /\ u \in Threads /\ plan' = [plan EXCEPT ![u] = NoPlan]
        /\ ops' = ops + 1 /\ UNCHANGED <<registered, connects>>
      BY <1>7 DEF StopsPlugin, Threads
  <2>2. Planners' \subseteq Planners
      BY <2>1, PlanFacts DEF Planners, Typing
  <2>3. /\ IsFiniteSet(Planners') /\ Cardinality(Planners') \in Nat
        /\ Cardinality(Planners') <= Cardinality(Planners)
      BY <2>2, FS_Subset, FS_CardinalityType DEF Budget
  <2> QED
      BY <1>0, <2>1, <2>3 DEF Budget
<1>8. ASSUME NEW t \in {Frontend} \cup Users, Injects(t) PROVE Budget'
  <2> t \in Threads
      BY DEF Threads
  <2> DEFINE n == Cardinality(registered)
  <2>1. /\ plan' = [plan EXCEPT ![t] = NoPlan] /\ registered' = registered \cup {n}
        /\ UNCHANGED ops
      BY <1>8 DEF Injects, RegisterCallback
  <2>2. registered' = 0 .. (n + 1) - 1 /\ Cardinality(registered') = n + 1
    <3>1. registered = 0 .. n - 1 /\ n \in Nat
        BY RegisteredCount
    <3>2. registered' = 0 .. (n + 1) - 1
        BY <2>1, <3>1
    <3> QED
        BY <3>1, <3>2, NextCallback
  <2>3. Planners' = Planners \ {t}
      BY <2>1, PlanFacts DEF Planners, Typing
  <2>4. CASE pc[t] = "inject" /\ UNCHANGED connects
    <3>1. t \in Planners
        BY <2>4 DEF Committed, Planners
    <3>2. IsFiniteSet(Planners') /\ Cardinality(Planners') = Cardinality(Planners) - 1
        BY <2>3, <3>1, FS_RemoveElement DEF Budget
    <3> HIDE DEF n
    <3> QED
        BY <1>0, <2>1, <2>2, <2>4, <3>2 DEF Budget, n
  <2>5. CASE t = Frontend /\ connects' = connects + 1
    <3>1. t \notin Planners
        BY <2>5, ThreadsAssumption DEF Committed, Planners
    <3>2. Planners' = Planners
        BY <2>3, <3>1
    <3> HIDE DEF n
    <3> QED
        BY <1>0, <2>1, <2>2, <2>5, <3>2 DEF Budget, n
  <2> QED
      BY <1>8, <2>4, <2>5 DEF Injects
<1>9. CASE Shutdown \/ UNCHANGED vars
    BY <1>9, <1>1 DEF Shutdown, vars
<1> QED
    BY <1>2, <1>3, <1>4, <1>5, <1>6, <1>7, <1>8, <1>9 DEF Next

LEMMA InitInvariants == Init => Typing /\ Filing /\ Committed /\ Budget /\ Dispatching
<1> SUFFICES ASSUME Init PROVE Typing /\ Filing /\ Committed /\ Budget /\ Dispatching
    OBVIOUS
<1>1. Dispatching
  <2>1. registered = 0 .. 1 - 1 /\ listeners \subseteq registered
      BY DEF Init
  <2>2. /\ taken = [t \in Threads |-> {}] /\ ran \in [Callbacks -> {0, 1}]
        /\ \A c \in Callbacks : c \in listeners \/ c \notin registered => ran[c] = 0
      BY DEF Init
  <2> QED
      BY <2>1, <2>2 DEF Dispatching
<1>2. 0 \in 0 .. MaxOps /\ 0 \in 0 .. MaxConnects
    BY BoundsAssumption
<1>3. Blank \in [Plugins -> Reports] /\ "absent" \in Reports
    BY DEF Blank, Reports
<1>4. pc \in [Threads -> Positions] /\ \A t \in Threads : pc[t] \in {"idle", "spawn"}
    BY DEF Init, Positions
<1>5. m_has_shutdown \in BOOLEAN
    BY Zenon DEF Init
<1>6. Typing
    BY <1>2, <1>3, <1>4, <1>5, PlanFacts DEF Init, Typing
<1>7. Filing
    BY <1>4 DEF Init, Filing
<1>8. Committed
    BY PlanFacts, ThreadsAssumption DEF Init, Committed, Updating
<1>9. Budget
  <2>1. Planners = {}
      BY PlanFacts DEF Init, Planners
  <2>2. Cardinality(registered) = 1
      BY FS_Singleton DEF Init
  <2> QED
      BY <2>1, <2>2, FS_EmptySet DEF Init, Budget
<1> QED
    BY <1>1, <1>6, <1>7, <1>8, <1>9

(* Every variable keeps its type whoever runs with whom; in particular       *)
(* backend_manager files a process under the plugin it runs, through         *)
(* spawns, replacements, stops and shutdown, and the callbacks number no     *)
(* more than the operations and connections that register one.               *)
THEOREM TypeCorrect == Spec => []TypeOK
<1> DEFINE IInv == Typing /\ Filing /\ Committed /\ Budget /\ Dispatching
<1>1. IInv /\ [Next]_vars => IInv'
    BY NextTyping, NextFiling, NextCommitted, NextBudget, DispatchingInductive
<1>2. IInv => TypeOK
  <2> SUFFICES ASSUME IInv PROVE TypeOK
      OBVIOUS
  <2>1. registered \subseteq Callbacks
    <3> DEFINE n == Cardinality(registered)
    <3>1. n \in Nat /\ registered = 0 .. n - 1
        BY RegisteredCount
    <3>2. n <= 1 + MaxOps + MaxConnects
        BY <3>1, FS_CardinalityType, BoundsAssumption DEF Budget, Typing
    <3> HIDE DEF n
    <3> QED
        BY <3>1, <3>2, BoundsAssumption DEF Callbacks
  <2>2. /\ listeners \subseteq registered /\ taken \in [Threads -> SUBSET Callbacks]
        /\ ran \in [Callbacks -> Nat]
      BY <2>1 DEF Dispatching
  <2>3. \A p \in Plugins : m_processes[p] # None => runs[m_processes[p]] = p
      BY DEF Filing
  <2> QED
      BY <2>1, <2>2, <2>3 DEF TypeOK, Typing, Positions
<1> HIDE DEF IInv
<1>3. Init => IInv
    BY InitInvariants DEF IInv
<1> QED
    BY <1>1, <1>2, <1>3, PTL DEF Spec

-----------------------------------------------------------------------------
(* No wakeup is lost *)

(* t will come to an update() that sees the present sizes, or to a           *)
(* registration that is followed by one.                                     *)
OwesUpdate(t) ==
    \/ pc[t] \in {"check", "take"}
    \/ pc[t] = "compare" /\ counted[t] = enabled
    \/ DOMAIN plan[t] # {}

(* Callbacks that could be run are somebody's duty.                          *)
Owed ==
    listeners # {} /\ Cardinality(Emitted) = Cardinality(enabled)
        => \E t \in Threads : OwesUpdate(t)

LEMMA NextOwed == Typing /\ Committed /\ Owed /\ [Next]_vars => Owed'
<1> SUFFICES ASSUME Typing, Committed, Owed, [Next]_vars PROVE Owed'
    OBVIOUS
<1> USE DEF configVars, processVars, dispatchVars, countVars, threadVars, Unwatched, Set, Goto
<1>1. ASSUME NEW t \in Threads, pc'[t] = "check" PROVE Owed'
    BY <1>1 DEF Owed, OwesUpdate
<1>2. ASSUME UNCHANGED <<listeners, emittedPlugins, enabled, counted, plan>>,
             \A t \in Threads : pc[t] \in {"check", "take", "compare"} => pc'[t] = pc[t]
      PROVE  Owed'
  <2>1. Emitted' = Emitted
      BY <1>2 DEF Emitted
  <2> QED
      BY <1>2, <2>1 DEF Owed, OwesUpdate
<1>3. ASSUME NEW t \in Threads, UpdateStep(t) PROVE Owed'
  <2>1. CASE UpdateCounts(t)
    <3>1. pc'[t] = "compare" /\ counted'[t] = enabled' /\ enabled' = enabled
        BY <2>1 DEF UpdateCounts, Typing
    <3> QED
        BY <3>1 DEF Owed, OwesUpdate
  <2>2. CASE UpdateChecks(t)
    <3>1. UNCHANGED <<listeners, emittedPlugins, enabled, plan>>
        BY <2>2 DEF UpdateChecks
    <3>2. CASE AllReady(t)
      <4>1. pc'[t] = "take"
          BY <2>2, <3>2 DEF UpdateChecks, Typing
      <4> QED
          BY <4>1 DEF Owed, OwesUpdate
    <3>3. CASE ~AllReady(t)
      <4>1. Emitted' = Emitted
          BY <3>1 DEF Emitted
      <4>2. \A r \in Threads : r # t => pc'[r] = pc[r] /\ counted'[r] = counted[r]
          BY <2>2 DEF UpdateChecks, Typing
      <4>3. Cardinality(Emitted) = Cardinality(enabled) /\ OwesUpdate(t) => DOMAIN plan[t] # {}
          BY <2>2, <3>3 DEF UpdateChecks, AllReady, OwesUpdate
      <4> QED
          BY <3>1, <4>1, <4>2, <4>3 DEF Owed, OwesUpdate
    <3> QED
        BY <3>2, <3>3
  <2>3. CASE UpdateTakes(t)
      BY <2>3 DEF UpdateTakes, Cleared, Owed
  <2>4. CASE UpdateReturns(t) \/ LoadedFinds(t) \/ \E c \in Callbacks : RunsCallback(t, c)
      BY <2>4, <1>2 DEF UpdateReturns, LoadedFinds, RunsCallback, Typing
  <2>5. CASE LoadedStores(t)
      BY <2>5, <1>1 DEF LoadedStores, Typing
  <2> QED
      BY <1>3, <2>1, <2>2, <2>3, <2>4, <2>5 DEF UpdateStep
<1>4. ASSUME NEW t, SpawnStep(t) PROVE Owed'
    BY <1>4, <1>2 DEF SpawnStep, Publishes, SpawnFails, SpawnsAll, SkipsRunning, Forks, Typing
<1>5. ASSUME NEW i, Loads(i) \/ Ready(i) \/ Crashes(i) PROVE Owed'
    BY <1>5, <1>2 DEF Loads, Ready, Crashes, Typing
<1>6. ASSUME NEW u \in Users, NEW wish \in Plans, ChangesStatus(u, wish) PROVE Owed'
  <2>1. u \in Threads /\ DOMAIN plan'[u] # {}
      BY <1>6 DEF ChangesStatus, Typing, Threads
  <2> QED
      BY <2>1 DEF Owed, OwesUpdate
<1>7. ASSUME NEW u \in Users, NEW p \in Plugins, StopsPlugin(u, p) PROVE Owed'
  <2>1. u \in Threads /\ DOMAIN plan[u] = {} /\ pc[u] = "idle"
      BY <1>7 DEF StopsPlugin, Committed, Threads
  <2>2. /\ \A r \in Threads : r # u => pc'[r] = pc[r] /\ plan'[r] = plan[r]
        /\ UNCHANGED <<listeners, emittedPlugins, enabled, counted>>
      BY <1>7, <2>1 DEF StopsPlugin, Typing
  <2>3. Emitted' = Emitted
      BY <2>2 DEF Emitted
  <2> QED
      BY <2>1, <2>2, <2>3 DEF Owed, OwesUpdate
<1>8. ASSUME NEW u \in Users, UserStep(u) PROVE Owed'
  <2> u \in Threads
      BY DEF Threads
  <2>1. CASE WritesFlag(u)
    <3>1. DOMAIN plan'[u] # {}
        BY <2>1 DEF WritesFlag, Committed
    <3> QED
        BY <3>1 DEF Owed, OwesUpdate
  <2>2. CASE Unloads(u)
      BY <2>2, <1>1 DEF Unloads, Typing
  <2>3. CASE StopsProcess(u) \/ \E p \in Plugins : ReadsFlags(u, p) \/ TakesOut(u, p)
      BY <2>3, <1>2 DEF StopsProcess, ReadsFlags, TakesOut, Typing
  <2>4. CASE DestroysAll(u)
      BY <2>4, <1>2 DEF DestroysAll, Typing
  <2> QED
      BY <1>8, <2>1, <2>2, <2>3, <2>4 DEF UserStep
<1>9. ASSUME NEW t \in {Frontend} \cup Users, Injects(t) PROVE Owed'
    BY <1>9, <1>1 DEF Injects, RegisterCallback, Typing, Threads
<1>10. CASE Shutdown \/ UNCHANGED vars
    BY <1>10, <1>2 DEF Shutdown, vars, Typing
<1> QED
    BY <1>3, <1>4, <1>5, <1>6, <1>7, <1>8, <1>9, <1>10 DEF Next

(* backend_event_dispatcher loses no wakeup, whatever the number of users    *)
(* and readers and whether or not children crash: a callback that waits when *)
(* nobody is at work waits because the number of reports is not the number   *)
(* of enabled backends, in spite of the unlocked search and change of the    *)
(* reports and of the count that is read before it is compared.              *)
THEOREM NoWakeupLost == Spec => []NoMissedDispatch
<1> DEFINE IInv == Typing /\ Committed /\ Owed
<1>1. IInv /\ [Next]_vars => IInv'
    BY NextTyping, NextCommitted, NextOwed
<1>2. IInv => NoMissedDispatch
    BY DEF Owed, OwesUpdate, Committed, NoMissedDispatch, Quiet
<1>3. Init => IInv
  <2> SUFFICES ASSUME Init PROVE Owed
      BY InitInvariants
  <2>1. Emitted = {}
      BY DEF Init, Emitted, Blank
  <2>2. listeners # {} => Cardinality(enabled) # 0
      BY FiniteAssumption, FS_Subset, FS_EmptySet DEF Init
  <2> QED
      BY <2>1, <2>2, FS_EmptySet DEF Owed
<1> HIDE DEF IInv
<1> QED
    BY <1>1, <1>2, <1>3, PTL DEF Spec

-----------------------------------------------------------------------------
(* Every running child has an owner *)

LEMMA NextOwned == Typing /\ Filing /\ ChildrenOwned /\ [Next]_vars => ChildrenOwned'
<1> SUFFICES ASSUME Typing, Filing, ChildrenOwned, [Next]_vars,
                    NEW j \in Processes, life'[j] \in {"loading", "up"}
             PROVE  Owned(j)'
    BY DEF ChildrenOwned
<1> USE DEF configVars, processVars, dispatchVars, countVars, threadVars, Unwatched, Set, Goto
<1>a. ASSUME life[j] \in {"loading", "up"}, UNCHANGED m_processes,
             \A t \in {Main} \cup Users : pc[t] \in {"wait", "stop"} =>
                 pc'[t] = pc[t] /\ proc'[t] = proc[t]
      PROVE  Owned(j)'
    BY <1>a DEF ChildrenOwned, Owned
<1>b. {Main} \cup Users \subseteq Threads
    BY DEF Threads
<1>1. ASSUME NEW t \in Threads, UpdateStep(t) PROVE Owned(j)'
  <2>1. UNCHANGED <<life, m_processes, proc>>
      BY <1>1 DEF UpdateStep, UpdateCounts, UpdateChecks, UpdateTakes, UpdateReturns,
            LoadedFinds, LoadedStores, RunsCallback
  <2>2. \A r \in Threads : pc[r] \in {"wait", "stop"} => pc'[r] = pc[r]
      BY <1>1 DEF UpdateStep, UpdateCounts, UpdateChecks, UpdateTakes, UpdateReturns,
            LoadedFinds, LoadedStores, RunsCallback, Typing
  <2> QED
      BY <1>a, <1>b, <2>1, <2>2
<1>2. ASSUME NEW t \in {Main} \cup Users, SpawnStep(t) PROVE Owned(j)'
  <2>0. t \in Threads
      BY <1>b
  <2>1. CASE Publishes(t)
    <3>1. /\ proc[t] \in Processes /\ subject[t] \in Plugins
          /\ m_processes' = [m_processes EXCEPT ![subject[t]] = proc[t]]
          /\ pc' = [pc EXCEPT ![t] = "spawn"] /\ proc' = [proc EXCEPT ![t] = None]
          /\ life' = IF m_processes[subject[t]] = None THEN life
                     ELSE [life EXCEPT ![m_processes[subject[t]]] = "dead"]
        BY <2>0, <2>1 DEF Publishes, Filed, Filing
    <3>2. life[j] \in {"loading", "up"} /\ j # m_processes[subject[t]]
        BY <3>1, NoneAssumption DEF Typing
    <3>3. CASE j = proc[t]
        BY <3>1, <3>3 DEF Owned, Typing
    <3>4. CASE j # proc[t]
      <4>1. CASE \E p \in Plugins : m_processes[p] = j
          BY <3>1, <3>2, <4>1 DEF Owned, Typing
      <4>2. CASE \E r \in {Main} \cup Users : proc[r] = j /\ pc[r] \in {"wait", "stop"}
          BY <1>b, <3>1, <3>4, <4>2 DEF Owned, Typing
      <4> QED
          BY <3>2, <4>1, <4>2 DEF ChildrenOwned, Owned
    <3> QED
        BY <3>3, <3>4
  <2>2. CASE SpawnFails(t)
    <3>1. /\ proc[t] \in Processes /\ life' = [life EXCEPT ![proc[t]] = "dead"]
          /\ UNCHANGED m_processes
          /\ pc' = [pc EXCEPT ![t] = "find"] /\ proc' = [proc EXCEPT ![t] = None]
        BY <2>0, <2>2 DEF SpawnFails, Destroyed, Filing
    <3>2. life[j] \in {"loading", "up"} /\ j # proc[t]
        BY <3>1 DEF Typing
    <3>3. Owned(j)'
      <4>1. CASE \E p \in Plugins : m_processes[p] = j
          BY <3>1, <4>1 DEF Owned
      <4>2. CASE \E r \in {Main} \cup Users : proc[r] = j /\ pc[r] \in {"wait", "stop"}
          BY <1>b, <3>1, <3>2, <4>2 DEF Owned, Typing
      <4> QED
          BY <3>2, <4>1, <4>2 DEF ChildrenOwned, Owned
    <3> QED
        BY <3>3
  <2>3. CASE SpawnsAll(t)
      BY <1>a, <1>b, <2>3 DEF SpawnsAll, Typing
  <2>4. ASSUME NEW p \in Plugins, SkipsRunning(t, p) PROVE Owned(j)'
      BY <1>a, <2>4 DEF SkipsRunning
  <2>5. ASSUME NEW p \in Plugins, NEW i \in Processes, Forks(t, p, i) PROVE Owned(j)'
    <3>1. /\ pc[t] = "spawn" /\ life' = [life EXCEPT ![i] = "loading"] /\ UNCHANGED m_processes
          /\ pc' = [pc EXCEPT ![t] = "wait"] /\ proc' = [proc EXCEPT ![t] = i]
        BY <2>5 DEF Forks
    <3>2. CASE j = i
        BY <2>0, <3>1, <3>2 DEF Owned, Typing
    <3>3. CASE j # i
        BY <1>a, <1>b, <3>1, <3>3 DEF Typing
    <3> QED
        BY <3>2, <3>3
  <2> QED
      BY <1>2, <2>1, <2>2, <2>3, <2>4, <2>5 DEF SpawnStep
<1>3. ASSUME NEW i \in Processes, Loads(i) \/ Ready(i) \/ Crashes(i) PROVE Owned(j)'
  <2>1. i \notin {Main} \cup Users
      BY ThreadsAssumption, DisjointAssumption
  <2>2. life[j] \in {"loading", "up"}
      BY <1>3 DEF Loads, Ready, Crashes, Typing
  <2>3. UNCHANGED <<m_processes, proc>> /\ \A r \in {Main} \cup Users : pc'[r] = pc[r]
      BY <1>3, <1>b, <2>1 DEF Loads, Ready, Crashes, Typing
  <2> QED
      BY <1>a, <2>2, <2>3
<1>4. ASSUME NEW u \in Users, NEW wish \in Plans, ChangesStatus(u, wish) PROVE Owned(j)'
    BY <1>4, <1>a, <1>b DEF ChangesStatus, Typing
<1>5. ASSUME NEW u \in Users, NEW p \in Plugins, StopsPlugin(u, p) PROVE Owned(j)'
    BY <1>5, <1>a, <1>b DEF StopsPlugin, Typing
<1>6. ASSUME NEW u \in Users, UserStep(u) PROVE Owned(j)'
  <2>0. u \in Threads
      BY <1>b
  <2>1. CASE WritesFlag(u) \/ Unloads(u) \/ \E p \in Plugins : ReadsFlags(u, p)
    <3>1. UNCHANGED <<life, m_processes, proc>> /\ pc[u] \notin {"wait", "stop"}
          /\ \A r \in Threads : r # u => pc'[r] = pc[r]
        BY <2>1 DEF WritesFlag, Unloads, ReadsFlags, Typing
    <3> QED
        BY <1>a, <1>b, <3>1
  <2>2. CASE StopsProcess(u)
    <3>1. /\ proc[u] \in Processes /\ life' = [life EXCEPT ![proc[u]] = "dead"]
          /\ UNCHANGED m_processes
          /\ pc' = [pc EXCEPT ![u] = "unload"] /\ proc' = [proc EXCEPT ![u] = None]
        BY <2>0, <2>2 DEF StopsProcess, Filing
    <3>2. life[j] \in {"loading", "up"} /\ j # proc[u]
        BY <3>1 DEF Typing
    <3>3. Owned(j)'
      <4>1. CASE \E p \in Plugins : m_processes[p] = j
          BY <3>1, <4>1 DEF Owned
      <4>2. CASE \E r \in {Main} \cup Users : proc[r] = j /\ pc[r] \in {"wait", "stop"}
          BY <1>b, <3>1, <3>2, <4>2 DEF Owned, Typing
      <4> QED
          BY <3>2, <4>1, <4>2 DEF ChildrenOwned, Owned
    <3> QED
        BY <3>3
  <2>3. CASE DestroysAll(u)
    <3>1. UNCHANGED <<life, m_processes, proc>> /\ pc[u] = "destroy"
          /\ \A r \in Threads : r # u => pc'[r] = pc[r]
        BY <2>3 DEF DestroysAll, Typing
    <3> QED
        BY <1>a, <1>b, <3>1
  <2>4. ASSUME NEW p \in Plugins, TakesOut(u, p) PROVE Owned(j)'
    <3>1. /\ pc[u] = "destroy" /\ UNCHANGED life
          /\ m_processes' = [m_processes EXCEPT ![p] = None]
          /\ proc' = [proc EXCEPT ![u] = m_processes[p]]
          /\ pc' = [pc EXCEPT ![u] = IF m_processes[p] = None THEN "unload" ELSE "stop"]
        BY <2>4 DEF TakesOut, Erased
    <3>2. CASE m_processes[p] = j
      <4>1. proc'[u] = j /\ pc'[u] = "stop"
          BY <2>0, <3>1, <3>2, NoneAssumption DEF Typing
      <4> QED
          BY <4>1 DEF Owned
    <3>3. CASE m_processes[p] # j
        BY <1>b, <3>1, <3>3 DEF ChildrenOwned, Owned, Typing
    <3> QED
        BY <3>2, <3>3
  <2> QED
      BY <1>6, <2>1, <2>2, <2>3, <2>4 DEF UserStep
<1>7. ASSUME NEW t \in {Frontend} \cup Users, Injects(t) PROVE Owned(j)'
  <2>1. UNCHANGED <<life, m_processes, proc>> /\ pc[t] \in {"inject", "idle"}
        /\ \A r \in Threads : r # t => pc'[r] = pc[r]
      BY <1>7 DEF Injects, RegisterCallback, Typing
  <2> QED
      BY <1>a, <1>b, <2>1
<1>8. CASE Shutdown
  <2>1. /\ life[j] \in {"loading", "up"} /\ ~\E p \in Plugins : m_processes[p] = j
        /\ UNCHANGED proc /\ pc[Main] = "serve" /\ pc' = [pc EXCEPT ![Main] = "done"]
      BY <1>8 DEF Shutdown
  <2> QED
      BY <1>b, <2>1 DEF ChildrenOwned, Owned, Typing
<1>9. CASE UNCHANGED vars
    BY <1>9, <1>a DEF vars
<1> QED
    BY <1>1, <1>2, <1>3, <1>4, <1>5, <1>6, <1>7, <1>8, <1>9 DEF Next

(* No Lua host is left running without somebody that will destroy it, for    *)
(* any number of threads that start, replace, stop and shut down backends,   *)
(* several of them the same plugin's, and whichever of the starts fail.      *)
THEOREM ChildrenAreOwned == Spec => []ChildrenOwned
<1> DEFINE IInv == Typing /\ Filing /\ ChildrenOwned
<1>1. IInv /\ [Next]_vars => IInv'
    BY NextTyping, NextFiling, NextOwned
<1>2. Init => IInv
    BY InitInvariants DEF Init, ChildrenOwned
<1> HIDE DEF IInv
<1>3. IInv => ChildrenOwned
    BY DEF IInv
<1> QED
    BY <1>1, <1>2, <1>3, PTL DEF Spec
=============================================================================
