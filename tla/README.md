# A TLA+ model of the Cloude Steam Loader

The loader (`src/src`, C++) is a shared library inside the Steam client. It
runs one Lua child process per plugin with a backend, talks to Steam's browser
over the Chrome DevTools Protocol (CDP), and injects the plugins' frontends once
their backends are loaded. What is hard about it is concurrency: a dozen kinds
of threads and one process per plugin meet in a few shared maps, queues and
flags, and any of them may disappear while another waits for it. The modules
here model that part. They keep the control of the code (every lock, wait,
early return and error path, in the code's order) and reduce data to what the
properties distinguish.

The repository builds for Windows, Linux and macOS from the same engine. Where
the branches differ (child processes, signals, pids) the Linux one is modelled.

## 1. Inventory

| Component | State | Operations | Interaction |
|---|---|---|---|
| `cdp_client` (`engine/cdp_api.cc`) | pending requests, incoming queue, listeners and their tokens, shutdown flag | `send_host`, `handle_message`, worker loop, cleanup loop, `on`, `off`, `off_all`, `shutdown` | everyone who talks to Steam's browser holds one of its futures |
| `thread_pool` | queue of tasks, stop flag | `enqueue`, worker loop, `shutdown` | runs the callbacks of `cdp_client`, tasks of `plugin_loader`, calls of `ffi_binder` |
| `PluginProcess` (`engine/child_process.cc`), `rpc_client` and `main` of the Lua host | pending calls, socket, reader thread; event loop, deferred notifications, coroutines; the process itself | `call`, `notify_child`, reader loop, `shutdown`, destructor, `detect_child_exit`; `call`, `run`, `respond`, `handle_shutdown` | frames over a socket; signals and `waitpid` |
| `backend_manager`, `backend_event_dispatcher`, `plugin_loader`, `plugin_manager` | the map of processes, reports of the backends, registered callbacks, enabled plugins | spawn, destroy, `shutdown`, loaded and unloaded events, `update`, `on_all_backends_ready`, `set_plugins_enabled` | readers of all children, FFI threads, MEP threads, the connection's pool thread and main |
| `cdp_connector`, connection loop, the hook that opens the pipes | descriptors, generation, change and cancel events, watcher and reader threads | connect, read loop, terminate, reconnect | makes and shuts down the `cdp_client`; the hook runs in Steam's own thread |
| `webkit_world_mgr` | attached targets, attachments in flight | target created, changed, destroyed | CDP events on pool threads that wait for CDP answers |
| `ffi_binder`, `ipc_main` | execution contexts, call pool | binding called, context created and destroyed | browser to Lua and back |
| `network_hook_ctl` | list of hooks | add, remove, intercept | CDP `Fetch` events |
| shared memory arena (`state/shared_memory.cc`), loopback hook (`instrumentation/loopback`) | bump allocator, map of patches | add, grow, remove, look up; match files, edit documents | readers of children write, the web helper's process reads |
| `config_manager`, plugin configuration | the config, listeners, file | `get`, `set`, save, load, notify | all threads; listeners notify children |
| `crash_event_bus`, `sdk_ready_bus` | listeners, pending events, last event | notify, add, remove, acknowledge | crash reports to the frontend and to MEP clients |
| MEP server, captures, recorder | clients, bounded logs | accept, dispatch, record | developer tools |
| the rest | | bindings, updater, file watcher, semver, system services, instrumentation, bootstrap | see `components` in PROJECT.json |

The behaviours that are hard to test, each with its line and the properties that
watch it, are the `hazards` of PROJECT.json. In short:

* *responses against timeouts, failing writes and shutdown*, in both protocols;
* *waits and wakeups* on a full queue, at shutdown, at the last backend's report;
* *a child or the parent that dies* at any point of the protocol, and pids that
  outlive their processes;
* *several threads in the dispatcher* while plugins are enabled and disabled;
* *two locks in two orders* around a file that must survive crashes and failures;
* *reconnection*, while work of the previous connection is still under way;
* *handlers of one page on several threads*, each of which waits for a browser
  that fails, answers late or has closed the page;
* *an allocator that never frees* and has no lock, and a table of offsets that another process walks;
* *writes that block* for as long as the other side does not read.

## 2. Modules

| Module | Models |
|---|---|
| `CdpClient` | `cdp_client` with its worker, cleanup thread and callback pool |
| `RequestFutures` | what a caller of `send_host()` may rely on; `CdpClient` implements it |
| `CdpClientProofs` | theorems about `CdpClient` |
| `PluginIpc` | one `PluginProcess`, its socket, and the Lua host at the other end |
| `PluginIpcProofs` | theorems about `PluginIpc` |
| `BackendLifecycle` | start, change and stop of the backends, and the dispatch that starts the frontend |
| `MCBackendLifecycle` | instances for TLC, symmetry |
| `BackendLifecycleProofs` | theorems about `BackendLifecycle` |
| `ConfigManager` | the configuration in memory, its file, and the threads and sessions that change it |
| `ConfigManagerProofs` | theorems about `ConfigManager` |
| `PatchRegistry` | what the loopback hook may rely on: a list of patches per plugin |
| `PatchArena` | the arena in shared memory, the handler of PATCHES, starts and stops of backends; implements `PatchRegistry` |
| `PatchArenaProofs` | theorems about `PatchArena` |
| `LoopbackPatcher` | `PatchArena` with the hook that reads the arena and edits documents |
| `LoopbackPatcherProofs` | theorems about `LoopbackPatcher`: the hook leaves the arena alone, and serves what was sent |
| `MCLoopbackPatcher` | texts, documents and messages for TLC |
| `WebkitWorlds` | the handlers of `webkit_world_mgr` |
| `WebkitWorldsProofs` | theorems about `WebkitWorlds` |
| `CrashEventBus` | `crash_event_bus`, as actions for a module that uses it |
| `FrontendConnection` | the connection's life cycle: hook, loader, reader, watcher, and the `shutdown()` of its client |
| `CrashListeners` | `CrashEventBus` composed with those who listen: the tasks of the connections and the MEP clients |
| `CrashListenersProofs` | theorems about the bus, alone and composed |
| `MCFrontend` | `FrontendConnection` and `CrashListeners` for TLC |

The models meet at their edges. A process of `BackendLifecycle` is what
`PluginIpc` describes in detail: `Publishes` and `SpawnFails` are the two results
of its call INIT, `StopsProcess` its `Shutdown` and destructor. `PluginIpc` does
not say that the handler of a child's request returns, since it may wait for `ConfigManager` or
for a request of `CdpClient`; where a property needs it, it is its condition. `WritesFlag` of
`BackendLifecycle` is a `Set` of `ConfigManager`, the reader of a child that calls
`cloude.config.set` its `PluginSet`. The starts and stops of `PatchArena` are those
of `BackendLifecycle`, on as many threads as there are children. `WebkitWorlds` runs on the
callback pool of `CdpClient`, with requests that end as `RequestFutures` says.
`FrontendConnection` opens and closes what `CdpClient` is one connection of, and has what
`CdpClient` shows of the ways its `shutdown()` may fail to return. The
crashes of `CrashListeners` are those `detect_child_exit()` of `PluginIpc` reports.

### CdpClient

Variables carry the names of the members (`m_pending_requests`,
`m_incoming_queue`, `m_event_callbacks`, `m_token_to_event`, `m_shutdown`). Each
thread has a program counter: `caller[r]` for the thread in `send_host()`,
`reader` for `handle_message()`, `worker`, `cleanup`, `pool[p]` and `closing` for
`shutdown()`. One action is one critical section, or one step between two of
them: `send_host()` is `CheckShutdown`, `Register`, `Write` and `SendFailed`;
`cleanup_stale_requests()` is `CollectStale` under the lock and `FailStale` after it.

A wait on a condition variable is three steps: the predicate is evaluated with
the mutex held, the thread joins the wait set, a notification makes it go on.
Between the first two the mutex keeps everybody out who takes it, which
`shutdown()` does not. Spurious wakeups are left out, so that a lost
notification shows; they are no guarantee of progress.

`Expire(r)` is the passing of a request's time. `EndpointAnswers` and
`EndpointEmits` are the browser, which may answer late, never, or with an error.
A callback may send a request and wait for it (`CallbackRequests`).

### PluginIpc

One `PluginProcess` from INIT to its destruction. `step`, `current` and
`returned` are the thread inside `call()` (there is one at a time, because
`backend_manager` keeps `m_processes_mutex` around it), `reader` and `entry` the
reader thread, `stage` the owner's way through construction, use and destruction.
`child` is where the Lua host is: reading INIT, in its loop, running a handler, in
`rpc_client::call()`, leaving. The socket is a sequence of frames each way;
`Oversized` lets a frame be one that `read_msg()` rejects. A process is running,
closing (its descriptors are closed, it cannot be waited for yet), a zombie,
reaped, or its pid is another's. `ReapedBySteam` is Steam's own SIGCHLD handler.

A socket holds `SocketCapacity` frames. `send_all()` has no timeout: a thread that
writes into a full socket stays where it is (`WriteBlocked`) until the other side has read or
has closed it. This is so for `call()` before it begins to wait (`"writing"`), for a notification,
for the answer the reader sends when a handler has returned, and for the child.

### BackendLifecycle

The threads are Main, which runs `plugin_loader`'s constructor and
`start_plugin_backends()`; Frontend, the pool thread that injects the frontend
at each connection; Users, threads of the FFI pool or of MEP; and the reader of
each child. Every one of them can enter `update()`. `emittedPlugins` is searched
in one step and written in another (`LoadedFinds`, `LoadedStores`), because the code takes
no lock there: the outcome of the race is that the later write wins. `are_all_backends_ready()` is two
steps, since it reads two things that change independently; `counted` is what the first of them saw.

Users act from the start: `cloude::entry()` starts the MEP server (`cloude.cc:73`) before the backends (line 75),
so that a client may enable, disable or stop a plugin while Main spawns it. `set_plugins_enabled()` then assigns the list
Main iterates over, without a lock, and Main may meet any of the plugins of both lists (`MainMeets`). A crashed child counts
as not running: its reader has reaped it. Callbacks are numbered in the order of
their registration, 0 being `platform::wait_for_backend_load`.

### ConfigManager

`data`, `mutex`, `save_mutex` and `save_disabled` are the members `_data`, `_mutex`,
`_save_mutex` and `_save_disabled`; `file` and `temp` are `config.json` and
`config.json.tmp`, each missing, torn (empty or cut off) or a whole configuration.
`save_to_disk()` is five steps: `LockSave`, `LockData`, `OpenTemp`, `WriteTemp`, `Rename`, each
of which can fail where the code looks at an error. `left[t]` counts the saves
a thread has still to make: `set()` makes its own and those of the theme store's
listener, all with `_mutex` held, whereas `plugin_config` and the theme store set first and save after, without
it (`SetSkipping`). How many saves a listener adds depends on the themes; the
model takes any number in `ListenerSaves`, since nothing changes between them.

A session begins with the constructor (`Start`, `Create`, `Load`) and ends with `Crash`
at any step: the singleton is never deleted, so that no destructor saves at the
end. `known` and `failed` are bookkeeping for the properties: whether the session
has opened or written the file that is there, and whether the last save was given up. A read that fails
after the file was opened counts as corrupt JSON, as in the code: the session goes on with the defaults.
A crash is one of the process, not of the machine: what was written stays written.

### PatchArena and LoopbackPatcher

`arena` is the shared memory: `used`, the blocks given out (`heap`, offset to block) and the
header of the map. Each C function (`salloc`, `hashmap_add_key`, `patchlist_add`, ...) is an
operator that takes an arena and returns one, and a call is a step, so that the handler
of PATCHES (`job[c]` for the child `c`, on whose reader it runs) is interrupted between any two of them, by the other process too.
Sizes are those of the structs and sums wrap at `Word`. When an allocation fails the
code goes on with offset 0, which read as a string is empty and followed as an array
is NULL (`loader = "down"`). `sent` is what the children sent, kept beside the arena
for the properties.

The arena has no lock. Handlers run on the readers of several children at once
(`plugin_loader.cc:769-793`), and the thread that stops a backend removes its entry (`backend_mgr.cc:195-197`). `Inside` is the
set of those who are in the arena's code; the step by which a second one enters sets `overlapped`, for good. What
the memory holds after such a race is anybody's guess, so that from then on `arena` stands for nothing, handlers
end somehow (`PatchesRaced`), and the properties say nothing. `PatchRegistry` has the same end: `Break` clears `intact`.

`LoopbackPatcher` adds `find_file_matches()`: `get_file_regex_pool()` walks the arena, the
patterns are tried, `find_patch_by_id()` walks it again, and the transforms are applied
to the found region. `clean` remembers whether the loader was in the arena's code in between (`ReadRaced`).
`Rejected` are the file patterns that RE2 does not compile: one of them in the pool makes `re2_multi_match()` return -1, and no
plugin's patches are applied (`resource_transformer.cc:329-333`, `818-824`).
Regular expressions are texts that stand for themselves; RE2 is external. `Walk` is the sequence of stops
`<<entry, patch>>` that both walks make, so that an id is a place in it. The loops of `handle_file_patches()` and
`apply_transform_set_scoped()` are recursive functions from the number of rounds to the state after them.

### WebkitWorlds

One page is attached by whichever thread of the pool gets its event. `pc[th]` follows a
thread through the handler, `attach_to_target()` and `expose_cloude_to_ctx()`: one
step per critical section and one per answer of the browser, with a failing step for
each. `m_attached_targets` and `m_attachments_in_flight` are the members; `m_targets_mutex` is a
variable because the code holds it across one request (`LockForRemoval`). Events of a page come in order but
are handled by several threads at once.

### FrontendConnection

Three threads: the hook, which opens a new pair of FIFOs and sets
the globals one after the other; the loader in `start_plugin_frontends()` and `connect_socket()`; and the connection's
reader (`deaf` if it began before there was an eventfd to poll) and `terminate_watcher` (`WatcherTests`, `WatcherSleeps` are
the predicate and the wait, between which a notification without the mutex is lost).

Reader, watcher and loader each call `shutdown()` of the client; the first runs it and stays in it. `shutdown` is how
far it is: joining the worker, which may have missed its wakeup (`"missed"`), then joining the pool (`"draining"`), which does not
end while a callback waits for the browser (`callback`). The reader may wait for space in the client's queue (`"full"`) and miss
the wakeup too (`"lost"`). `Stuck` is the three of them: somebody waits for ever.

### CrashEventBus and CrashListeners

`CrashEventBus` has an action per critical section of the bus; `notify()` calls the listeners one by one
with the mutex held (`Notify`, `Ring`), `add_listener()` replays after releasing it (`AddListener`, `Replay`).
In `CrashListeners` the task of each connection removes the old listener of the frontend and adds its own, two tasks at a
time; MEP clients subscribe and unsubscribe; `plugin_loader::shutdown()` removes the frontend's listener while tasks may still run.

## 3. Runs

Passing runs:

| Run | Bounds | Shows |
|---|---|---|
| `cdp` | 1 request, made by a thread or by a callback that waits for it, 1 event, 1 listener, queue of 1, pool of 1 | nothing is lost, owned twice or resolved twice; outcomes are true; `RequestFutures` is implemented; the listener maps agree; after `shutdown()` nothing runs; requests resolve, backpressure is released, `shutdown()` returns once its worker has |
| `ipc_safety` | INIT, 2 calls and SHUTDOWN, 1 frame of the child, sockets of 2 frames, with coroutines, rejected frames, crashes, death of the parent, reused pids | answers belong to their calls, promises are set once, crashes are real, `on_unload` runs at most once, destruction is complete |
| `ipc_liveness` | INIT, 1 call and SHUTDOWN, 2 notifications, 1 frame of the child, sockets of 2 frames, Lua that may hang, no coroutines | calls return unless a write stays blocked, destruction ends unless a write or a handler never does, crashes are noticed once the reader is back from its handler, notifications are in order |
| `lifecycle_user` | 2 plugins, any of them enabled at first, 1 user with 1 operation from the start, 1 connection, crashes | no dispatch is missed, each callback runs once, no running child is left without an owner |
| `config_safety` | 2 threads, 4 operations, 2 sessions, 2 plugin keys of which 1 is allowed, failing file operations | the file is whole and never set back, unread settings are kept, no change lacks a save |
| `patches` | 2 plugins, 2 children at once, 3 starts, messages of 1 and 2 patches, arena of 360 bytes, first capacities 1, `Word` 4096, documents of at most 5 tokens, 1 rejected pattern | up to the first overlap: blocks are disjoint, offsets stay in their blocks, the arena implements `PatchRegistry` and holds what was sent, documents are edited as the patches say, or not at all if a pattern is rejected |
| `webkit` | 1 page, 3 threads, 3 changes | the page gets one script, no wait under the lock, the page is hooked unless an attachment failed |
| `connection` | 3 starts of the browser, a stop at any time; beside it 2 crashes, 2 connections, 3 listeners | a new pipe is taken and a stop ends the connection, unless somebody is `Stuck`; crashes reach at least one listener, and none twice |

One request is enough for the cleanup thread, the worker, a failing write and `shutdown()`
to compete for it, and requests share nothing but the map, whose entries the
proofs treat for any number; a queue limit of 1 makes every push meet the bound, and the
code uses the limit in that one comparison only. Two calls are enough for a late
answer of the first to arrive during the second; two notifications for an order, and with INIT's and the call's own frames
for a socket of two frames to be full.
Two plugins are enough for one to be counted for the other, and Main, two readers
and the frontend (or a user) to meet in `update()`. Two threads are enough for one to
change what the other saves, two sessions for a file of the first to meet the second.
Two children are enough for two handlers, or a handler and a stop, to meet.
Capacities of 1 make the map, the list of patches and the list of transforms all grow;
360 bytes hold the patches of two starts and refuse some of the third, so that both a full and a sufficient arena occur;
replacements make documents of up to 6 tokens, so that the limit of 5 refuses one. Pages share only the lock and the
pool, so that one page with a thread for its creation, one for a change and one for its
destruction meets every order. Three starts are a reconnection that another start interrupts; two
connections have two tasks that replace the listener, and the third listener is a MEP client's. `MCFrontend` runs the connection
and the listeners side by side, not interleaved: they share no variable.
Deadlock is checked in `patches` only: the other systems stop when their bounds are used up or
they are shut down, and `ConfigManager` also because of `config_deadlock`.

Runs that end in a violation. Each states what a comment of the code says, and
TLC shows how the code departs from it (PROJECT.json, `findings`, quotes the line):

| Run | What happens |
|---|---|
| `cdp_blocking_callback` | `shutdown()` joins the pool before it fails the request a callback waits for |
| `lifecycle_early` | a plugin that is being disabled still has its report, which is counted against another enabled backend that has none |
| `config_deadlock` | a thread in `set()` and one in `plugin_config::set()` wait for each other's lock |
| `crash_listeners` | a listener that is added after a crash was told to another is not told of it |

Some passing properties have a condition that the code does not ensure. The condition is part of the formula and its
comment says where the code may break it:

* `CallsReturn` that no write stays blocked: `send_all()` (`plugin_ipc.h:125`) has no timeout, and `call()` begins its 30 seconds
  only after it. `DestroyEnds` also, and `CrashNoticed`, that the handler the reader runs returns; it may wait for a lock
  (`config_deadlock`) or a future.
* `ShutdownReturns` that the worker was woken and that no callback waits (`cdp_blocking_callback`).
* `NewPipeIsTaken` and `StopEndsConnection` that nobody is `Stuck`, which is the same `shutdown()` seen from the connection.
  `NewPipeIsTaken` also that the start found the connection complete (`calm`): a start in the middle of a reconnection may pair descriptors of
  two browsers. `StopEndsConnection` speaks of the connection and not of the return of `start_plugin_frontends()`.
* The properties of the arena that no two threads have met in it, and `PatchedAsSent` that nobody was in it while the hook read.
  Nothing in the code ensures either; the states where it fails are in the model and in the hazards.
  `HoldsWhatWasSent` is about an arena that never refused, and a backend that fails after it has sent its patches leaves them there, to be sent again
  with the next start (`backend_mgr.cc:196` is not reached): they count as sent.
* `UnreadIsKept` that the file could not be opened: one that cannot be read after it was opened is overwritten.
* `CrashesAreOffered` that there is at least one listener, as `crash_listeners` shows.
* `NoMissedDispatch` that the two sizes are equal. A plugin that is disabled while Main spawns it, or two reports that overwrite each other, make
  them differ for ever, and the frontend does not start.

The hazards in PROJECT.json say for each what
happens otherwise: among them a request dropped by a child that waits in `call()`, which the model contains, and a SIGTERM that
ends the child before `on_unload` (`child_process.cc:593`), which `UnloadOnce`, an upper bound, allows.

Every property of a passing run has a mutant: a variant of one definition, given
beside it in the module and marked `variant`, with a plausible slip (a dropped
guard, a swapped order, a missing reset) that makes TLC find the property violated.

### Fairness

* `CdpClient`: weak fairness of each thread's steps, and of the passing of time.
  None for callers of the API, nor for the endpoint. Justified by the scheduler,
  a pipe whose reader lives, and callbacks that return unless they wait for a future.
* `PluginIpc`: weak fairness of the parent's threads where they are not blocked in a write, and of the kernel's
  transitions. The child need not do anything, reading included: its Lua code may loop for ever. Nor is
  the handler of a child's request bound to return (`Served`).
* `WebkitWorlds`: weak fairness of each handler, whose requests are answered or time out
  after 30 seconds (`RequestsResolve` of `CdpClient`). No page is bound to open, change or close.
* `FrontendConnection`: weak fairness of the loader, the reader, the watcher, the joins of `shutdown()`
  and a hook that has begun. No start or stop is bound to come, and no callback to get its answer.
* `ConfigManager` (in `config_deadlock` only): weak fairness of a thread inside an
  operation, with file operations that succeed. What remains is a wait for ever.

## 4. Proofs

Proved with TLAPS for all values of the constants, from the assumptions named in
the modules. Sentinels are no members of the sets, bounds are natural numbers, the set of
plugins is finite (`FiniteAssumption`: `update()` compares two sizes), and the arena has room
for the empty map and sums of sizes stay below `Word` (`SizesAssumption`: 1 MiB of arena
and frames of 16 MiB against 32 bits, in `plugin_ipc.h`). Texts are sequences, and requested documents not larger than
`MaxFileSize` (`TextsAssumption`, `DocumentsAssumption`: `find_file_matches()` rejects others at once). One theorem has a hypothesis: `NotificationsInOrder`
is about plugins without coroutines.

* **`CdpClientProofs`.** `TypeCorrect` is `Spec => []TypeOK`, by one step per action;
  it includes the bound on the queue, which needs that the worker and the reader
  act on it under the same mutex. `RequestsAreKept` and `RequestsHaveOneOwner` rest on
  `RequestInv == NoRequestLost /\ SingleOwner /\ OwnedRegistered`: neither part is
  inductive alone. A request taken by two threads could be dropped by the first,
  and `OwnedRegistered` is needed because `Register` would otherwise put a request
  into the map that the cleanup thread already holds. `ListenersAgree` by `TokensInv`: a token that `on()` has not
  returned yet is in neither map. `ShutdownIsQuiet` by `ClosingInv`: each join leaves
  a thread that has ended for good, and once the worker has ended nothing refills the pool's queue.
  `OutcomesAreTrue` by `Carried` and `Justified`: a response is the endpoint's answer at every place
  it passes from the transport to the promise, and a request that was written is never a
  failed send. With these, `ClientImplementsFutures` maps each step to one
  step of `RequestFutures` or to a stutter; `shutdown()`, which fails all pending requests at
  once, maps to one action of that module.
* **`PluginIpcProofs`.** `UnloadsAtMostOnce` by `Unloading`: the flag is set before
  `on_unload` is run. `DestructionIsComplete` by `Destroying`, which says for every
  stage of the destructor where the reader and the child are; it needs that the
  child's thread exists exactly as long as its process runs, and that no call is in progress once
  destruction has begun. `CrashReportsAreReal` by `Crashing`. `PromisesSetOnce`, an action
  property, by `Promises`: a pending or just taken call has no outcome, and ids are
  not used twice. `TypeCorrect` by `Typing` and `Promises`: `m_pending` has the running call at most.
  `AnswersAreOwn` by `Ordered` and `Truthful`. The socket may carry answers to
  calls that were given up, so that an answer alone says nothing; what makes it the right one is that the
  requests still to be served are of calls not answered yet, in the order of their
  ids, and that each answer under way is the one recorded for its id. `NotificationsInOrder`, an
  action property, by `Delivery`: the notifications delivered, deferred and still in the
  socket are numbered without a gap, and the loop finds nothing deferred.
* **`BackendLifecycleProofs`.** `CallbacksRunOnce` by `Dispatching`: a callback is unregistered,
  in `listeners`, in one thread's copy, or has been run; new callbacks are new because
  the registered ones are `0 .. n - 1`. `TypeCorrect` needs that this `n` stays within `Callbacks`: `Budget`
  counts the callbacks registered and those that users bound to inject (`Committed`) will still register.
  `NoWakeupLost` by `Owed`: when the two sizes are equal and callbacks wait, some thread is about to compare
  them or to take the callbacks, although it may have read the first size long before.
  `ChildrenAreOwned` by `Filing` (who runs which plugin, and which thread works on which process): with it `ChildrenOwned` is inductive, for any number of
  users that start and stop plugins at any time. That a disabled plugin has no process is not so: a user may disable it
  before Main has published it.
* **`PatchArenaProofs`.** All four theorems rest on `Handled`, which says of the arena what follows up to the first overlap. `Alone`
  ties the two: without an overlap at most one child has a handler under way, and no other thread may enter without making one.
  A function of the arena writes through offsets,
  and what it overwrites depends on where they lead; so the invariant records, in a *shape*,
  what each block was allocated as, and says that every cell, also of arrays that were replaced,
  refers to blocks of the right kind (`Proper`), that the header's arrays are as long as it says (`MapOK`),
  and that live entries share neither names nor arrays (`Distinct`, `OwnLists`, `OwnTransforms`). `Named` is for the readers, see below. Replaced arrays
  keep their old offsets, so that separation holds of live entries only. `JobsOK` ties the pointers each handler
  of PATCHES keeps between its steps to its plugin's entry and to the last patch of that list: a
  growth or removal by another thread that came between them would be an overlap. Each C function has a lemma about the typed heap
  (`AllocTyped`, `PatchlistAdd`, `PatchAddTransform`, `AddKey`, `RemoveKey`) and one about what the registry sees of it
  (`NextStep`, `TransformsStep`, `RequestStep`, `RemoveStep`), which together give `AllocationsAreDisjoint`, `EntriesAreValid`, `NothingIsLost`
  and the refinement `ArenaImplementsRegistry`, failing allocations included.
* **`LoopbackPatcherProofs`.** `HookOnlyReads` is `PatcherSpec => Spec`: seen from the loader, a system with the hook is one
  without it. So `HookReadsSoundArena` carries the four results over to the specification the run `patches` checks.
  `DocumentsArePatchedAsSent` is `PatcherSpec => []PatchedAsSent`: what is served is what the children's patches make of the
  document, or the document itself if RE2 rejects one of their patterns. Its invariant `ReaderOK` says that, as long as the arena is left alone, what the hook holds is what it would
  read now; `Named`, a part of `Handled`, that every counted entry has its name unless an allocation has failed, without
  which the walk could meet patches of an entry that belongs to no plugin. The rest is about data, for all texts and all
  arenas. `FlattenIsWalk` and `WalkFacts`: the walk meets each patch of each entry once. `IdFacts`: both walks find the same patch of the same plugin
  under an id. `SortedImage`: an order of the ids by name is an order of the patches by plugin. `ScopedTransforms`: the text
  around the region stays as it is and the end of the region moves with its size, so that editing in the buffer is editing the region
  by itself, also where a result is too large and dropped. `ApplyPatchIs` and `HandledInOrder` put this together for one patch and for all. The library's
  induction rules take an operator, which the provers cannot instantiate; `Induct` states induction with a set instead, from the least element of
  a set of naturals (`LeastOf`), and `LoopRuns` and `ReplacedExists` show by it that the recursive functions exist.
* **`ConfigManagerProofs`.** `ConfigInv` is inductive and gives all four theorems. Its heart is
  `Locking` (who writes holds both locks and may write) with `TempIsCurrent` (what is
  about to be renamed is what is in memory): nobody changes `data` between the write
  and the rename, so `FileIsReplacedWhole` and `ChangesAreSaved` hold for any number of threads.
  `Constructing` says that the constructor runs alone and that the file it fills is
  not whole, without which `Create` could overwrite settings; `FileKnown` turns the test of `_save_disabled`
  into `UnreadFileIsKept`. `SavesCounted` ties the counter of saves to the place of the thread.

* **`WebkitWorldsProofs`.** `ScriptsDoNotStack` and `NeverWaitsUnderLock` follow from `WebkitInv`, for any number of pages,
  threads and changes. Neither is inductive. `Flights` gives each target to one thread at a time, although three
  handlers look at it; `Owned` says that a session gets its script only once, from its thread, which is why the removal under the lock
  finds nothing; `Known` says that while a page lives the table has the only session that can have a script, for which `Opened`
  must keep the handler of a destruction away from a page that is there.
* **`CrashListenersProofs`.** `EveryCrashIsOffered` by `BusInv`: a crash is on one way only (`OneWay`), so that the call
  under the lock and the replay after it never meet in one listener. The lemmas are about the actions of `CrashEventBus`
  alone; the theorem composes them with the steps of tasks and subscribers, of whose variables it needs only
  that a task's listener is one of the bus (`TaskTyped`).

Only model-checked: the liveness properties (fairness and ENABLED are beyond the
prover), and the properties of the runs that end in a violation.

## 5. Not modelled

The contents of messages, scripts and files, and every component listed as
`not_modelled` in PROJECT.json with its reason: I/O, parsing and platform
code, or planned below. `wait_for_shared_js_session()` of `cdp_client` is not called anywhere.
Most of the repository's implementation lines are third-party code in `thirdparty/` (LuaJIT, libsnare and
others), which the loader uses and which no module models; the models are about the loader's own code in `src/src`.

## 6. Plan

Modules still to be written, the most important first:

1. `FfiBinder`: calls of contexts that are gone, the pool at shutdown.
2. `NetworkHooks`: the list of hooks that is changed while `Fetch` events walk it.
3. Pure algorithms: precedence in `semver.cc`, `cmdline_parser.cc`.

Every safety property that a passing run checks is proved. What is left out of the arena is what a race in it does: it ends
the properties, and is not followed further. Theorems to come are about
what the liveness properties rest on: who holds and awaits which lock in `ConfigManager`, which connection the reader and the
watcher of `FrontendConnection` belong to, and types for the modules that have no theorem about them.
