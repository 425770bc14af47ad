--------------------------- MODULE ConfigManager ---------------------------
(***************************************************************************)
(* config_manager (system/config.cc) and the plugins' configuration built  *)
(* on it (bindings/plugin_config.cc): the settings in memory, the file      *)
(* they are saved to, and the threads that change them.                     *)
(*                                                                          *)
(* A configuration is a function from keys to values. It has two kinds of   *)
(* keys: Settings, which set() changes with propagation, and the keys of a  *)
(* plugin's own configuration, which plugin_config changes without it and   *)
(* then saves by a call of its own, as the theme store does. Between the    *)
(* two lies what is hard here: set() calls save_to_disk() with _mutex held, *)
(* the others without.                                                      *)
(*                                                                          *)
(* config_manager is a singleton that is never deleted (singleton.h), so    *)
(* its destructor does not run: however the loader ends, it is Crash.       *)
(***************************************************************************)
EXTENDS Naturals, FiniteSets

CONSTANTS
    Threads,        \* threads of the FFI pool, of MEP, and readers of children
    Settings,       \* keys with a default, changed by config_manager::set()
    PluginKeys,     \* keys of one plugin's configuration
    Values,
    DefaultValue,   \* what head::get_default_config() gives every setting
    Absent,         \* "the key is not there"
    Keep,           \* in a change: "leave this key alone"
    Missing,        \* no file, no data
    Torn,           \* a file that is empty or cut off
    None,
    MaxKeys,        \* MAX_KEYS of validate_limits()
    MaxAttempts,    \* attempts of the rename
    ListenerSaves,  \* how many saves a listener may add to a change
    MayFail,        \* file operations may fail
    MaxOps,         \* bound: operations begun
    MaxStarts       \* bound: sessions

Keys == Settings \cup PluginKeys
Configs == [Keys -> Values \cup {Absent}]
Changes == [Keys -> Values \cup {Absent, Keep}]

\* The sentinels are told apart from what they stand beside.
ASSUME ConfigAssumption ==
    /\ DefaultValue \in Values
    /\ Absent \notin Values
    /\ Keep \notin Values \cup {Absent}
    /\ Missing # Torn
    /\ {Missing, Torn} \cap Configs = {}
    /\ None \notin Threads
    /\ Settings \cap PluginKeys = {}
    /\ MaxKeys \in Nat /\ MaxOps \in Nat /\ MaxStarts \in Nat
    /\ MaxAttempts \in Nat \ {0}
    /\ ListenerSaves \subseteq Nat
    /\ MayFail \in BOOLEAN

VARIABLES
    running,        \* "off", "starting" (in the constructor) or "up"
    data,           \* _data
    mutex,          \* owner of _mutex, which is recursive
    save_mutex,     \* owner of _save_mutex
    save_disabled,  \* _save_disabled
    file,           \* config.json
    temp,           \* config.json.tmp
    pc,             \* where each thread is
    left,           \* calls of save_to_disk() a thread still has to make or to finish
    change,         \* what a thread is about to set without propagation
    attempt,        \* renames tried so far
    frontend,       \* the configuration the frontend read last
    failed,         \* the last save was given up
    known,          \* this session has opened the file as it is, or written it
    ops, starts     \* counters of the bounds

diskVars == <<file, temp, known>>
lockVars == <<mutex, save_mutex>>
threadVars == <<pc, left, change, attempt>>
countVars == <<ops, starts>>
vars == <<running, data, save_disabled, frontend, failed, diskVars, lockVars, threadVars, countVars>>

Whole(f) == f \in Configs

Saving == {"save", "save_data", "open", "write", "rename"}

FlagType ==
    /\ running \in {"off", "starting", "up"}
    /\ save_disabled \in BOOLEAN /\ failed \in BOOLEAN /\ known \in BOOLEAN
    /\ ops \in Nat /\ starts \in Nat

ConfigType ==
    /\ data \in Configs \cup {Missing} /\ frontend \in Configs \cup {Missing}
    /\ file \in Configs \cup {Missing, Torn} /\ temp \in Configs \cup {Missing, Torn}

ThreadType ==
    /\ mutex \in Threads \cup {None} /\ save_mutex \in Threads \cup {None}
    /\ pc \in [Threads -> {"idle", "create", "load", "set"} \cup Saving]
    /\ left \in [Threads -> Nat] /\ attempt \in [Threads -> Nat]
    /\ change \in [Threads -> Changes]

\* Every variable holds a value of its kind; in particular what is in memory is
\* whole, whatever load_from_disk() finds in the file (config.cc:159-192).
TypeOK == FlagType /\ ConfigType /\ ThreadType

-----------------------------------------------------------------------------
(* Configurations.                                                          *)

Defaults == [k \in Keys |-> IF k \in Settings THEN DefaultValue ELSE Absent]

NoChange == [k \in Keys |-> Keep]

\* merge_default_config(): a key that is not there gets its default.
WithDefaults(c) == [k \in Keys |-> IF c[k] = Absent THEN Defaults[k] ELSE c[k]]

\* What set() makes of data, given the leaves it writes.
Changed(ch) == [k \in Keys |-> IF ch[k] = Keep THEN data[k] ELSE ch[k]]

PluginSize(c) == Cardinality({k \in PluginKeys : c[k] # Absent})

Init ==
    /\ running = "off" /\ data = Missing /\ frontend = Missing
    /\ file \in {Missing, Torn, Defaults} /\ temp \in {Missing, Torn}
    /\ mutex = None /\ save_mutex = None
    /\ pc = [t \in Threads |-> "idle"]
    /\ left = [t \in Threads |-> 0]
    /\ change = [t \in Threads |-> NoChange]
    /\ attempt = [t \in Threads |-> 0]
    /\ save_disabled = FALSE /\ failed = FALSE /\ known = FALSE
    /\ ops = 0 /\ starts = 0

-----------------------------------------------------------------------------
(* The constructor. The first call of get_instance() runs it; the others    *)
(* wait for it.                                                             *)

\* A missing file is created. Opening it makes it empty; that it could not be
\* opened is not noticed.
Start(t) ==
    /\ running = "off" /\ starts < MaxStarts
    /\ running' = "starting" /\ starts' = starts + 1
    /\ \/ /\ file = Missing
          /\ file' = Torn /\ pc' = [pc EXCEPT ![t] = "create"]
       \/ /\ file # Missing \/ MayFail
          /\ file' = file /\ pc' = [pc EXCEPT ![t] = "load"]
    /\ UNCHANGED <<data, save_disabled, frontend, failed, temp, known, lockVars, left, change,
                   attempt, ops>>

\* The defaults are written into it, or the disk is full.
Create(t) ==
    /\ pc[t] = "create"
    /\ file' \in {Defaults} \cup (IF MayFail THEN {Torn} ELSE {})
    /\ pc' = [pc EXCEPT ![t] = "load"]
    /\ UNCHANGED <<running, data, save_disabled, frontend, failed, temp, known, lockVars, left,
                   change, attempt, countVars>>

\* variant: what was read before the parser failed stays.
ParsedSoFar == IF Whole(file) THEN WithDefaults(file) ELSE file

\* What load_from_disk() finds in a file it has opened: a file that is no JSON
\* is copied aside, to a backup that nothing reads again, and counts as empty.
Parsed == IF Whole(file) THEN WithDefaults(file) ELSE Defaults

\* load_from_disk() up to its save. An error while a file that was opened is read
\* counts as no JSON. A file that is there and cannot be opened disables saving
\* for the session.
Load(t) ==
    /\ pc[t] = "load" /\ mutex = None
    /\ mutex' = t
    /\ temp' = Missing
    /\ \/ /\ data' \in {Parsed} \cup (IF MayFail THEN {Defaults} ELSE {})
          /\ known' = Whole(file)
          /\ UNCHANGED save_disabled
       \/ /\ MayFail /\ file # Missing
          /\ data' = Defaults /\ save_disabled' = TRUE
          /\ UNCHANGED known
    /\ pc' = [pc EXCEPT ![t] = "save"] /\ left' = [left EXCEPT ![t] = 1]
    /\ UNCHANGED <<running, frontend, failed, file, save_mutex, change, attempt, countVars>>

-----------------------------------------------------------------------------
(* save_to_disk().                                                          *)

\* The call returns. A thread that came from set() goes on holding _mutex until
\* the saves of its listeners and its own are done; the constructor's is its last step.
SaveReturns(t) ==
    /\ save_mutex' = None
    /\ left' = [left EXCEPT ![t] = @ - 1]
    /\ IF left[t] > 1
       THEN /\ pc' = [pc EXCEPT ![t] = "save"] /\ UNCHANGED <<mutex, running>>
       ELSE /\ pc' = [pc EXCEPT ![t] = "idle"] /\ mutex' = None /\ running' = "up"
    /\ UNCHANGED change

LockSave(t) ==
    /\ pc[t] = "save" /\ save_mutex = None
    /\ save_mutex' = t
    /\ pc' = [pc EXCEPT ![t] = "save_data"]
    /\ UNCHANGED <<running, data, save_disabled, frontend, failed, diskVars, mutex, left, change,
                   attempt, countVars>>

\* variant: the flag is not tested.
AlwaysPersist == TRUE

MayPersist == ~save_disabled

LockData(t) ==
    /\ pc[t] = "save_data" /\ mutex \in {None, t}
    /\ \/ /\ ~MayPersist
          /\ SaveReturns(t)
       \/ /\ MayPersist
          /\ mutex' = t
          /\ pc' = [pc EXCEPT ![t] = "open"]
          /\ UNCHANGED <<running, save_mutex, left, change>>
    /\ UNCHANGED <<data, save_disabled, frontend, failed, diskVars, attempt, countVars>>

\* variant: the file itself is opened for writing.
TruncateTarget == temp' = Torn /\ file' = Torn

\* std::ofstream file(tempFilename)
Truncate == temp' = Torn /\ file' = file

\* The temporary file is created empty, or cannot be opened.
OpenTemp(t) ==
    /\ pc[t] = "open"
    /\ \/ /\ Truncate /\ pc' = [pc EXCEPT ![t] = "write"]
          /\ UNCHANGED <<running, failed, lockVars, left, change>>
       \/ /\ MayFail /\ failed' = TRUE
          /\ SaveReturns(t) /\ UNCHANGED <<file, temp>>
    /\ UNCHANGED <<data, save_disabled, frontend, known, attempt, countVars>>

\* The whole configuration is written, or the temporary file is removed.
WriteTemp(t) ==
    /\ pc[t] = "write"
    /\ \/ /\ temp' = data /\ pc' = [pc EXCEPT ![t] = "rename"]
          /\ attempt' = [attempt EXCEPT ![t] = 0]
          /\ UNCHANGED <<running, failed, lockVars, left, change>>
       \/ /\ MayFail /\ failed' = TRUE
          /\ temp' = Missing
          /\ SaveReturns(t) /\ UNCHANGED attempt
    /\ UNCHANGED <<data, save_disabled, frontend, file, known, countVars>>

\* The rename, tried again while it fails. When the attempts are used up the
\* temporary file stays.
Rename(t) ==
    /\ pc[t] = "rename"
    /\ \/ /\ file' = temp /\ temp' = Missing /\ known' = TRUE
          /\ failed' = FALSE
          /\ SaveReturns(t) /\ UNCHANGED attempt
       \/ /\ MayFail /\ attempt[t] + 1 < MaxAttempts
          /\ attempt' = [attempt EXCEPT ![t] = @ + 1]
          /\ UNCHANGED <<running, failed, diskVars, lockVars, pc, left, change>>
       \/ /\ MayFail /\ attempt[t] + 1 = MaxAttempts
          /\ failed' = TRUE
          /\ SaveReturns(t) /\ UNCHANGED <<diskVars, attempt>>
    /\ UNCHANGED <<data, save_disabled, frontend, countVars>>

-----------------------------------------------------------------------------
(* Operations. Each begins in a thread that has nothing else to do; locks   *)
(* that are taken and released within a step only have to be free.          *)

Begin(t) ==
    /\ running = "up" /\ pc[t] = "idle" /\ ops < MaxOps
    /\ ops' = ops + 1
    /\ UNCHANGED <<running, save_disabled, failed, diskVars, attempt, starts>>

\* config_manager::set() with a value that is new. The listener of the theme
\* store runs inside, may put a default back and saves: then the change has
\* further saves, all of them with _mutex held. (A value that is not new changes nothing.)
Set(t, k, v) ==
    /\ Begin(t) /\ mutex = None
    /\ data[k] # v
    /\ \E n \in ListenerSaves, w \in {v, DefaultValue} :
          /\ n = 0 => w = v
          /\ data' = [data EXCEPT ![k] = w]
          /\ left' = [left EXCEPT ![t] = n + 1]
    /\ mutex' = t
    /\ pc' = [pc EXCEPT ![t] = "save"]
    /\ UNCHANGED <<frontend, save_mutex, change>>

\* get_all(), by which the frontend reads the configuration it shows.
GetAll(t) ==
    /\ Begin(t) /\ mutex = None
    /\ frontend' = WithDefaults(data)
    /\ UNCHANGED <<data, lockVars, pc, left, change>>

\* set_all(): the frontend sends all of what it has read, with a setting changed.
SetAll(t, k, v) ==
    /\ Begin(t) /\ mutex = None
    /\ frontend # Missing
    /\ data' = [frontend EXCEPT ![k] = v]
    /\ \E n \in ListenerSaves : left' = [left EXCEPT ![t] = n + 1]
    /\ mutex' = t
    /\ pc' = [pc EXCEPT ![t] = "save"]
    /\ UNCHANGED <<frontend, save_mutex, change>>

\* theme_config_store::set_theme_color(), which sets without propagation and then saves.
ThemeSet(t, k, v) ==
    /\ Begin(t)
    /\ change' = [change EXCEPT ![t] = [NoChange EXCEPT ![k] = v]]
    /\ pc' = [pc EXCEPT ![t] = "set"]
    /\ UNCHANGED <<data, frontend, lockVars, left>>

\* plugin_config::set() as far as its checks; a key too many is refused, as is what
\* is reserved, empty or too long, which no property tells apart.
PluginSet(t, k, v) ==
    /\ Begin(t) /\ mutex = None
    /\ data[k] # Absent \/ PluginSize(data) < MaxKeys
    /\ change' = [change EXCEPT ![t] = [NoChange EXCEPT ![k] = v]]
    /\ pc' = [pc EXCEPT ![t] = "set"]
    /\ UNCHANGED <<data, frontend, lockVars, left>>

\* plugin_config::del() as far as its copy of the plugin's configuration without the key.
PluginDelete(t, k) ==
    /\ Begin(t) /\ mutex = None
    /\ change' = [change EXCEPT ![t] = [j \in Keys |-> IF j \in Settings THEN Keep
                                                       ELSE IF j = k THEN Absent ELSE data[j]]]
    /\ pc' = [pc EXCEPT ![t] = "set"]
    /\ UNCHANGED <<data, frontend, lockVars, left>>

\* plugin_config::delete_all() as far as its call of set().
PluginDeleteAll(t) ==
    /\ Begin(t)
    /\ change' = [change EXCEPT ![t] = [j \in Keys |-> IF j \in Settings THEN Keep ELSE Absent]]
    /\ pc' = [pc EXCEPT ![t] = "set"]
    /\ UNCHANGED <<data, frontend, lockVars, left>>

\* variant: the caller does not save.
ReturnUnsaved(t) == pc' = [pc EXCEPT ![t] = "idle"] /\ UNCHANGED left

\* CONFIG.save_to_disk(), called by itself
CallSave(t) == pc' = [pc EXCEPT ![t] = "save"] /\ left' = [left EXCEPT ![t] = 1]

\* config_manager::set() without propagation; the save follows, without _mutex. That
\* notify_change() tells the frontend and the child afterwards changes nothing here.
SetSkipping(t) ==
    /\ pc[t] = "set" /\ mutex = None
    /\ data' = Changed(change[t])
    /\ change' = [change EXCEPT ![t] = NoChange]
    /\ CallSave(t)
    /\ UNCHANGED <<running, save_disabled, frontend, failed, diskVars, lockVars, attempt, countVars>>

\* The loader ends, at whatever point; only the files stay.
Crash ==
    /\ running # "off"
    /\ running' = "off" /\ data' = Missing /\ frontend' = Missing
    /\ mutex' = None /\ save_mutex' = None
    /\ pc' = [t \in Threads |-> "idle"]
    /\ left' = [t \in Threads |-> 0]
    /\ change' = [t \in Threads |-> NoChange]
    /\ attempt' = [t \in Threads |-> 0]
    /\ save_disabled' = FALSE /\ failed' = FALSE /\ known' = FALSE
    /\ UNCHANGED <<file, temp, countVars>>

-----------------------------------------------------------------------------

Construct(t) == Start(t) \/ Create(t) \/ Load(t)

Persist(t) == LockSave(t) \/ LockData(t) \/ OpenTemp(t) \/ WriteTemp(t) \/ Rename(t)

Request(t) ==
    \/ \E k \in Settings, v \in Values : Set(t, k, v) \/ SetAll(t, k, v) \/ ThemeSet(t, k, v)
    \/ \E k \in PluginKeys : PluginDelete(t, k) \/ \E v \in Values : PluginSet(t, k, v)
    \/ GetAll(t) \/ PluginDeleteAll(t)

Next == Crash \/ \E t \in Threads : Construct(t) \/ Request(t) \/ SetSkipping(t) \/ Persist(t)

Spec == Init /\ [][Next]_vars

\* Threads inside an operation go on; nobody has to begin one.
FairSpec ==
    /\ Spec
    /\ \A t \in Threads : WF_vars(Create(t) \/ Load(t) \/ SetSkipping(t) \/ Persist(t))

-----------------------------------------------------------------------------
(* Properties.                                                              *)

\* A whole config.json is only ever replaced, in one step, by the whole of what is
\* in memory then: no crash leaves half a file (config.cc:232), and no save
\* writes a configuration that another thread has meanwhile replaced.
FileReplacedWhole == [][Whole(file) /\ file' # file => file' = data]_vars

\* A session that could not open the settings on disk does not overwrite them
\* (config.cc:179-187): they are there when it ends. One that has opened them and
\* failed to read them takes them for no JSON and does, after it has copied them.
UnreadIsKept == [][Whole(file) /\ ~known => file' = file]_vars

\* No change is forgotten: while memory and file differ, a save is still to come
\* or under way, the last save has failed, or saving is disabled.
NoChangeForgotten ==
    data # Missing /\ ~save_disabled /\ ~failed /\ file # data => \E t \in Threads : left[t] > 0

\* What cloude.lua:49 tells the authors of plugins: a change that has begun is
\* carried through to the disk, unless the loader ends first.
ChangesArePersisted == \A t \in Threads : pc[t] = "set" ~> pc[t] = "idle"
=============================================================================
