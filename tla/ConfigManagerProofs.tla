------------------------ MODULE ConfigManagerProofs ------------------------
(***************************************************************************)
(* What holds of config_manager for any number of threads, keys and values *)
(* and any number of sessions and failures.                                 *)
(***************************************************************************)
EXTENDS ConfigManager, TLAPS

Writing == {"open", "write", "rename"}

\* Who writes holds both locks, and may write.
Locking ==
    \A t \in Threads :
       /\ pc[t] \in Writing => mutex = t /\ ~save_disabled
       /\ pc[t] \in Writing \cup {"save_data"} => save_mutex = t

\* What is about to be renamed is what is in memory.
TempIsCurrent == \A t \in Threads : pc[t] = "rename" => temp = data

\* A thread in save_to_disk() has a save left.
SavesCounted == \A t \in Threads : pc[t] \in Saving <=> left[t] > 0

\* The constructor runs alone, before there is anything in memory; the file it
\* creates is not yet whole.
Constructing ==
    /\ running = "off" => data = Missing /\ \A t \in Threads : pc[t] = "idle"
    /\ running = "starting" => \A t, u \in Threads : pc[t] # "idle" /\ pc[u] # "idle" => t = u
    /\ \A t \in Threads : pc[t] \in {"create", "load"} => running = "starting" /\ data = Missing
    /\ \A t \in Threads : pc[t] = "create" => file = Torn
    /\ running = "up" => data # Missing
    /\ \A t \in Threads : pc[t] \in Saving \cup {"set"} => data # Missing

\* A session that may save knows a whole file that is there.
FileKnown == data # Missing /\ ~save_disabled /\ Whole(file) => known

\* The inductive invariant.
ConfigInv ==
    /\ TypeOK
    /\ Locking
    /\ TempIsCurrent
    /\ SavesCounted
    /\ Constructing
    /\ FileKnown
    /\ NoChangeForgotten

\* Configurations are no sentinels.
LEMMA Sentinels == Missing \notin Configs /\ Torn \notin Configs /\ Missing # Torn
BY ConfigAssumption

\* The defaults, and what has been given defaults, are configurations.
LEMMA DefaultsAreConfigs == Defaults \in Configs /\ \A c \in Configs : WithDefaults(c) \in Configs
BY ConfigAssumption DEF Defaults, WithDefaults, Configs, Keys

\* Nothing is whole in memory or in a thread's hands when the loader has not been started.
LEMMA InitInv == Init => ConfigInv
<1> SUFFICES ASSUME Init PROVE ConfigInv
  OBVIOUS
<1>1. TypeOK
  <2>1. NoChange \in Changes
    BY DEF NoChange, Changes
  <2> QED
    BY <2>1, DefaultsAreConfigs DEF Init, TypeOK, FlagType, ConfigType, ThreadType, Saving
<1>2. Locking /\ TempIsCurrent /\ SavesCounted
  BY DEF Init, Locking, TempIsCurrent, SavesCounted, Writing, Saving
<1>3. Constructing /\ FileKnown /\ NoChangeForgotten
  BY DEF Init, Constructing, FileKnown, NoChangeForgotten, Saving
<1> QED
  BY <1>1, <1>2, <1>3 DEF ConfigInv
\* What the operations write is again a configuration, or a change of one.
LEMMA ChangesAreTyped ==
    /\ NoChange \in Changes
    /\ \A k \in Keys, v \in Values : [NoChange EXCEPT ![k] = v] \in Changes
    /\ \A c \in Configs, k \in Keys, v \in Values : [c EXCEPT ![k] = v] \in Configs
    /\ data \in Configs => \A ch \in Changes : Changed(ch) \in Configs
    /\ data \in Configs => \A k \in Keys :
          [j \in Keys |-> IF j \in Settings THEN Keep ELSE IF j = k THEN Absent ELSE data[j]]
             \in Changes
    /\ [j \in Keys |-> IF j \in Settings THEN Keep ELSE Absent] \in Changes
<1>1. NoChange \in Changes
  BY DEF NoChange, Changes
<1>2. \A k \in Keys, v \in Values : [NoChange EXCEPT ![k] = v] \in Changes
  BY DEF NoChange, Changes
<1>3. \A c \in Configs, k \in Keys, v \in Values : [c EXCEPT ![k] = v] \in Configs
  BY DEF Configs
<1>4. data \in Configs => \A ch \in Changes : Changed(ch) \in Configs
  BY DEF Configs, Changes, Changed
<1>5. data \in Configs => \A k \in Keys :
        [j \in Keys |-> IF j \in Settings THEN Keep ELSE IF j = k THEN Absent ELSE data[j]]
           \in Changes
  BY DEF Configs, Changes
<1>6. [j \in Keys |-> IF j \in Settings THEN Keep ELSE Absent] \in Changes
  BY DEF Changes
<1> QED
  BY <1>1, <1>2, <1>3, <1>4, <1>5, <1>6

\* Whole is a truth value.
LEMMA WholeIsBoolean == \A f : Whole(f) \in BOOLEAN
BY DEF Whole

\* What is loaded is a configuration.
LEMMA ParsedIsConfig == Parsed \in Configs
BY DefaultsAreConfigs DEF Parsed, Whole

\* set() and set_all() leave a configuration in memory and a save to come.
LEMMA SetIsTyped ==
    ASSUME ConfigInv, NEW t \in Threads, NEW k \in Settings, NEW v \in Values,
           Set(t, k, v) \/ SetAll(t, k, v)
    PROVE  /\ data' \in Configs /\ data' # Missing
           /\ left' \in [Threads -> Nat] /\ left'[t] > 0
<1>1. k \in Keys
  BY DEF Keys
<1>2. CASE Set(t, k, v)
  <2>1. data \in Configs
    BY <1>2 DEF Set, Begin, ConfigInv, TypeOK, ConfigType, Constructing
  <2>2. PICK n \in ListenerSaves, w \in {v, DefaultValue} :
          data' = [data EXCEPT ![k] = w] /\ left' = [left EXCEPT ![t] = n + 1]
    BY <1>2 DEF Set
  <2>3. w \in Values /\ n \in Nat
    BY ConfigAssumption
  <2>4. data' \in Configs
    BY <1>1, <2>1, <2>2, <2>3, ChangesAreTyped
  <2>5. left' \in [Threads -> Nat] /\ left'[t] > 0
    BY <2>2, <2>3 DEF ConfigInv, TypeOK, ThreadType
  <2> QED
    BY <2>4, <2>5, Sentinels
<1>3. CASE SetAll(t, k, v)
  <2>1. frontend \in Configs
    BY <1>3 DEF SetAll, ConfigInv, TypeOK, ConfigType
  <2>2. PICK n \in ListenerSaves : left' = [left EXCEPT ![t] = n + 1]
    BY <1>3 DEF SetAll
  <2>3. n \in Nat
    BY ConfigAssumption
  <2>4. data' = [frontend EXCEPT ![k] = v]
    BY <1>3 DEF SetAll
  <2>5. data' \in Configs
    BY <1>1, <2>1, <2>4, ChangesAreTyped
  <2>6. left' \in [Threads -> Nat] /\ left'[t] > 0
    BY <2>2, <2>3 DEF ConfigInv, TypeOK, ThreadType
  <2> QED
    BY <2>5, <2>6, Sentinels
<1> QED
  BY <1>2, <1>3

\* What the theme store or plugin_config is about to set is a change.
LEMMA ChangeIsTyped ==
    ASSUME ConfigInv, NEW t \in Threads, NEW k \in Keys, NEW v \in Values,
           ThemeSet(t, k, v) \/ PluginSet(t, k, v) \/ PluginDelete(t, k)
    PROVE  change' \in [Threads -> Changes]
<1>1. data \in Configs
  BY DEF ThemeSet, PluginSet, PluginDelete, Begin, ConfigInv, TypeOK, ConfigType, Constructing
<1> QED
  BY <1>1, ChangesAreTyped DEF ThemeSet, PluginSet, PluginDelete, ConfigInv, TypeOK, ThreadType

\* Every step keeps the types.
LEMMA TypeStep == ConfigInv /\ [Next]_vars => TypeOK'
<1> SUFFICES ASSUME ConfigInv, [Next]_vars PROVE TypeOK'
  OBVIOUS
<1> USE DEF ConfigInv, TypeOK, FlagType, ConfigType, ThreadType, Saving, lockVars, diskVars, countVars
<1>1. CASE UNCHANGED vars
  BY <1>1 DEF vars, threadVars
<1>2. CASE Crash
  BY <1>2, ChangesAreTyped DEF Crash
<1>3. ASSUME NEW t \in Threads, Start(t) PROVE TypeOK'
  BY <1>3 DEF Start
<1>4. ASSUME NEW t \in Threads, Create(t) PROVE TypeOK'
  BY <1>4, DefaultsAreConfigs DEF Create
<1>5. ASSUME NEW t \in Threads, Load(t) PROVE TypeOK'
  <2>1. FlagType'
    BY <1>5, DefaultsAreConfigs, ParsedIsConfig, WholeIsBoolean DEF Load
  <2>2. ConfigType'
    BY <1>5, DefaultsAreConfigs, ParsedIsConfig DEF Load
  <2>3. ThreadType'
    BY <1>5, DefaultsAreConfigs, ParsedIsConfig DEF Load
  <2> QED
    BY <2>1, <2>2, <2>3
<1>6. ASSUME NEW t \in Threads, LockSave(t) PROVE TypeOK'
  BY <1>6 DEF LockSave
<1>7. ASSUME NEW t \in Threads, LockData(t) PROVE TypeOK'
  <2>1. left[t] \in Nat /\ left[t] > 0
    BY <1>7 DEF LockData, SavesCounted
  <2>2. FlagType'
    BY <1>7 DEF LockData, SaveReturns, MayPersist
  <2>3. ConfigType'
    BY <1>7 DEF LockData, SaveReturns, MayPersist
  <2>4. ThreadType'
    BY <1>7, <2>1 DEF LockData, SaveReturns, MayPersist
  <2> QED
    BY <2>2, <2>3, <2>4
<1>8. ASSUME NEW t \in Threads, OpenTemp(t) PROVE TypeOK'
  <2>1. left[t] \in Nat /\ left[t] > 0
    BY <1>8 DEF OpenTemp, SavesCounted
  <2>2. FlagType'
    BY <1>8 DEF OpenTemp, SaveReturns, Truncate
  <2>3. ConfigType'
    BY <1>8 DEF OpenTemp, SaveReturns, Truncate
  <2>4. ThreadType'
    BY <1>8, <2>1 DEF OpenTemp, SaveReturns, Truncate
  <2> QED
    BY <2>2, <2>3, <2>4
<1>9. ASSUME NEW t \in Threads, WriteTemp(t) PROVE TypeOK'
  <2>1. left[t] \in Nat /\ left[t] > 0
    BY <1>9 DEF WriteTemp, SavesCounted
  <2>2. FlagType'
    BY <1>9 DEF WriteTemp, SaveReturns
  <2>3. ConfigType'
    BY <1>9 DEF WriteTemp, SaveReturns
  <2>4. ThreadType'
    BY <1>9, <2>1 DEF WriteTemp, SaveReturns
  <2> QED
    BY <2>2, <2>3, <2>4
<1>10. ASSUME NEW t \in Threads, Rename(t) PROVE TypeOK'
  <2>1. left[t] \in Nat /\ left[t] > 0
    BY <1>10 DEF Rename, SavesCounted
  <2>2. FlagType'
    BY <1>10 DEF Rename, SaveReturns
  <2>3. ConfigType'
    BY <1>10 DEF Rename, SaveReturns
  <2>4. ThreadType'
    BY <1>10, <2>1 DEF Rename, SaveReturns
  <2> QED
    BY <2>2, <2>3, <2>4
<1>11. ASSUME NEW t \in Threads, SetSkipping(t) PROVE TypeOK'
  BY <1>11, ChangesAreTyped DEF SetSkipping, CallSave, Constructing
<1>12. ASSUME NEW t \in Threads, GetAll(t) PROVE TypeOK'
  <2>1. FlagType'
    BY <1>12, DefaultsAreConfigs DEF GetAll, Begin, Constructing
  <2>2. ConfigType'
    BY <1>12, DefaultsAreConfigs DEF GetAll, Begin, Constructing
  <2>3. ThreadType'
    BY <1>12, DefaultsAreConfigs DEF GetAll, Begin, Constructing
  <2> QED
    BY <2>1, <2>2, <2>3
<1>13. ASSUME NEW t \in Threads, PluginDeleteAll(t) PROVE TypeOK'
  BY <1>13, ChangesAreTyped DEF PluginDeleteAll, Begin
<1>14. ASSUME NEW t \in Threads, NEW k \in Settings, NEW v \in Values, Set(t, k, v) PROVE TypeOK'
  <2>1. data' \in Configs /\ data' # Missing /\ left' \in [Threads -> Nat] /\ left'[t] > 0
    BY <1>14, SetIsTyped
  <2> QED
    BY <1>14, <2>1 DEF Set, Begin
<1>15. ASSUME NEW t \in Threads, NEW k \in Settings, NEW v \in Values, SetAll(t, k, v) PROVE TypeOK'
  <2>1. data' \in Configs /\ data' # Missing /\ left' \in [Threads -> Nat] /\ left'[t] > 0
    BY <1>15, SetIsTyped
  <2> QED
    BY <1>15, <2>1 DEF SetAll, Begin
<1>16. ASSUME NEW t \in Threads, NEW k \in Settings, NEW v \in Values, ThemeSet(t, k, v) PROVE TypeOK'
  <2>1. change' \in [Threads -> Changes]
    BY <1>16, ChangeIsTyped DEF Keys
  <2> QED
    BY <1>16, <2>1 DEF ThemeSet, Begin
<1>17. ASSUME NEW t \in Threads, NEW k \in PluginKeys, NEW v \in Values, PluginSet(t, k, v) PROVE TypeOK'
  <2>1. change' \in [Threads -> Changes]
    BY <1>17, ChangeIsTyped DEF Keys
  <2> QED
    BY <1>17, <2>1 DEF PluginSet, Begin
<1>18. ASSUME NEW t \in Threads, NEW k \in PluginKeys, PluginDelete(t, k) PROVE TypeOK'
  <2>1. change' \in [Threads -> Changes]
    BY <1>18, ChangeIsTyped, ConfigAssumption DEF Keys
  <2> QED
    BY <1>18, <2>1 DEF PluginDelete, Begin
<1> QED
  BY <1>1, <1>2, <1>3, <1>4, <1>5, <1>6, <1>7, <1>8, <1>9, <1>10, <1>11, <1>12, <1>13, <1>14, <1>15, <1>16, <1>17, <1>18 DEF Next, Construct, Persist, Request

\* The locks exclude a second writer, and a change while the temporary file is written.
LEMMA LockStep == ConfigInv /\ [Next]_vars => (Locking /\ TempIsCurrent)'
<1> SUFFICES ASSUME ConfigInv, [Next]_vars PROVE (Locking /\ TempIsCurrent)'
  OBVIOUS
<1> USE DEF ConfigInv, TypeOK, ThreadType, Locking, TempIsCurrent, Writing, Saving, Constructing, lockVars, diskVars, countVars
<1>1. CASE UNCHANGED vars
  BY <1>1 DEF vars, threadVars
<1>2. CASE Crash
  BY <1>2 DEF Crash
<1>3. ASSUME NEW t \in Threads, Start(t) PROVE (Locking /\ TempIsCurrent)'
  BY <1>3, ConfigAssumption DEF Start
<1>4. ASSUME NEW t \in Threads, Create(t) PROVE (Locking /\ TempIsCurrent)'
  BY <1>4, ConfigAssumption DEF Create
<1>5. ASSUME NEW t \in Threads, Load(t) PROVE (Locking /\ TempIsCurrent)'
  BY <1>5, ConfigAssumption DEF Load
<1>6. ASSUME NEW t \in Threads, LockSave(t) PROVE (Locking /\ TempIsCurrent)'
  BY <1>6, ConfigAssumption DEF LockSave
<1>7. ASSUME NEW t \in Threads, LockData(t) PROVE (Locking /\ TempIsCurrent)'
  BY <1>7, ConfigAssumption DEF LockData, SaveReturns, MayPersist
<1>8. ASSUME NEW t \in Threads, OpenTemp(t) PROVE (Locking /\ TempIsCurrent)'
  BY <1>8, ConfigAssumption DEF OpenTemp, SaveReturns, Truncate
<1>9. ASSUME NEW t \in Threads, WriteTemp(t) PROVE (Locking /\ TempIsCurrent)'
  BY <1>9, ConfigAssumption DEF WriteTemp, SaveReturns
<1>10. ASSUME NEW t \in Threads, Rename(t) PROVE (Locking /\ TempIsCurrent)'
  BY <1>10, ConfigAssumption DEF Rename, SaveReturns
<1>11. ASSUME NEW t \in Threads, SetSkipping(t) PROVE (Locking /\ TempIsCurrent)'
  BY <1>11, ConfigAssumption DEF SetSkipping, CallSave
<1>12. ASSUME NEW t \in Threads, GetAll(t) PROVE (Locking /\ TempIsCurrent)'
  BY <1>12, ConfigAssumption DEF GetAll, Begin
<1>13. ASSUME NEW t \in Threads, PluginDeleteAll(t) PROVE (Locking /\ TempIsCurrent)'
  BY <1>13 DEF PluginDeleteAll, Begin
<1>14. ASSUME NEW t \in Threads, NEW k \in Settings, NEW v \in Values, Set(t, k, v) PROVE (Locking /\ TempIsCurrent)'
  BY <1>14, ConfigAssumption DEF Set, Begin
<1>15. ASSUME NEW t \in Threads, NEW k \in Settings, NEW v \in Values, SetAll(t, k, v) PROVE (Locking /\ TempIsCurrent)'
  BY <1>15, ConfigAssumption DEF SetAll, Begin
<1>16. ASSUME NEW t \in Threads, NEW k \in Settings, NEW v \in Values, ThemeSet(t, k, v) PROVE (Locking /\ TempIsCurrent)'
  BY <1>16 DEF ThemeSet, Begin
<1>17. ASSUME NEW t \in Threads, NEW k \in PluginKeys, NEW v \in Values, PluginSet(t, k, v) PROVE (Locking /\ TempIsCurrent)'
  BY <1>17 DEF PluginSet, Begin
<1>18. ASSUME NEW t \in Threads, NEW k \in PluginKeys, PluginDelete(t, k) PROVE (Locking /\ TempIsCurrent)'
  BY <1>18 DEF PluginDelete, Begin
<1> QED
  BY <1>1, <1>2, <1>3, <1>4, <1>5, <1>6, <1>7, <1>8, <1>9, <1>10, <1>11, <1>12, <1>13, <1>14, <1>15, <1>16, <1>17, <1>18 DEF Next, Construct, Persist, Request

\* A save is counted from the change it belongs to until it returns.
LEMMA CountStep == ConfigInv /\ [Next]_vars => SavesCounted'
<1> SUFFICES ASSUME ConfigInv, [Next]_vars PROVE SavesCounted'
  OBVIOUS
<1> USE DEF ConfigInv, TypeOK, ThreadType, SavesCounted, Saving, Constructing, lockVars, diskVars, countVars
<1>1. CASE UNCHANGED vars
  BY <1>1 DEF vars, threadVars
<1>2. CASE Crash
  BY <1>2 DEF Crash
<1>3. ASSUME NEW t \in Threads, Start(t) PROVE SavesCounted'
  BY <1>3 DEF Start
<1>4. ASSUME NEW t \in Threads, Create(t) PROVE SavesCounted'
  BY <1>4 DEF Create
<1>5. ASSUME NEW t \in Threads, Load(t) PROVE SavesCounted'
  BY <1>5 DEF Load
<1>6. ASSUME NEW t \in Threads, LockSave(t) PROVE SavesCounted'
  BY <1>6 DEF LockSave
<1>7. ASSUME NEW t \in Threads, LockData(t) PROVE SavesCounted'
  BY <1>7 DEF LockData, SaveReturns, MayPersist
<1>8. ASSUME NEW t \in Threads, OpenTemp(t) PROVE SavesCounted'
  BY <1>8 DEF OpenTemp, SaveReturns, Truncate
<1>9. ASSUME NEW t \in Threads, WriteTemp(t) PROVE SavesCounted'
  BY <1>9 DEF WriteTemp, SaveReturns
<1>10. ASSUME NEW t \in Threads, Rename(t) PROVE SavesCounted'
  BY <1>10 DEF Rename, SaveReturns
<1>11. ASSUME NEW t \in Threads, SetSkipping(t) PROVE SavesCounted'
  BY <1>11 DEF SetSkipping, CallSave
<1>12. ASSUME NEW t \in Threads, GetAll(t) PROVE SavesCounted'
  BY <1>12 DEF GetAll, Begin
<1>13. ASSUME NEW t \in Threads, PluginDeleteAll(t) PROVE SavesCounted'
  BY <1>13 DEF PluginDeleteAll, Begin
<1>14. ASSUME NEW t \in Threads, NEW k \in Settings, NEW v \in Values, Set(t, k, v) PROVE SavesCounted'
  <2>1. data' \in Configs /\ data' # Missing /\ left' \in [Threads -> Nat] /\ left'[t] > 0
    BY <1>14, SetIsTyped
  <2> QED
    BY <1>14, <2>1 DEF Set, Begin
<1>15. ASSUME NEW t \in Threads, NEW k \in Settings, NEW v \in Values, SetAll(t, k, v) PROVE SavesCounted'
  <2>1. data' \in Configs /\ data' # Missing /\ left' \in [Threads -> Nat] /\ left'[t] > 0
    BY <1>15, SetIsTyped
  <2> QED
    BY <1>15, <2>1 DEF SetAll, Begin
<1>16. ASSUME NEW t \in Threads, NEW k \in Settings, NEW v \in Values, ThemeSet(t, k, v) PROVE SavesCounted'
  BY <1>16 DEF ThemeSet, Begin
<1>17. ASSUME NEW t \in Threads, NEW k \in PluginKeys, NEW v \in Values, PluginSet(t, k, v) PROVE SavesCounted'
  BY <1>17 DEF PluginSet, Begin
<1>18. ASSUME NEW t \in Threads, NEW k \in PluginKeys, PluginDelete(t, k) PROVE SavesCounted'
  BY <1>18 DEF PluginDelete, Begin
<1> QED
  BY <1>1, <1>2, <1>3, <1>4, <1>5, <1>6, <1>7, <1>8, <1>9, <1>10, <1>11, <1>12, <1>13, <1>14, <1>15, <1>16, <1>17, <1>18 DEF Next, Construct, Persist, Request

\* The constructor runs alone.
LEMMA ConstructStep == ConfigInv /\ [Next]_vars => Constructing'
<1> SUFFICES ASSUME ConfigInv, [Next]_vars PROVE Constructing'
  OBVIOUS
<1> USE DEF ConfigInv, TypeOK, ThreadType, ConfigType, FlagType, Constructing, SavesCounted, Saving, Locking, Writing, lockVars, diskVars, countVars
<1>1. CASE UNCHANGED vars
  BY <1>1 DEF vars, threadVars
<1>2. CASE Crash
  BY <1>2, Sentinels DEF Crash
<1>3. ASSUME NEW t \in Threads, Start(t) PROVE Constructing'
  BY <1>3, Sentinels DEF Start
<1>4. ASSUME NEW t \in Threads, Create(t) PROVE Constructing'
  BY <1>4, Sentinels, DefaultsAreConfigs DEF Create
<1>5. ASSUME NEW t \in Threads, Load(t) PROVE Constructing'
  BY <1>5, Sentinels, DefaultsAreConfigs, ParsedIsConfig DEF Load
<1>6. ASSUME NEW t \in Threads, LockSave(t) PROVE Constructing'
  BY <1>6, Sentinels DEF LockSave
<1>7. ASSUME NEW t \in Threads, LockData(t) PROVE Constructing'
  BY <1>7, Sentinels DEF LockData, SaveReturns, MayPersist
<1>8. ASSUME NEW t \in Threads, OpenTemp(t) PROVE Constructing'
  BY <1>8, Sentinels DEF OpenTemp, SaveReturns, Truncate
<1>9. ASSUME NEW t \in Threads, WriteTemp(t) PROVE Constructing'
  BY <1>9, Sentinels DEF WriteTemp, SaveReturns
<1>10. ASSUME NEW t \in Threads, Rename(t) PROVE Constructing'
  BY <1>10, Sentinels DEF Rename, SaveReturns
<1>11. ASSUME NEW t \in Threads, SetSkipping(t) PROVE Constructing'
  BY <1>11, Sentinels, ChangesAreTyped DEF SetSkipping, CallSave
<1>12. ASSUME NEW t \in Threads, GetAll(t) PROVE Constructing'
  BY <1>12, Sentinels DEF GetAll, Begin
<1>13. ASSUME NEW t \in Threads, PluginDeleteAll(t) PROVE Constructing'
  BY <1>13, Sentinels DEF PluginDeleteAll, Begin
<1>14. ASSUME NEW t \in Threads, NEW k \in Settings, NEW v \in Values, Set(t, k, v) PROVE Constructing'
  <2>1. data' \in Configs /\ data' # Missing /\ left' \in [Threads -> Nat] /\ left'[t] > 0
    BY <1>14, SetIsTyped
  <2> QED
    BY <1>14, Sentinels, <2>1 DEF Set, Begin
<1>15. ASSUME NEW t \in Threads, NEW k \in Settings, NEW v \in Values, SetAll(t, k, v) PROVE Constructing'
  <2>1. data' \in Configs /\ data' # Missing /\ left' \in [Threads -> Nat] /\ left'[t] > 0
    BY <1>15, SetIsTyped
  <2> QED
    BY <1>15, Sentinels, <2>1 DEF SetAll, Begin
<1>16. ASSUME NEW t \in Threads, NEW k \in Settings, NEW v \in Values, ThemeSet(t, k, v) PROVE Constructing'
  BY <1>16, Sentinels DEF ThemeSet, Begin
<1>17. ASSUME NEW t \in Threads, NEW k \in PluginKeys, NEW v \in Values, PluginSet(t, k, v) PROVE Constructing'
  BY <1>17, Sentinels DEF PluginSet, Begin
<1>18. ASSUME NEW t \in Threads, NEW k \in PluginKeys, PluginDelete(t, k) PROVE Constructing'
  BY <1>18, Sentinels DEF PluginDelete, Begin
<1> QED
  BY <1>1, <1>2, <1>3, <1>4, <1>5, <1>6, <1>7, <1>8, <1>9, <1>10, <1>11, <1>12, <1>13, <1>14, <1>15, <1>16, <1>17, <1>18 DEF Next, Construct, Persist, Request

\* A file that a session may overwrite is known to it.
LEMMA KnownStep == ConfigInv /\ [Next]_vars => FileKnown'
<1> SUFFICES ASSUME ConfigInv, [Next]_vars PROVE FileKnown'
  OBVIOUS
<1> USE DEF ConfigInv, TypeOK, ThreadType, ConfigType, FileKnown, Constructing, Locking, Writing, Saving, Whole, lockVars, diskVars, countVars
<1>1. CASE UNCHANGED vars
  BY <1>1 DEF vars, threadVars
<1>2. CASE Crash
  BY <1>2, Sentinels DEF Crash
<1>3. ASSUME NEW t \in Threads, Start(t) PROVE FileKnown'
  BY <1>3, Sentinels DEF Start
<1>4. ASSUME NEW t \in Threads, Create(t) PROVE FileKnown'
  BY <1>4, Sentinels DEF Create
<1>5. ASSUME NEW t \in Threads, Load(t) PROVE FileKnown'
  BY <1>5, Sentinels DEF Load
<1>6. ASSUME NEW t \in Threads, LockSave(t) PROVE FileKnown'
  BY <1>6, Sentinels DEF LockSave
<1>7. ASSUME NEW t \in Threads, LockData(t) PROVE FileKnown'
  BY <1>7, Sentinels DEF LockData, SaveReturns, MayPersist
<1>8. ASSUME NEW t \in Threads, OpenTemp(t) PROVE FileKnown'
  BY <1>8, Sentinels DEF OpenTemp, SaveReturns, Truncate
<1>9. ASSUME NEW t \in Threads, WriteTemp(t) PROVE FileKnown'
  BY <1>9, Sentinels DEF WriteTemp, SaveReturns
<1>10. ASSUME NEW t \in Threads, Rename(t) PROVE FileKnown'
  BY <1>10, Sentinels DEF Rename, SaveReturns
<1>11. ASSUME NEW t \in Threads, SetSkipping(t) PROVE FileKnown'
  BY <1>11, Sentinels DEF SetSkipping, CallSave
<1>12. ASSUME NEW t \in Threads, GetAll(t) PROVE FileKnown'
  BY <1>12, Sentinels DEF GetAll, Begin
<1>13. ASSUME NEW t \in Threads, PluginDeleteAll(t) PROVE FileKnown'
  BY <1>13, Sentinels DEF PluginDeleteAll, Begin
<1>14. ASSUME NEW t \in Threads, NEW k \in Settings, NEW v \in Values, Set(t, k, v) PROVE FileKnown'
  BY <1>14, Sentinels DEF Set, Begin
<1>15. ASSUME NEW t \in Threads, NEW k \in Settings, NEW v \in Values, SetAll(t, k, v) PROVE FileKnown'
  BY <1>15, Sentinels DEF SetAll, Begin
<1>16. ASSUME NEW t \in Threads, NEW k \in Settings, NEW v \in Values, ThemeSet(t, k, v) PROVE FileKnown'
  BY <1>16, Sentinels DEF ThemeSet, Begin
<1>17. ASSUME NEW t \in Threads, NEW k \in PluginKeys, NEW v \in Values, PluginSet(t, k, v) PROVE FileKnown'
  BY <1>17, Sentinels DEF PluginSet, Begin
<1>18. ASSUME NEW t \in Threads, NEW k \in PluginKeys, PluginDelete(t, k) PROVE FileKnown'
  BY <1>18, Sentinels DEF PluginDelete, Begin
<1> QED
  BY <1>1, <1>2, <1>3, <1>4, <1>5, <1>6, <1>7, <1>8, <1>9, <1>10, <1>11, <1>12, <1>13, <1>14, <1>15, <1>16, <1>17, <1>18 DEF Next, Construct, Persist, Request

\* A change has a save ahead, and a successful save leaves no difference.
LEMMA ForgetStep == ConfigInv /\ [Next]_vars => NoChangeForgotten'
<1> SUFFICES ASSUME ConfigInv, [Next]_vars PROVE NoChangeForgotten'
  OBVIOUS
<1> USE DEF ConfigInv, TypeOK, ThreadType, ConfigType, NoChangeForgotten, SavesCounted, TempIsCurrent, Locking, Writing, Constructing, Saving, lockVars, diskVars, countVars
<1>1. CASE UNCHANGED vars
  BY <1>1 DEF vars, threadVars
<1>2. CASE Crash
  BY <1>2, Sentinels DEF Crash
<1>3. ASSUME NEW t \in Threads, Start(t) PROVE NoChangeForgotten'
  BY <1>3, Sentinels DEF Start
<1>4. ASSUME NEW t \in Threads, Create(t) PROVE NoChangeForgotten'
  BY <1>4, Sentinels DEF Create
<1>5. ASSUME NEW t \in Threads, Load(t) PROVE NoChangeForgotten'
  BY <1>5, Sentinels DEF Load
<1>6. ASSUME NEW t \in Threads, LockSave(t) PROVE NoChangeForgotten'
  BY <1>6, Sentinels DEF LockSave
<1>7. ASSUME NEW t \in Threads, LockData(t) PROVE NoChangeForgotten'
  BY <1>7, Sentinels DEF LockData, SaveReturns, MayPersist
<1>8. ASSUME NEW t \in Threads, OpenTemp(t) PROVE NoChangeForgotten'
  BY <1>8, Sentinels DEF OpenTemp, SaveReturns, Truncate
<1>9. ASSUME NEW t \in Threads, WriteTemp(t) PROVE NoChangeForgotten'
  BY <1>9, Sentinels DEF WriteTemp, SaveReturns
<1>10. ASSUME NEW t \in Threads, Rename(t) PROVE NoChangeForgotten'
  BY <1>10, Sentinels DEF Rename, SaveReturns
<1>11. ASSUME NEW t \in Threads, SetSkipping(t) PROVE NoChangeForgotten'
  BY <1>11, Sentinels DEF SetSkipping, CallSave
<1>12. ASSUME NEW t \in Threads, GetAll(t) PROVE NoChangeForgotten'
  BY <1>12, Sentinels DEF GetAll, Begin
<1>13. ASSUME NEW t \in Threads, PluginDeleteAll(t) PROVE NoChangeForgotten'
  BY <1>13, Sentinels DEF PluginDeleteAll, Begin
<1>14. ASSUME NEW t \in Threads, NEW k \in Settings, NEW v \in Values, Set(t, k, v) PROVE NoChangeForgotten'
  <2>1. data' \in Configs /\ data' # Missing /\ left' \in [Threads -> Nat] /\ left'[t] > 0
    BY <1>14, SetIsTyped
  <2> QED
    BY <1>14, Sentinels, <2>1 DEF Set, Begin
<1>15. ASSUME NEW t \in Threads, NEW k \in Settings, NEW v \in Values, SetAll(t, k, v) PROVE NoChangeForgotten'
  <2>1. data' \in Configs /\ data' # Missing /\ left' \in [Threads -> Nat] /\ left'[t] > 0
    BY <1>15, SetIsTyped
  <2> QED
    BY <1>15, Sentinels, <2>1 DEF SetAll, Begin
<1>16. ASSUME NEW t \in Threads, NEW k \in Settings, NEW v \in Values, ThemeSet(t, k, v) PROVE NoChangeForgotten'
  BY <1>16, Sentinels DEF ThemeSet, Begin
<1>17. ASSUME NEW t \in Threads, NEW k \in PluginKeys, NEW v \in Values, PluginSet(t, k, v) PROVE NoChangeForgotten'
  BY <1>17, Sentinels DEF PluginSet, Begin
<1>18. ASSUME NEW t \in Threads, NEW k \in PluginKeys, PluginDelete(t, k) PROVE NoChangeForgotten'
  BY <1>18, Sentinels DEF PluginDelete, Begin
<1> QED
  BY <1>1, <1>2, <1>3, <1>4, <1>5, <1>6, <1>7, <1>8, <1>9, <1>10, <1>11, <1>12, <1>13, <1>14, <1>15, <1>16, <1>17, <1>18 DEF Next, Construct, Persist, Request

\* The invariant is inductive.
LEMMA Inductive == ConfigInv /\ [Next]_vars => ConfigInv'
BY TypeStep, LockStep, CountStep, ConstructStep, KnownStep, ForgetStep DEF ConfigInv

\* It holds in every session.
LEMMA Invariant == Spec => []ConfigInv
BY InitInv, Inductive, PTL DEF Spec

\* What is in memory and on disk is of the expected kind, whatever load_from_disk() finds.
THEOREM ConfigTypeCorrect == Spec => []TypeOK
<1>1. ConfigInv => TypeOK
  BY DEF ConfigInv
<1> QED
  BY <1>1, Invariant, PTL

\* No change that set(), set_all() or plugin_config has made is forgotten by save_to_disk():
\* where memory and file differ, a save is due, has failed, or is disabled.
THEOREM ChangesAreSaved == Spec => []NoChangeForgotten
<1>1. ConfigInv => NoChangeForgotten
  BY DEF ConfigInv
<1> QED
  BY <1>1, Invariant, PTL

\* A step changes a file that is whole only by a rename.
LEMMA OnlyRenameReplaces ==
    ASSUME ConfigInv, [Next]_vars, Whole(file), file' # file
    PROVE  \E t \in Threads : pc[t] = "rename" /\ file' = temp
<1> USE DEF diskVars
<1>1. ~UNCHANGED vars
  BY DEF vars
<1>2. ~Crash
  BY DEF Crash
<1>3. PICK t \in Threads : Construct(t) \/ Request(t) \/ SetSkipping(t) \/ Persist(t)
  BY <1>1, <1>2 DEF Next
<1>4. ~Start(t) /\ ~Create(t) /\ ~Load(t)
  BY Sentinels DEF Start, Create, Load, Whole, ConfigInv, Constructing
<1>5. ~Request(t)
  BY DEF Request, Set, SetAll, GetAll, ThemeSet, PluginSet, PluginDelete, PluginDeleteAll, Begin
<1>6. ~SetSkipping(t)
  BY DEF SetSkipping
<1>7. ~LockSave(t) /\ ~LockData(t) /\ ~OpenTemp(t) /\ ~WriteTemp(t)
  BY DEF LockSave, LockData, OpenTemp, Truncate, WriteTemp
<1>8. Rename(t)
  BY <1>3, <1>4, <1>5, <1>6, <1>7 DEF Construct, Persist
<1> QED
  BY <1>8 DEF Rename

\* save_to_disk() replaces a whole config.json only by the whole of what is in memory
\* then, for any number of threads, crashes and failing operations.
THEOREM FileIsReplacedWhole == Spec => FileReplacedWhole
<1>1. ConfigInv /\ [Next]_vars => (Whole(file) /\ file' # file => file' = data)
  BY OnlyRenameReplaces DEF ConfigInv, TempIsCurrent
<1> QED
  BY <1>1, Invariant, PTL DEF Spec, FileReplacedWhole

\* load_from_disk() protects the settings it could not open from every later save of
\* the session.
THEOREM UnreadFileIsKept == Spec => UnreadIsKept
<1>1. ConfigInv /\ [Next]_vars => (Whole(file) /\ ~known => file' = file)
  BY OnlyRenameReplaces DEF ConfigInv, Locking, Writing, FileKnown, Constructing, Saving
<1> QED
  BY <1>1, Invariant, PTL DEF Spec, UnreadIsKept
=============================================================================
